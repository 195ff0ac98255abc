-------------------------- MODULE PbufBytes_proofs --------------------------
(***************************************************************************)
(* Proofs about the bytes in pbufs, for all sizes of the pool and of       *)
(* memory, any arrangement of pbufs, and any order of the calls.  Streams  *)
(* over parts of chains implement streams of bytes (ByteStream); reading,  *)
(* searching, writing, copying and cloning a chain do what they would do   *)
(* to its bytes in one piece.                                              *)
(***************************************************************************)
EXTENDS Pbuf_proofs

\* Where the sequences are once joined.
JoinsUp(ss, g, n, s) ==
  \A i \in 1 .. n : \A k \in 1 .. Len(ss[i]) :
    /\ g[i] - Len(ss[i]) + k \in 1 .. g[n]
    /\ s[g[i] - Len(ss[i]) + k] = ss[i][k]

\* Sequences joined keep their elements, in their order.
LEMMA JoinedElements ==
  ASSUME NEW A, NEW m, NEW ss, NEW g, AddsUp(A, ss, g, m)
  PROVE  /\ FlattenSeq(ss) \in Seq(A) /\ Len(FlattenSeq(ss)) = g[m]
         /\ JoinsUp(ss, g, m, FlattenSeq(ss))
<1>0. /\ m \in Nat /\ m > 0 /\ ss \in [1 .. m -> Seq(A)] /\ g \in [1 .. m -> Nat]
      /\ g[1] = Len(ss[1]) /\ \A i \in 1 .. m - 1 : g[i + 1] = g[i] + Len(ss[i + 1])
  BY DEF AddsUp
<1>1. Len(ss) = m /\ m # 0
  BY <1>0
<1>2. PICK f : f = CHOOSE h : Joined(ss, h, m)
  OBVIOUS
<1>3. Joined(ss, f, m)
  BY <1>0, <1>2, JoinsExist
<1>4. FlattenSeq(ss) = f[m]
  BY <1>1, <1>2 DEF FlattenSeq, Joined
<1>5. \A i \in 1 .. m : f[i] = IF i = 1 THEN ss[i] ELSE f[i - 1] \o ss[i]
  BY <1>0, <1>3 DEF Joined
<1> DEFINE Good(n) == f[n] \in Seq(A) /\ Len(f[n]) = g[n] /\ JoinsUp(ss, g, n, f[n])
           Q == {n \in Nat : n + 1 \in 1 .. m => Good(n + 1)}
<1>6. 0 \in Q
  <2>1. 1 \in 1 .. m
    BY <1>0
  <2>2. f[1] = ss[1] /\ ss[1] \in Seq(A)
    BY <1>0, <1>5, <2>1
  <2>3. JoinsUp(ss, g, 1, f[1])
    <3>1. ASSUME NEW i \in 1 .. 1, NEW k \in 1 .. Len(ss[i])
          PROVE  g[i] - Len(ss[i]) + k \in 1 .. g[1] /\ f[1][g[i] - Len(ss[i]) + k] = ss[i][k]
      <4>1. i = 1 /\ Len(ss[1]) \in Nat /\ g[1] = Len(ss[1]) /\ k \in 1 .. Len(ss[1])
        BY <1>0, <2>2
      <4>2. g[i] - Len(ss[i]) + k = k
        BY <4>1
      <4>3. QED
        BY <2>2, <4>1, <4>2
    <3>2. QED
      BY <3>1 DEF JoinsUp
  <2>4. QED
    BY <1>0, <2>2, <2>3
<1>7. ASSUME NEW n \in 0 .. m - 1, n \in Q
      PROVE  n + 1 \in Q
  <2>1. CASE n + 1 \in 1 .. m - 1
    <3>1. n + 1 \in 1 .. m /\ (n + 1) + 1 \in 1 .. m /\ (n + 1) + 1 # 1 /\ ((n + 1) + 1) - 1 = n + 1
      BY <1>0, <2>1
    <3>2. PICK j : j = n + 1
      OBVIOUS
    <3>3. PICK x, y : x = f[j] /\ y = ss[j + 1]
      OBVIOUS
    <3>4. x \in Seq(A) /\ Len(x) = g[j] /\ y \in Seq(A) /\ JoinsUp(ss, g, j, x)
      BY <1>0, <1>7, <3>1, <3>2, <3>3
    <3>5. f[j + 1] = x \o y
      BY <1>0, <1>5, <3>1, <3>2, <3>3
    <3>6. /\ x \o y \in Seq(A) /\ Len(x \o y) = Len(x) + Len(y)
          /\ \A k \in 1 .. Len(x) : (x \o y)[k] = x[k]
          /\ \A k \in 1 .. Len(y) : (x \o y)[Len(x) + k] = y[k]
      <4>1. x \in Seq(A) /\ y \in Seq(A)
        BY <3>4
      <4>2. x \o y \in Seq(A) /\ Len(x \o y) = Len(x) + Len(y)
        BY <4>1
      <4>3. \A k \in 1 .. Len(x) : (x \o y)[k] = x[k]
        BY <4>1
      <4>4. \A k \in 1 .. Len(y) : (x \o y)[Len(x) + k] = y[k]
        BY <4>1
      <4>5. QED
        BY <4>2, <4>3, <4>4
    <3>7. g[j + 1] = g[j] + Len(y) /\ g[j] \in Nat /\ g[j + 1] \in Nat /\ Len(y) \in Nat /\ j \in Nat
      BY <1>0, <2>1, <3>1, <3>2, <3>3, <3>4
    <3>8. PICK z : z = x \o y
      OBVIOUS
    <3>9. ASSUME NEW i \in 1 .. j + 1, NEW k \in 1 .. Len(ss[i])
          PROVE  g[i] - Len(ss[i]) + k \in 1 .. g[j + 1] /\ z[g[i] - Len(ss[i]) + k] = ss[i][k]
      <4>1. CASE i = j + 1
        <5>1. k \in 1 .. Len(y) /\ g[i] - Len(ss[i]) + k = Len(x) + k
          <6>1. ss[i] = y /\ g[i] = g[j] + Len(y) /\ Len(x) = g[j]
            BY <3>3, <3>4, <3>7, <4>1
          <6>2. k \in 1 .. Len(y)
            BY <6>1
          <6>3. QED
            BY <3>7, <6>1, <6>2
        <5>2. z[Len(x) + k] = y[k]
          BY <3>6, <3>8, <5>1
        <5>3. Len(x) + k \in 1 .. g[j + 1]
          <6>1. Len(x) = g[j] /\ k \in 1 .. Len(y)
            BY <3>4, <5>1
          <6>2. \A a \in Nat, b \in Nat : \A d \in 1 .. b : a + d \in 1 .. a + b
            OBVIOUS
          <6>3. g[j] + k \in 1 .. g[j] + Len(y)
            BY <3>7, <6>1, <6>2
          <6>4. QED
            BY <3>7, <6>1, <6>3
        <5>4. QED
          BY <3>3, <4>1, <5>1, <5>2, <5>3
      <4>2. CASE i # j + 1
        <5>1. i \in 1 .. j
          BY <3>7, <4>2
        <5>2. g[i] - Len(ss[i]) + k \in 1 .. g[j] /\ x[g[i] - Len(ss[i]) + k] = ss[i][k]
          BY <3>4, <5>1 DEF JoinsUp
        <5>3. PICK a : a = g[i] - Len(ss[i]) + k
          OBVIOUS
        <5>4. a \in 1 .. g[j + 1] /\ z[a] = x[a]
          BY <3>4, <3>6, <3>7, <3>8, <5>2, <5>3
        <5>5. QED
          BY <5>2, <5>3, <5>4
      <4>3. QED
        BY <4>1, <4>2
    <3>10. JoinsUp(ss, g, j + 1, z)
      BY <3>9, Zenon DEF JoinsUp
    <3>11. Good(j + 1)
      BY <3>4, <3>5, <3>6, <3>7, <3>8, <3>10
    <3> HIDE DEF Good
    <3>12. QED
      BY <3>2, <3>11
  <2>2. CASE n + 1 \notin 1 .. m - 1
    BY <1>0, <2>2
  <2>3. QED
    BY <1>0, <2>1, <2>2
<1>8. m - 1 \in Q /\ (m - 1) + 1 = m
  <2>1. m - 1 \in 0 .. m /\ (m - 1) + 1 = m
    BY <1>0
  <2> HIDE DEF Q
  <2>2. QED
    BY <1>0, <1>6, <1>7, <2>1, CountingUp
<1>9. m \in 1 .. m
  BY <1>0
<1>10. QED
  BY <1>4, <1>8, <1>9

\* Chain c of p, and how the lengths of its pbufs add up.
Laid(H, p, c) ==
  /\ p \in DOMAIN H /\ c = Chain(H, p) /\ c \in Seq(DOMAIN H) /\ Len(c) \in Nat \ {0} /\ c[1] = p
  /\ \A i \in 1 .. Len(c) : /\ c[i] \in DOMAIN H /\ c[i] # NULL
                            /\ H[c[i]].len \in Nat /\ H[c[i]].payload \in Nat
                            /\ Before(H, c, i) \in Nat
                            /\ H[c[i]].tot_len = H[p].tot_len - Before(H, c, i)
  /\ Before(H, c, 1) = 0
  /\ \A i \in 1 .. Len(c) - 1 : Before(H, c, i + 1) = Before(H, c, i) + H[c[i]].len
  /\ H[p].tot_len = Before(H, c, Len(c)) + H[c[Len(c)]].len
  /\ H[p].tot_len \in 0 .. Width - 1

\* The chains of a heap in order are laid out so.
LEMMA LaidIs ==
  ASSUME NEW H, NEW h, HeapOk(H, h), NEW p \in DOMAIN H, NEW c, c = Chain(H, p)
  PROVE  Laid(H, p, c) /\ IsChain(H, p, c)
<1>1. Linked(H) /\ Structs(H) /\ Summed(H)
  BY DEF HeapOk, Linked, Structs
<1>2. IsChain(H, p, c)
  BY <1>1, ChainIs
<1>3. LengthsAlong(H, p, c) /\ BeforeGrows(H, c)
  BY <1>1, <1>2, LengthsAre
<1>4. c \in Seq(DOMAIN H) /\ Len(c) \in Nat \ {0} /\ c[1] = p /\ \A i \in 1 .. Len(c) : c[i] \in DOMAIN H
  BY <1>2 DEF IsChain, LinkedFrom
<1>5. \A q \in DOMAIN H : q # NULL /\ H[q].len \in Nat /\ H[q].payload \in Nat /\ H[q].tot_len \in 0 .. Width - 1
  BY <1>1, ConstantsAssumption DEF Structs, IsPbuf, Linked, ConstantsAssumption
<1>6. PICK t : t = H[p].tot_len
  OBVIOUS
<1>7. t \in 0 .. Width - 1 /\ t \in Nat
  BY <1>5, <1>6
<1>8. /\ Before(H, c, 1) = 0 /\ \A i \in 1 .. Len(c) : Before(H, c, i) \in Nat
      /\ \A i \in 1 .. Len(c) - 1 : Before(H, c, i + 1) = Before(H, c, i) + H[c[i]].len
  BY <1>3 DEF BeforeGrows
<1>9. \A i \in 1 .. Len(c) : H[c[i]].tot_len = t - Before(H, c, i)
  BY <1>3, <1>6 DEF LengthsAlong
<1>10. t = Before(H, c, Len(c)) + H[c[Len(c)]].len
  <2>1. PICK x, b, l : x = H[c[Len(c)]].tot_len /\ b = Before(H, c, Len(c)) /\ l = H[c[Len(c)]].len
    OBVIOUS
  <2>2. Len(c) \in 1 .. Len(c)
    BY <1>4
  <2>3. x = l /\ x = t - b /\ b \in Nat /\ l \in Nat
    BY <1>3, <1>4, <1>5, <1>8, <1>9, <2>1, <2>2 DEF LengthsAlong
  <2>4. QED
    BY <1>7, <2>1, <2>3
<1>11. QED
  BY <1>2, <1>4, <1>5, <1>6, <1>7, <1>8, <1>9, <1>10 DEF Laid

\* What is before each of some lengths grows.
LEMMA SumsGrow ==
  ASSUME NEW m \in Nat, NEW e \in [1 .. m -> Nat], NEW l \in [1 .. m -> Nat],
         \A x \in 1 .. m - 1 : e[x + 1] = e[x] + l[x],
         NEW i \in 1 .. m, NEW j \in 1 .. m, i < j
  PROVE  e[i] + l[i] <= e[j]
<1>1. PICK b \in Nat : b = e[i] + l[i]
  OBVIOUS
<1> DEFINE P == {d \in Nat : \A x \in 1 .. m : x = i + 1 + d => b <= e[x]}
<1>2. 0 \in P
  <2>1. i \in 1 .. m - 1 /\ i + 1 + 0 = i + 1
    OBVIOUS
  <2>2. e[i + 1] = b
    BY <1>1, <2>1
  <2>3. QED
    BY <2>1, <2>2
<1>3. ASSUME NEW d \in 0 .. m, d \in P
      PROVE  d + 1 \in P
  <2>1. ASSUME NEW x \in 1 .. m, x = i + 1 + (d + 1)
        PROVE  b <= e[x]
    <3>1. PICK y : y = x - 1
      OBVIOUS
    <3>2. y \in 1 .. m - 1 /\ y \in 1 .. m /\ y = i + 1 + d /\ y + 1 = x
      BY <2>1, <3>1
    <3>3. b <= e[y] /\ e[y] \in Nat /\ l[y] \in Nat
      BY <1>3, <3>2
    <3>4. e[x] = e[y] + l[y]
      BY <3>2
    <3>5. QED
      BY <3>3, <3>4
  <2>2. QED
    BY <2>1
<1>4. j - i - 1 \in 0 .. m /\ i + 1 + (j - i - 1) = j
  OBVIOUS
<1>5. j - i - 1 \in P
  <2> HIDE DEF P
  <2>1. \A d \in 0 .. m - 1 : d \in P => d + 1 \in P
    BY <1>3
  <2>2. QED
    BY <1>2, <1>4, <2>1, CountingUp
<1>6. QED
  BY <1>1, <1>4, <1>5

\* What is before a pbuf grows along the chain.
LEMMA BeforeOrdered ==
  ASSUME NEW H, NEW p, NEW c, Laid(H, p, c), NEW i \in 1 .. Len(c), NEW j \in 1 .. Len(c), i < j
  PROVE  Before(H, c, i) + H[c[i]].len <= Before(H, c, j)
<1>1. PICK m : m = Len(c)
  OBVIOUS
<1>2. PICK e, l : e = [x \in 1 .. m |-> Before(H, c, x)] /\ l = [x \in 1 .. m |-> H[c[x]].len]
  OBVIOUS
<1>3. m \in Nat /\ e \in [1 .. m -> Nat] /\ l \in [1 .. m -> Nat] /\ i \in 1 .. m /\ j \in 1 .. m
  BY <1>1, <1>2 DEF Laid
<1>4. \A x \in 1 .. m - 1 : e[x + 1] = e[x] + l[x]
  <2>1. \A x \in 1 .. m - 1 : Before(H, c, x + 1) = Before(H, c, x) + H[c[x]].len
    BY <1>1 DEF Laid
  <2>2. \A x \in 1 .. m - 1 : x \in 1 .. m /\ x + 1 \in 1 .. m
    BY <1>3
  <2>3. QED
    BY <1>2, <2>1, <2>2
<1>5. e[i] + l[i] <= e[j]
  BY <1>3, <1>4, SumsGrow
<1>6. QED
  BY <1>2, <1>3, <1>5

\* Byte n of a chain, counted from 0, is one of its i-th pbuf.
Within(H, c, i, n) ==
  i \in 1 .. Len(c) /\ Before(H, c, i) <= n /\ n < Before(H, c, i) + H[c[i]].len

\* No pbuf goes beyond the end of the chain.
LEMMA BeforeEnds ==
  ASSUME NEW H, NEW p, NEW c, Laid(H, p, c), NEW i \in 1 .. Len(c)
  PROVE  Before(H, c, i) + H[c[i]].len <= H[p].tot_len
<1>1. /\ Len(c) \in 1 .. Len(c) /\ H[p].tot_len = Before(H, c, Len(c)) + H[c[Len(c)]].len
      /\ Before(H, c, Len(c)) \in Nat /\ H[c[Len(c)]].len \in Nat
      /\ Before(H, c, i) \in Nat /\ H[c[i]].len \in Nat
  BY DEF Laid
<1>2. CASE i = Len(c)
  <2>1. PICK b \in Nat, l \in Nat : b = Before(H, c, i) /\ l = H[c[i]].len
    BY <1>1
  <2>2. H[p].tot_len = b + l
    BY <1>1, <1>2, <2>1
  <2>3. QED
    BY <2>1, <2>2
<1>3. CASE i # Len(c)
  <2>1. i < Len(c)
    BY <1>1, <1>3
  <2>2. PICK b, x, l, t : /\ b = Before(H, c, i) + H[c[i]].len /\ x = Before(H, c, Len(c))
                          /\ l = H[c[Len(c)]].len /\ t = H[p].tot_len
    OBVIOUS
  <2>3. b <= x
    BY <1>1, <2>1, <2>2, BeforeOrdered
  <2>4. b \in Nat
    <3>1. PICK y, z : y = Before(H, c, i) /\ z = H[c[i]].len
      OBVIOUS
    <3>2. y \in Nat /\ z \in Nat
      BY <1>1, <3>1
    <3>3. b = y + z
      BY <2>2, <3>1, Zenon
    <3>4. QED
      BY <3>2, <3>3
  <2>5. t = x + l /\ x \in Nat /\ l \in Nat
    BY <1>1, <2>2
  <2>6. b <= t
    BY <2>3, <2>4, <2>5
  <2>7. QED
    BY <2>2, <2>6
<1>4. QED
  BY <1>2, <1>3

\* pbuf_skip() finds the pbuf that has a byte, the first one that does.
LEMMA SkipFinds ==
  ASSUME NEW H, NEW p, NEW c, Laid(H, p, c), NEW offset \in Nat
  PROVE  IF offset < H[p].tot_len
         THEN \E i \in 1 .. Len(c) : /\ Within(H, c, i, offset)
                                     /\ Skip(H, p, offset) = [q |-> c[i], offset |-> offset - Before(H, c, i)]
         ELSE Skip(H, p, offset).q = NULL
<1>1. /\ c = Chain(H, p) /\ Len(c) \in Nat \ {0} /\ DOMAIN c = 1 .. Len(c)
      /\ Before(H, c, 1) = 0
      /\ \A i \in 1 .. Len(c) - 1 : Before(H, c, i + 1) = Before(H, c, i) + H[c[i]].len
      /\ H[p].tot_len = Before(H, c, Len(c)) + H[c[Len(c)]].len
      /\ H[p].tot_len \in Nat
  BY DEF Laid
<1>2. \A i \in 1 .. Len(c) : H[c[i]].len \in Nat /\ Before(H, c, i) \in Nat
  BY DEF Laid
<1>3. PICK S : S = {j \in 1 .. Len(c) : Before(H, c, j) + H[c[j]].len > offset}
  OBVIOUS
<1>4. PICK i : i = LeastOf(S, 0)
  OBVIOUS
<1>5. Skip(H, p, offset) = IF i = 0 THEN [q |-> NULL, offset |-> offset - Len(Content(H, p))]
                           ELSE [q |-> c[i], offset |-> offset - Before(H, c, i)]
  BY <1>1, <1>3, <1>4 DEF Skip
<1>6. S \in SUBSET Nat
  BY <1>1, <1>3
<1>7. IF S = {} THEN i = 0 ELSE i \in S /\ \A j \in S : i <= j
  BY <1>4, <1>6, LeastOfIs
<1>8. CASE offset < H[p].tot_len
  <2>1. Len(c) \in S
    BY <1>1, <1>2, <1>3, <1>8
  <2>2. i \in 1 .. Len(c) /\ i # 0 /\ Before(H, c, i) + H[c[i]].len > offset /\ \A j \in S : i <= j
    BY <1>3, <1>7, <2>1
  <2>3. Before(H, c, i) <= offset
    <3>1. CASE i = 1
      BY <1>1, <3>1
    <3>2. CASE i # 1
      <4>1. PICK j : j = i - 1
        OBVIOUS
      <4>2. j \in 1 .. Len(c) - 1 /\ j \in 1 .. Len(c) /\ j + 1 = i /\ j < i
        BY <1>1, <2>2, <3>2, <4>1
      <4>3. j \notin S
        BY <2>2, <4>2
      <4>4. PICK b : b = Before(H, c, j) + H[c[j]].len
        OBVIOUS
      <4>5. b \in Nat /\ ~ (b > offset) /\ Before(H, c, i) = b
        BY <1>1, <1>2, <1>3, <4>2, <4>3, <4>4
      <4>6. QED
        BY <4>5
    <3>3. QED
      BY <3>1, <3>2
  <2>4. Within(H, c, i, offset)
    BY <1>2, <2>2, <2>3 DEF Within
  <2>5. QED
    BY <1>5, <1>8, <2>2, <2>4
<1>9. CASE ~ (offset < H[p].tot_len)
  <2>1. ASSUME NEW j \in 1 .. Len(c)
        PROVE  ~ (Before(H, c, j) + H[c[j]].len > offset)
    <3>1. PICK b : b = Before(H, c, j) + H[c[j]].len
      OBVIOUS
    <3>2. b <= H[p].tot_len /\ b \in Nat
      BY <1>2, <3>1, BeforeEnds
    <3>3. QED
      BY <1>1, <1>9, <3>1, <3>2
  <2>2. S = {}
    BY <1>3, <2>1
  <2>3. QED
    BY <1>5, <1>7, <1>9, <2>2
<1>10. QED
  BY <1>8, <1>9

\* Each byte of a chain is in a pbuf.
LEMMA BytesAreFound ==
  ASSUME NEW H, NEW p, NEW c, Laid(H, p, c), NEW n \in Nat, n < H[p].tot_len
  PROVE  \E i \in 1 .. Len(c) : Within(H, c, i, n)
BY SkipFinds

\* The bytes in memory are of a set.
MemoryOf(H, A) == \A q \in DOMAIN H : H[q].mem \in Seq(A)

\* s are the bytes of chain c, one pbuf after another.
Spells(H, c, s) ==
  \A i \in 1 .. Len(c) : \A k \in 1 .. H[c[i]].len :
    s[Before(H, c, i) + k] = H[c[i]].mem[H[c[i]].payload + k]

\* A part of a sequence.
LEMMA PartIs ==
  ASSUME NEW A, NEW s \in Seq(A), NEW a \in Nat, NEW n \in Nat, a + n <= Len(s)
  PROVE  /\ SubSeq(s, a + 1, a + n) \in Seq(A) /\ Len(SubSeq(s, a + 1, a + n)) = n
         /\ \A k \in 1 .. n : a + k \in 1 .. Len(s) /\ SubSeq(s, a + 1, a + n)[k] = s[a + k]
<1>1. Len(s) \in Nat
  OBVIOUS
<1>2. \A i \in a + 1 .. a + n : i \in 1 .. Len(s)
  BY <1>1
<1>3. SubSeq(s, a + 1, a + n) \in Seq(A) /\ Len(SubSeq(s, a + 1, a + n)) = n
  BY <1>1, <1>2
<1>4. ASSUME NEW k \in 1 .. n
      PROVE  a + k \in 1 .. Len(s) /\ SubSeq(s, a + 1, a + n)[k] = s[a + k]
  BY <1>1
<1>5. QED
  BY <1>3, <1>4

\* The payload of a pbuf, byte by byte.
LEMMA PayloadBytes ==
  ASSUME NEW A, NEW H, NEW q, IsPbuf(H[q]), Buffered(H[q]), H[q].mem \in Seq(A)
  PROVE  /\ Payload(H, q) \in Seq(A) /\ Len(Payload(H, q)) = H[q].len
         /\ \A k \in 1 .. H[q].len : /\ H[q].payload + k \in 1 .. Len(H[q].mem)
                                     /\ Payload(H, q)[k] = H[q].mem[H[q].payload + k]
<1>1. PICK s, a, n : s = H[q].mem /\ a = H[q].payload /\ n = H[q].len
  OBVIOUS
<1>2. s \in Seq(A) /\ a \in Nat /\ n \in Nat /\ a + n <= Len(s) /\ Len(s) \in Nat
  BY <1>1 DEF IsPbuf, Buffered
<1>3. /\ SubSeq(s, a + 1, a + n) \in Seq(A) /\ Len(SubSeq(s, a + 1, a + n)) = n
      /\ \A k \in 1 .. n : a + k \in 1 .. Len(s) /\ SubSeq(s, a + 1, a + n)[k] = s[a + k]
  BY <1>2, PartIs, Zenon
<1>4. QED
  BY <1>1, <1>3 DEF Payload

\* The content of a chain, byte by byte.
LEMMA ContentIs ==
  ASSUME NEW A, NEW H, NEW h, HeapOk(H, h), MemoryOf(H, A), NEW p \in DOMAIN H,
         NEW c, c = Chain(H, p)
  PROVE  /\ Content(H, p) \in Seq(A) /\ Len(Content(H, p)) = H[p].tot_len
         /\ Spells(H, c, Content(H, p))
<1>1. Laid(H, p, c) /\ Structs(H)
  BY LaidIs DEF HeapOk, Linked, Structs
<1>2. PICK m, t : m = Len(c) /\ t = H[p].tot_len
  OBVIOUS
<1>3. m \in Nat /\ m > 0 /\ DOMAIN c = 1 .. m /\ \A i \in 1 .. m : c[i] \in DOMAIN H
  BY <1>1, <1>2 DEF Laid
<1>4. PICK ss : ss = [i \in 1 .. m |-> Payload(H, c[i])]
  OBVIOUS
<1>5. ASSUME NEW i \in 1 .. m
      PROVE  /\ ss[i] \in Seq(A) /\ Len(ss[i]) = H[c[i]].len
             /\ \A k \in 1 .. H[c[i]].len : ss[i][k] = H[c[i]].mem[H[c[i]].payload + k]
  <2>1. PICK q \in DOMAIN H : q = c[i]
    BY <1>3
  <2>2. IsPbuf(H[q]) /\ Buffered(H[q]) /\ H[q].mem \in Seq(A)
    BY <1>1 DEF Structs, MemoryOf
  <2>3. ss[i] = Payload(H, q)
    BY <1>4, <2>1
  <2>4. QED
    BY <2>1, <2>2, <2>3, PayloadBytes
<1>6. PICK e, l : e = [i \in 1 .. m |-> Before(H, c, i)] /\ l = [i \in 1 .. m |-> H[c[i]].len]
  OBVIOUS
<1>7. e \in [1 .. m -> Nat] /\ l \in [1 .. m -> Nat]
  BY <1>1, <1>2, <1>6 DEF Laid
<1>8. e[1] = 0 /\ t = e[m] + l[m] /\ \A i \in 1 .. m - 1 : e[i + 1] = e[i] + l[i]
  <2>1. 1 \in 1 .. m /\ m \in 1 .. m /\ \A i \in 1 .. m - 1 : i \in 1 .. m /\ i + 1 \in 1 .. m
    BY <1>3
  <2>2. /\ Before(H, c, 1) = 0 /\ t = Before(H, c, m) + H[c[m]].len
        /\ \A i \in 1 .. m - 1 : Before(H, c, i + 1) = Before(H, c, i) + H[c[i]].len
    BY <1>1, <1>2 DEF Laid
  <2>3. QED
    BY <1>6, <2>1, <2>2
<1>9. PICK g : g = [i \in 1 .. m |-> e[i] + l[i]]
  OBVIOUS
<1>10. \A i \in 1 .. m : Len(ss[i]) = l[i]
  BY <1>5, <1>6
<1>11. AddsUp(A, ss, g, m)
  <2>1. ss \in [1 .. m -> Seq(A)]
    BY <1>4, <1>5
  <2>2. g \in [1 .. m -> Nat]
    BY <1>7, <1>9
  <2>3. 1 \in 1 .. m /\ \A i \in 1 .. m - 1 : i \in 1 .. m /\ i + 1 \in 1 .. m
    BY <1>3
  <2>4. g[1] = Len(ss[1])
    <3>1. g[1] = e[1] + l[1] /\ l[1] \in Nat
      BY <1>7, <1>9, <2>3
    <3>2. QED
      BY <1>8, <1>10, <2>3, <3>1
  <2>5. ASSUME NEW i \in 1 .. m - 1
        PROVE  g[i + 1] = g[i] + Len(ss[i + 1])
    <3>1. g[i + 1] = e[i + 1] + l[i + 1] /\ g[i] = e[i] + l[i] /\ e[i + 1] = e[i] + l[i]
      BY <1>8, <1>9, <2>3
    <3>2. QED
      BY <1>10, <2>3, <3>1
  <2>6. QED
    BY <1>3, <2>1, <2>2, <2>4, <2>5 DEF AddsUp
<1>12. PICK s : s = FlattenSeq(ss)
  OBVIOUS
<1>13. Content(H, p) = s
  BY <1>1, <1>3, <1>4, <1>12 DEF Content, Laid
<1>14. s \in Seq(A) /\ Len(s) = g[m] /\ JoinsUp(ss, g, m, s)
  BY <1>11, <1>12, JoinedElements
<1>15. ASSUME NEW i \in 1 .. m, NEW k \in 1 .. H[c[i]].len
       PROVE  s[Before(H, c, i) + k] = H[c[i]].mem[H[c[i]].payload + k]
  <2>1. Len(ss[i]) = l[i] /\ l[i] = H[c[i]].len /\ e[i] = Before(H, c, i) /\ e[i] \in Nat /\ l[i] \in Nat
        /\ g[i] = e[i] + l[i]
    BY <1>6, <1>7, <1>9, <1>10
  <2>2. k \in 1 .. l[i] /\ k \in 1 .. Len(ss[i])
    BY <2>1
  <2>3. s[g[i] - Len(ss[i]) + k] = ss[i][k]
    BY <1>14, <2>2 DEF JoinsUp
  <2>4. g[i] - Len(ss[i]) + k = e[i] + k
    BY <2>1, <2>2
  <2>5. ss[i][k] = H[c[i]].mem[H[c[i]].payload + k]
    BY <1>5
  <2>6. QED
    BY <2>1, <2>3, <2>4, <2>5
<1>16. Len(s) = t
  BY <1>3, <1>8, <1>9, <1>14
<1>17. QED
  BY <1>2, <1>13, <1>14, <1>15, <1>16 DEF Spells

\* s and t are as long as chain c, and have the same bytes in each of its pbufs.
SpelledAlike(H, p, c, A, s, t) ==
  /\ Laid(H, p, c) /\ s \in Seq(A) /\ t \in Seq(A)
  /\ Len(s) = H[p].tot_len /\ Len(t) = H[p].tot_len
  /\ \A i \in 1 .. Len(c) : \A k \in 1 .. H[c[i]].len :
       s[Before(H, c, i) + k] = t[Before(H, c, i) + k]

\* Two contents that are spelled by the same bytes are the same.
LEMMA SpelledOnce ==
  ASSUME NEW H, NEW p, NEW c, NEW A, NEW s, NEW t, SpelledAlike(H, p, c, A, s, t)
  PROVE  s = t
<1>0. /\ Laid(H, p, c) /\ s \in Seq(A) /\ t \in Seq(A)
      /\ Len(s) = H[p].tot_len /\ Len(t) = H[p].tot_len
      /\ \A i \in 1 .. Len(c) : \A k \in 1 .. H[c[i]].len :
           s[Before(H, c, i) + k] = t[Before(H, c, i) + k]
  BY DEF SpelledAlike
<1>1. ASSUME NEW n \in 1 .. Len(s)
      PROVE  s[n] = t[n]
  <2>1. n - 1 \in Nat /\ n - 1 < H[p].tot_len
    BY <1>0
  <2>2. PICK i \in 1 .. Len(c) : Within(H, c, i, n - 1)
    BY <1>0, <2>1, BytesAreFound
  <2>3. PICK b, l : b = Before(H, c, i) /\ l = H[c[i]].len
    OBVIOUS
  <2>4. b \in Nat /\ l \in Nat /\ b <= n - 1 /\ n - 1 < b + l
    BY <1>0, <2>2, <2>3 DEF Within, Laid
  <2>5. PICK k : k = n - b
    OBVIOUS
  <2>6. k \in 1 .. l /\ b + k = n
    BY <2>4, <2>5
  <2>7. QED
    BY <1>0, <2>3, <2>6
<1>2. QED
  BY <1>0, <1>1

\* d is what is left of c from its i-th pbuf on.
RestFrom(c, i, d) ==
  Len(d) = Len(c) - i + 1 /\ \A j \in 1 .. Len(d) : d[j] = c[i + j - 1]

\* The chain of a pbuf of a chain is what is left of it.
LEMMA RestOfChain ==
  ASSUME NEW H, Linked(H), NEW p \in DOMAIN H, NEW c, c = Chain(H, p), NEW i \in 1 .. Len(c)
  PROVE  RestFrom(c, i, Chain(H, c[i]))
<1>1. LinkedFrom(H, p, c)
  BY ChainIs DEF IsChain
<1>2. PICK m : m = Len(c)
  OBVIOUS
<1>3. /\ m \in Nat /\ m > 0 /\ c[1] = p /\ \A x \in 1 .. m : c[x] \in DOMAIN H
      /\ \A x \in 1 .. m : H[c[x]].next = IF x = m THEN NULL ELSE c[x + 1]
  BY <1>1, <1>2 DEF LinkedFrom
<1> DEFINE P == {n \in Nat : n + 1 \in 1 .. m => RestFrom(c, n + 1, Chain(H, c[n + 1]))}
<1>4. 0 \in P
  <2>1. \A x \in 1 .. Len(c) : 1 + x - 1 = x
    BY <1>2, <1>3
  <2>2. Len(c) = Len(c) - 1 + 1
    BY <1>2, <1>3
  <2>3. RestFrom(c, 1, c)
    BY <2>1, <2>2 DEF RestFrom
  <2>4. Chain(H, c[1]) = c
    BY <1>3
  <2>5. QED
    BY <2>3, <2>4
<1>5. ASSUME NEW n \in 0 .. m - 1, n \in P
      PROVE  n + 1 \in P
  <2>1. CASE n + 1 \in 1 .. m - 1
    <3>1. PICK a, x, y : a = n + 1 /\ x = c[a] /\ y = c[a + 1]
      OBVIOUS
    <3>2. a \in 1 .. m /\ a # m /\ a + 1 \in 1 .. m /\ a \in Nat
      BY <1>3, <2>1, <3>1
    <3>3. x \in DOMAIN H /\ y \in DOMAIN H /\ H[x].next = y
      BY <1>3, <3>1, <3>2
    <3>4. PICK s, t : s = Chain(H, x) /\ t = Chain(H, y)
      OBVIOUS
    <3>5. s = <<x>> \o t
      BY <3>3, <3>4, ChainStep
    <3>6. t \in Seq(DOMAIN H)
      BY <3>3, <3>4, ChainLinks DEF LinkedFrom
    <3>7. Len(s) = Len(t) + 1 /\ \A j \in 1 .. Len(t) : s[j + 1] = t[j]
      BY <3>3, <3>5, <3>6, InFront
    <3>8. RestFrom(c, a, s)
      BY <1>5, <3>1, <3>2, <3>4
    <3>9. Len(s) = m - a + 1 /\ \A j \in 1 .. Len(s) : s[j] = c[a + j - 1]
      BY <1>2, <3>8 DEF RestFrom
    <3>10. Len(t) = m - (a + 1) + 1
      <4>1. Len(t) \in Nat
        BY <3>6
      <4>2. PICK u : u = Len(t)
        OBVIOUS
      <4>3. u + 1 = m - a + 1 /\ u \in Nat
        BY <3>7, <3>9, <4>1, <4>2
      <4>4. u = m - (a + 1) + 1
        BY <1>3, <3>2, <4>3
      <4>5. QED
        BY <4>2, <4>4
    <3>11. ASSUME NEW j \in 1 .. Len(t)
           PROVE  t[j] = c[(a + 1) + j - 1]
      <4>1. j + 1 \in 1 .. Len(s) /\ a + (j + 1) - 1 = (a + 1) + j - 1
        BY <1>3, <3>2, <3>9, <3>10
      <4>2. s[j + 1] = c[a + (j + 1) - 1]
        BY <3>9, <4>1
      <4>3. QED
        BY <3>7, <4>1, <4>2
    <3>12. RestFrom(c, a + 1, t)
      BY <1>2, <3>10, <3>11 DEF RestFrom
    <3>13. QED
      BY <3>1, <3>4, <3>12
  <2>2. CASE n + 1 \notin 1 .. m - 1
    <3>1. (n + 1) + 1 \notin 1 .. m
      BY <1>3, <2>2
    <3>2. QED
      BY <3>1
  <2>3. QED
    BY <2>1, <2>2
<1>6. i - 1 \in 0 .. m /\ (i - 1) + 1 = i /\ i \in 1 .. m
  BY <1>2, <1>3
<1>7. i - 1 \in P
  <2> HIDE DEF P
  <2>1. QED
    BY <1>3, <1>4, <1>5, <1>6, CountingUp
<1>8. RestFrom(c, (i - 1) + 1, Chain(H, c[(i - 1) + 1]))
  BY <1>6, <1>7
<1>9. QED
  BY <1>6, <1>8

\* Chains depend on the links only.
LEMMA ChainsStay ==
  ASSUME NEW H, NEW h, HeapOk(H, h), NEW G, SameShape(H, G), NEW p \in DOMAIN H
  PROVE  Chain(G, p) = Chain(H, p)
<1>1. Linked(H) /\ Linked(G)
  BY SameShapeKeeps DEF HeapOk
<1>2. DOMAIN G = DOMAIN H /\ \A q \in DOMAIN H : G[q].next = H[q].next
  <2>1. \A q \in DOMAIN H : OtherBytes(H[q], G[q]) /\ IsPbuf(H[q]) /\ Buffered(H[q])
    BY DEF SameShape, OtherBytes, HeapOk, Linked
  <2>2. QED
    BY <2>1, OtherBytesKeep DEF SameShape
<1> DEFINE f == CHOOSE f : Unfolds(H, DOMAIN H, f)
           g == CHOOSE g : Unfolds(G, DOMAIN G, g)
<1>3. Unfolds(H, DOMAIN H, f) /\ Unfolds(G, DOMAIN G, g)
  BY <1>1, ChainsExist
<1>4. Chain(H, p) = f[p] /\ Chain(G, p) = g[p]
  BY DEF Chain, Unfolds
<1> HIDE DEF f, g
<1>5. Unfolds(H, DOMAIN H, g)
  <2>1. DOMAIN g = DOMAIN H \cup {NULL} /\ \A q \in DOMAIN H \cup {NULL} :
          g[q] = IF q = NULL THEN <<>> ELSE <<q>> \o g[G[q].next]
    BY <1>2, <1>3 DEF Unfolds
  <2>2. \A q \in DOMAIN H \cup {NULL} : g[q] = IF q = NULL THEN <<>> ELSE <<q>> \o g[H[q].next]
    <3>1. ASSUME NEW q \in DOMAIN H \cup {NULL}, q # NULL
          PROVE  g[q] = <<q>> \o g[H[q].next]
      <4>1. G[q].next = H[q].next
        BY <1>2, <3>1
      <4>2. g[q] = <<q>> \o g[G[q].next]
        BY <2>1, <3>1
      <4>3. QED
        BY <4>1, <4>2
    <3>2. g[NULL] = <<>>
      BY <2>1
    <3>3. QED
      BY <3>1, <3>2
  <2>3. g = [q \in DOMAIN H \cup {NULL} |-> g[q]]
    BY <1>2, <1>3 DEF Unfolds
  <2>4. QED
    BY <2>2, <2>3 DEF Unfolds
<1>6. \A q \in DOMAIN H : H[q].next \in DOMAIN H \cup {NULL}
  BY <1>1 DEF Linked
<1>7. \A q \in DOMAIN H \cap DOMAIN H : f[q] = g[q]
  BY <1>1, <1>3, <1>5, <1>6, SameChains
<1>8. QED
  BY <1>4, <1>7

\* Bytes filled into a pbuf, as they are seen in its payload.
LEMMA FilledBytes ==
  ASSUME NEW b, IsPbuf(b), Buffered(b), NEW offset \in Int, NEW bytes
  PROVE  \A k \in 1 .. b.len :
           /\ k - offset \in DOMAIN bytes =>
                Filled(b, offset, bytes).mem[b.payload + k] = bytes[k - offset]
           /\ k - offset \notin DOMAIN bytes =>
                Filled(b, offset, bytes).mem[b.payload + k] = b.mem[b.payload + k]
<1> SUFFICES ASSUME NEW k \in 1 .. b.len
             PROVE  /\ k - offset \in DOMAIN bytes =>
                         Filled(b, offset, bytes).mem[b.payload + k] = bytes[k - offset]
                    /\ k - offset \notin DOMAIN bytes =>
                         Filled(b, offset, bytes).mem[b.payload + k] = b.mem[b.payload + k]
  OBVIOUS
<1>1. PICK m, a, n : m = b.mem /\ a = b.payload /\ n = b.len
  OBVIOUS
<1>2. a \in Nat /\ n \in Nat /\ m \in Seq(ToSet(m)) /\ a + n <= Len(m)
  BY <1>1 DEF IsPbuf, Buffered
<1>3. PICK f : f = [i \in DOMAIN m |-> LET j == i - a - offset
                                       IN  IF j \in DOMAIN bytes THEN bytes[j] ELSE m[i]]
  OBVIOUS
<1>4. Filled(b, offset, bytes).mem = f
  BY <1>1, <1>3 DEF Filled, IsPbuf
<1>5. PICK x : x = a + k
  OBVIOUS
<1>6. x \in DOMAIN m /\ x - a - offset = k - offset
  <2>1. k \in 1 .. n /\ Len(m) \in Nat /\ DOMAIN m = 1 .. Len(m)
    BY <1>1, <1>2
  <2>2. x \in 1 .. Len(m)
    BY <1>2, <1>5, <2>1
  <2>3. x - a - offset = k - offset
    BY <1>2, <1>5, <2>1
  <2>4. QED
    BY <2>1, <2>2, <2>3
<1>7. f[x] = LET j == x - a - offset IN IF j \in DOMAIN bytes THEN bytes[j] ELSE m[x]
  BY <1>3, <1>6
<1>8. QED
  BY <1>1, <1>4, <1>5, <1>6, <1>7

\* G is H after bytes have been put into chain c at an offset.
Overwritten(H, G, c, bytes, offset) ==
  /\ SameShape(H, G)
  /\ \A q \in DOMAIN H : q \notin First(c, Len(c)) => G[q] = H[q]
  /\ \A i \in 1 .. Len(c) : \A k \in 1 .. H[c[i]].len :
       LET j == Before(H, c, i) + k - offset
           x == H[c[i]].payload + k
       IN  G[c[i]].mem[x] = IF j \in DOMAIN bytes THEN bytes[j] ELSE H[c[i]].mem[x]

\* What is before a pbuf depends on the lengths only.
LEMMA LaidStays ==
  ASSUME NEW H, NEW h, HeapOk(H, h), NEW G, SameShape(H, G), NEW p \in DOMAIN H, NEW c, c = Chain(H, p)
  PROVE  /\ HeapOk(G, h) /\ p \in DOMAIN G /\ c = Chain(G, p)
         /\ Laid(H, p, c) /\ Laid(G, p, c) /\ IsChain(H, p, c)
         /\ \A q \in DOMAIN H : /\ G[q].len = H[q].len /\ G[q].payload = H[q].payload
                                /\ G[q].tot_len = H[q].tot_len /\ G[q].next = H[q].next
         /\ \A i \in 1 .. Len(c) : Before(G, c, i) = Before(H, c, i)
<1>1. HeapOk(G, h) /\ DOMAIN G = DOMAIN H /\ c = Chain(G, p)
  <2>1. HeapOk(G, h)
    BY SameShapeKeeps
  <2>2. DOMAIN G = DOMAIN H
    BY DEF SameShape
  <2>3. Chain(G, p) = Chain(H, p)
    BY ChainsStay
  <2>4. QED
    BY <2>1, <2>2, <2>3
<1>2. Laid(H, p, c) /\ Laid(G, p, c) /\ IsChain(H, p, c)
  BY <1>1, LaidIs
<1>3. \A q \in DOMAIN H : /\ G[q].len = H[q].len /\ G[q].payload = H[q].payload
                          /\ G[q].tot_len = H[q].tot_len /\ G[q].next = H[q].next
  <2>1. \A q \in DOMAIN H : OtherBytes(H[q], G[q]) /\ IsPbuf(H[q]) /\ Buffered(H[q])
    BY DEF SameShape, OtherBytes, HeapOk, Linked
  <2>2. QED
    BY <2>1, OtherBytesKeep
<1>4. ASSUME NEW i \in 1 .. Len(c)
      PROVE  Before(G, c, i) = Before(H, c, i)
  <2>1. c[i] \in DOMAIN H /\ H[c[i]].tot_len = H[p].tot_len - Before(H, c, i) /\ Before(H, c, i) \in Nat
    BY <1>2 DEF Laid
  <2>2. G[c[i]].tot_len = G[p].tot_len - Before(G, c, i) /\ Before(G, c, i) \in Nat
    BY <1>2 DEF Laid
  <2>3. PICK a, b, t, u : a = Before(H, c, i) /\ b = Before(G, c, i) /\ t = H[p].tot_len /\ u = H[c[i]].tot_len
    OBVIOUS
  <2>4. u = t - a /\ u = t - b /\ a \in Nat /\ b \in Nat /\ t \in Nat
    <3>1. t \in Nat
      <4>1. Laid(H, p, c)
        BY <1>2
      <4>2. H[p].tot_len \in 0 .. Width - 1
        BY <4>1 DEF Laid
      <4>3. QED
        BY <2>3, <4>2
    <3>2. G[p].tot_len = t /\ G[c[i]].tot_len = u
      BY <1>3, <2>1, <2>3
    <3>3. QED
      BY <2>1, <2>2, <2>3, <3>1, <3>2
  <2>5. a = b
    BY <2>4
  <2>6. QED
    BY <2>3, <2>5
<1>5. QED
  BY <1>1, <1>2, <1>3, <1>4

\* pbuf_take() puts the bytes at the beginning of the chain.
LEMMA TakePuts ==
  ASSUME NEW H, NEW h, HeapOk(H, h), NEW p \in DOMAIN H, NEW c, c = Chain(H, p),
         NEW B, NEW bytes \in Seq(B), Len(bytes) <= H[p].tot_len
  PROVE  LET taken == Take(H, p, bytes)
         IN  taken.err = "OK" /\ Overwritten(H, taken.H, c, bytes, 0)
<1>1. Laid(H, p, c) /\ IsChain(H, p, c) /\ Structs(H) /\ p # NULL
  BY LaidIs, ConstantsAssumption DEF HeapOk, Linked, Structs, ConstantsAssumption
<1>2. PICK L, t : L = Len(bytes) /\ t = H[p].tot_len
  OBVIOUS
<1>3. L \in Nat /\ t \in Nat /\ L <= t
  BY <1>1, <1>2 DEF Laid
<1> DEFINE done(i) == Smaller(Before(H, c, i), Len(bytes))
           n(i) == Smaller(Len(bytes) - done(i), H[c[i]].len)
           part(i) == SubSeq(bytes, done(i) + 1, done(i) + n(i))
           fill(i) == Filled(H[c[i]], 0, part(i))
           G == [q \in DOMAIN H |->
                   IF q \in ToSet(c) THEN fill(CHOOSE i \in DOMAIN c : c[i] = q) ELSE H[q]]
<1>4. Take(H, p, bytes) = [err |-> "OK", H |-> G]
  <2>1. ~ (H[p].tot_len < Len(bytes))
    BY <1>2, <1>3
  <2>2. QED
    BY <1>1, <2>1 DEF Take
<1>5. DOMAIN c = 1 .. Len(c) /\ ToSet(c) = First(c, Len(c))
        /\ \A i \in 1 .. Len(c), j \in 1 .. Len(c) : c[i] = c[j] => i = j
  BY <1>1 DEF Laid, ToSet, First, IsChain
<1>6. SameShape(H, G)
  <2>1. SameShape(H, Take(H, p, bytes).H)
    BY <1>1, TakeKeepsShape
  <2> HIDE DEF G
  <2>2. QED
    BY <1>4, <2>1
<1>7. \A q \in DOMAIN H : q \notin First(c, Len(c)) => G[q] = H[q]
  <2> HIDE DEF fill
  <2>1. QED
    BY <1>5
<1>8. ASSUME NEW i \in 1 .. Len(c)
      PROVE  G[c[i]] = fill(i)
  <2> HIDE DEF fill
  <2>1. c[i] \in DOMAIN H /\ c[i] \in ToSet(c)
    BY <1>1, <1>5 DEF Laid, First
  <2>2. (CHOOSE x \in DOMAIN c : c[x] = c[i]) = i
    BY <1>5
  <2>3. QED
    BY <2>1, <2>2
<1>9. ASSUME NEW i \in 1 .. Len(c), NEW k \in 1 .. H[c[i]].len
      PROVE  LET j == Before(H, c, i) + k - 0
                 x == H[c[i]].payload + k
             IN  G[c[i]].mem[x] = IF j \in DOMAIN bytes THEN bytes[j] ELSE H[c[i]].mem[x]
  <2> HIDE DEF G
  <2>1. PICK q \in DOMAIN H : q = c[i]
    BY <1>1 DEF Laid
  <2>2. PICK b, l, s, d, m : b = Before(H, c, i) /\ l = H[q].len /\ s = part(i) /\ d = done(i) /\ m = n(i)
    OBVIOUS
  <2>3. b \in Nat /\ l \in Nat /\ k \in 1 .. l /\ IsPbuf(H[q]) /\ Buffered(H[q])
    BY <1>1, <2>1, <2>2 DEF Laid, Structs
  <2>4. d = (IF b < L THEN b ELSE L) /\ m = (IF L - d < l THEN L - d ELSE l) /\ s = SubSeq(bytes, d + 1, d + m)
    BY <1>2, <2>1, <2>2 DEF Smaller
  <2>5. d \in Nat /\ m \in Nat /\ d + m <= L
    BY <1>3, <2>3, <2>4
  <2>6. DOMAIN s = 1 .. m /\ \A x \in 1 .. m : s[x] = bytes[d + x]
    <3>1. bytes \in Seq(B) /\ Len(bytes) = L
      BY <1>2
    <3>2. s = SubSeq(bytes, d + 1, d + m) /\ d + m <= Len(bytes)
      BY <2>4, <2>5, <3>1
    <3>3. d + m <= Len(bytes)
      BY <3>2
    <3>4. d \in Nat /\ m \in Nat
      BY <2>5
    <3>5. /\ SubSeq(bytes, d + 1, d + m) \in Seq(B) /\ Len(SubSeq(bytes, d + 1, d + m)) = m
          /\ \A x \in 1 .. m : d + x \in 1 .. Len(bytes) /\ SubSeq(bytes, d + 1, d + m)[x] = bytes[d + x]
      BY <3>3, <3>4, PartIs, Zenon
    <3>6. s \in Seq(B) /\ Len(s) = m /\ \A x \in 1 .. m : s[x] = bytes[d + x]
      BY <3>2, <3>5, Zenon
    <3>7. QED
      BY <3>6
  <2>7. G[q] = Filled(H[q], 0, s)
    <3> HIDE DEF G, part
    <3>1. QED
      BY <1>8, <2>1, <2>2
  <2>8. G[q].mem[H[q].payload + k] = IF k - 0 \in DOMAIN s THEN s[k - 0] ELSE H[q].mem[H[q].payload + k]
    <3>0. PICK x : x = H[q]
      OBVIOUS
    <3>1. PICK o \in Int : o = 0
      OBVIOUS
    <3>2. k \in 1 .. x.len /\ IsPbuf(x) /\ Buffered(x)
      BY <2>2, <2>3, <3>0
    <3>3. IsPbuf(x) /\ Buffered(x)
      BY <3>2
    <3>4. \A j \in 1 .. x.len :
            /\ j - o \in DOMAIN s => Filled(x, o, s).mem[x.payload + j] = s[j - o]
            /\ j - o \notin DOMAIN s => Filled(x, o, s).mem[x.payload + j] = x.mem[x.payload + j]
      BY <3>3, FilledBytes, ZenonT(60)
    <3>5. /\ k - o \in DOMAIN s => Filled(x, o, s).mem[x.payload + k] = s[k - o]
          /\ k - o \notin DOMAIN s => Filled(x, o, s).mem[x.payload + k] = x.mem[x.payload + k]
      BY <3>2, <3>4, Zenon
    <3>6. QED
      BY <2>7, <3>0, <3>1, <3>5, Zenon
  <2>9. k - 0 = k /\ b + k - 0 = b + k /\ DOMAIN bytes = 1 .. L
    BY <1>2, <2>3
  <2>10. b + k \in 1 .. L <=> k \in 1 .. m
    BY <1>3, <2>3, <2>4
  <2>11. k \in 1 .. m => s[k] = bytes[b + k]
    <3>1. k \in 1 .. m => d = b
      BY <1>3, <2>3, <2>4
    <3>2. QED
      BY <2>6, <3>1
  <2> HIDE DEF G, part
  <2>12. QED
    BY <2>1, <2>2, <2>6, <2>8, <2>9, <2>10, <2>11
<1>10. Overwritten(H, G, c, bytes, 0)
  <2> HIDE DEF G
  <2>1. QED
    BY <1>6, <1>7, <1>9 DEF Overwritten
<1> HIDE DEF G
<1>11. QED
  BY <1>4, <1>10

\* Bytes put into one pbuf of a chain.
LEMMA PutPuts ==
  ASSUME NEW H, NEW h, HeapOk(H, h), NEW p \in DOMAIN H, NEW c, c = Chain(H, p),
         NEW i \in 1 .. Len(c), NEW B, NEW s \in Seq(B),
         NEW o \in Nat, o + Len(s) <= H[c[i]].len
  PROVE  Overwritten(H, Put(H, c[i], o, s), c, s, Before(H, c, i) + o)
<1>1. Laid(H, p, c) /\ IsChain(H, p, c) /\ Structs(H)
  BY LaidIs DEF HeapOk, Linked, Structs
<1>2. PICK q, L, G : q = c[i] /\ L = Len(s) /\ G = Put(H, q, o, s)
  OBVIOUS
<1>3. q \in DOMAIN H /\ L \in Nat /\ DOMAIN s = 1 .. L
  BY <1>1, <1>2 DEF Laid
<1>4. SameShape(H, G)
  BY <1>1, <1>2, PutKeepsShape
<1>5. G[q] = Filled(H[q], o, s) /\ \A x \in DOMAIN H : x # q => G[x] = H[x]
  BY <1>2, <1>3 DEF Put
<1>6. \A x \in DOMAIN H : x \notin First(c, Len(c)) => G[x] = H[x]
  BY <1>2, <1>5 DEF First
<1>7. PICK b, l : b = Before(H, c, i) /\ l = H[q].len
  OBVIOUS
<1>8. b \in Nat /\ l \in Nat /\ o + L <= l
  BY <1>1, <1>2, <1>7 DEF Laid
<1>9. ASSUME NEW x \in 1 .. Len(c), NEW k \in 1 .. H[c[x]].len
      PROVE  LET j == Before(H, c, x) + k - (b + o)
                 y == H[c[x]].payload + k
             IN  G[c[x]].mem[y] = IF j \in DOMAIN s THEN s[j] ELSE H[c[x]].mem[y]
  <2>1. PICK e, m : e = Before(H, c, x) /\ m = H[c[x]].len
    OBVIOUS
  <2>2. e \in Nat /\ m \in Nat /\ k \in 1 .. m
    BY <1>1, <2>1 DEF Laid
  <2>3. CASE x = i
    <3>1. e = b /\ m = l /\ c[x] = q
      BY <1>2, <1>7, <2>1, <2>3
    <3>2. PICK d : d = H[q]
      OBVIOUS
    <3>3. IsPbuf(d) /\ Buffered(d)
      BY <1>1, <1>3, <3>2 DEF Structs
    <3>4. o \in Int
      OBVIOUS
    <3>5. \A j \in 1 .. d.len :
            /\ j - o \in DOMAIN s => Filled(d, o, s).mem[d.payload + j] = s[j - o]
            /\ j - o \notin DOMAIN s => Filled(d, o, s).mem[d.payload + j] = d.mem[d.payload + j]
      BY <3>3, <3>4, FilledBytes, ZenonT(60)
    <3>6. k \in 1 .. d.len
      BY <1>7, <2>2, <3>1, <3>2
    <3>7. e + k - (b + o) = k - o
      BY <1>8, <2>2, <3>1
    <3>8. G[q] = Filled(d, o, s)
      BY <1>5, <3>2
    <3>9. /\ k - o \in DOMAIN s => G[q].mem[d.payload + k] = s[k - o]
          /\ k - o \notin DOMAIN s => G[q].mem[d.payload + k] = d.mem[d.payload + k]
      BY <3>5, <3>6, <3>8, Zenon
    <3>10. QED
      BY <2>1, <3>1, <3>2, <3>7, <3>9
  <2>4. CASE x # i
    <3>1. G[c[x]] = H[c[x]]
      BY <1>1, <1>2, <1>5, <2>4 DEF Laid, IsChain
    <3>2. e + k - (b + o) \notin DOMAIN s
      <4>1. CASE x < i
        <5>1. e + m <= b
          BY <1>1, <1>7, <2>1, <4>1, BeforeOrdered
        <5>2. \A a \in Nat, y \in Nat : a + m <= y => ~ (a + k - (y + o) >= 1)
          BY <2>2
        <5>3. ~ (e + k - (b + o) >= 1)
          BY <1>8, <2>2, <5>1, <5>2
        <5>4. QED
          BY <1>3, <5>3
      <4>2. CASE i < x
        <5>1. b + l <= e
          BY <1>1, <1>2, <1>7, <2>1, <4>2, BeforeOrdered
        <5>2. \A a \in Nat, y \in Nat, z \in Nat, u \in Nat :
                o + u <= z /\ y + z <= a => ~ (a + k - (y + o) <= u)
          BY <2>2
        <5>3. ~ (e + k - (b + o) <= L)
          BY <1>3, <1>8, <2>2, <5>1, <5>2
        <5>4. QED
          BY <1>3, <5>3
      <4>3. QED
        BY <1>1, <2>4, <4>1, <4>2 DEF Laid
    <3>3. QED
      BY <2>1, <3>1, <3>2
  <2>5. QED
    BY <2>3, <2>4
<1>10. QED
  BY <1>2, <1>4, <1>6, <1>7, <1>9 DEF Overwritten

\* The first n bytes reach the end of the i-th pbuf of a chain, and the others are put
\* into the rest of the chain.
GoesOn(H, F, G, c, i, bytes, n, offset) ==
  /\ i \in 1 .. Len(c) - 1 /\ n \in 0 .. Len(bytes) /\ offset \in Nat
  /\ Before(H, c, i + 1) = offset + n
  /\ Overwritten(H, F, c, SubSeq(bytes, 1, n), offset)
  /\ Overwritten(F, G, Chain(F, c[i + 1]), SubSeq(bytes, n + 1, Len(bytes)), 0)

\* Together they put all the bytes.
LEMMA PutsGoOn ==
  ASSUME NEW H, NEW h, HeapOk(H, h), NEW p \in DOMAIN H, NEW c, c = Chain(H, p),
         NEW B, NEW bytes \in Seq(B), NEW F, NEW G, NEW i, NEW n, NEW offset,
         GoesOn(H, F, G, c, i, bytes, n, offset)
  PROVE  Overwritten(H, G, c, bytes, offset)
<1>1. SameShape(H, F) /\ Structs(H)
  BY DEF GoesOn, Overwritten, HeapOk, Linked, Structs
<1>2. /\ HeapOk(F, h) /\ p \in DOMAIN F /\ c = Chain(F, p)
      /\ Laid(H, p, c) /\ Laid(F, p, c) /\ IsChain(H, p, c)
      /\ \A q \in DOMAIN H : F[q].len = H[q].len /\ F[q].payload = H[q].payload
      /\ \A x \in 1 .. Len(c) : Before(F, c, x) = Before(H, c, x)
  BY <1>1, LaidStays
<1>30. PICK m : m = Len(c)
  OBVIOUS
<1>31. PICK L : L = Len(bytes)
  OBVIOUS
<1>32. PICK y, d : y = c[i + 1] /\ d = Chain(F, y)
  OBVIOUS
<1>3. m = Len(c) /\ L = Len(bytes) /\ y = c[i + 1] /\ d = Chain(F, y)
  BY <1>30, <1>31, <1>32
<1>40. m \in Nat /\ L \in Nat
  BY <1>2, <1>30, <1>31 DEF Laid
<1>44. i \in 1 .. m - 1 /\ n \in 0 .. L
  BY <1>30, <1>31 DEF GoesOn
<1>45. offset \in Nat
  BY DEF GoesOn
<1>41. i \in Nat /\ i + 1 \in Nat /\ 1 <= i /\ i + 1 <= m
  BY <1>40, <1>44
<1>42. n \in Nat /\ n <= L
  BY <1>40, <1>44
<1>43. i \in 1 .. Len(c) /\ i + 1 \in 1 .. Len(c)
  BY <1>30, <1>40, <1>41
<1>4. y \in DOMAIN F
  BY <1>2, <1>32, <1>43 DEF Laid
<1>5. Laid(F, y, d) /\ Linked(F)
  BY <1>2, <1>3, <1>4, LaidIs DEF HeapOk
<1>6. RestFrom(c, i + 1, d)
  BY <1>2, <1>5, <1>32, <1>43, RestOfChain DEF HeapOk
<1>7. Len(d) = m - i /\ \A j \in 1 .. Len(d) : d[j] = c[i + j]
  <2>1. Len(d) = m - (i + 1) + 1 /\ \A j \in 1 .. Len(d) : d[j] = c[i + 1 + j - 1]
    BY <1>3, <1>6 DEF RestFrom
  <2>2. m - (i + 1) + 1 = m - i /\ \A j \in 1 .. Len(d) : i + 1 + j - 1 = i + j
    BY <1>40, <1>41, <1>42
  <2>3. QED
    BY <1>40, <1>41, <2>1, <2>2
<1>46. Before(H, c, i + 1) = offset + n
  BY DEF GoesOn
<1>47. Overwritten(H, F, c, SubSeq(bytes, 1, n), offset)
  BY DEF GoesOn
<1>48. Overwritten(F, G, d, SubSeq(bytes, n + 1, L), 0)
  BY <1>31, <1>32 DEF GoesOn
<1>8. SameShape(H, G)
  BY <1>1, <1>47, <1>48, ShapesFollow DEF Overwritten
<1>9. First(d, Len(d)) \subseteq First(c, Len(c))
  <2>1. \A j \in 1 .. m - i : i + j \in 1 .. m
    BY <1>40, <1>41
  <2>2. \A j \in 1 .. Len(d) : i + j \in 1 .. Len(c) /\ d[j] = c[i + j]
    BY <1>3, <1>7, <2>1
  <2>3. QED
    BY <2>2 DEF First
<1>10. ASSUME NEW q \in DOMAIN H, q \notin First(c, Len(c))
       PROVE  G[q] = H[q]
  <2>1. F[q] = H[q]
    BY <1>10, <1>47 DEF Overwritten
  <2>2. q \in DOMAIN F /\ q \notin First(d, Len(d))
    BY <1>1, <1>9, <1>10 DEF SameShape
  <2>3. QED
    BY <1>48, <2>1, <2>2 DEF Overwritten
<1>11. PICK s, t : s = SubSeq(bytes, 1, n) /\ t = SubSeq(bytes, n + 1, L)
  OBVIOUS
<1>12. DOMAIN s = 1 .. n /\ \A j \in 1 .. n : s[j] = bytes[j]
  <2>1. 0 + n <= Len(bytes) /\ n \in Nat /\ 0 \in Nat
    BY <1>31, <1>42
  <2>2. /\ SubSeq(bytes, 0 + 1, 0 + n) \in Seq(B) /\ Len(SubSeq(bytes, 0 + 1, 0 + n)) = n
        /\ \A k \in 1 .. n : 0 + k \in 1 .. Len(bytes) /\ SubSeq(bytes, 0 + 1, 0 + n)[k] = bytes[0 + k]
    BY <2>1, PartIs, Zenon
  <2>3. 0 + 1 = 1 /\ 0 + n = n /\ \A k \in 1 .. n : 0 + k = k
    BY <2>1
  <2>4. QED
    BY <1>11, <2>2, <2>3
<1>13. DOMAIN t = 1 .. L - n /\ \A j \in 1 .. L - n : t[j] = bytes[n + j]
  <2>1. PICK a, e : a = n /\ e = L - n
    OBVIOUS
  <2>2. a + e <= Len(bytes)
    <3>1. n + (L - n) = L
      BY <1>40, <1>41, <1>42
    <3>2. QED
      BY <1>3, <1>4, <2>1, <3>1
  <2>3. a \in Nat /\ e \in Nat
    BY <1>40, <1>42, <2>1
  <2>4. /\ SubSeq(bytes, a + 1, a + e) \in Seq(B) /\ Len(SubSeq(bytes, a + 1, a + e)) = e
        /\ \A k \in 1 .. e : a + k \in 1 .. Len(bytes) /\ SubSeq(bytes, a + 1, a + e)[k] = bytes[a + k]
    BY <2>2, <2>3, PartIs, Zenon
  <2>5. a + 1 = n + 1 /\ a + e = L
    BY <1>40, <1>42, <2>1
  <2>6. t = SubSeq(bytes, a + 1, a + e)
    BY <1>11, <2>5
  <2>7. Len(t) = e /\ t \in Seq(B) /\ \A k \in 1 .. e : t[k] = bytes[a + k]
    BY <2>4, <2>6, Zenon
  <2>8. DOMAIN t = 1 .. e
    BY <2>7
  <2>9. QED
    BY <2>1, <2>7, <2>8, Zenon
<1>14. ASSUME NEW x \in 1 .. Len(c), NEW k \in 1 .. H[c[x]].len
       PROVE  LET j == Before(H, c, x) + k - offset
                  z == H[c[x]].payload + k
              IN  G[c[x]].mem[z] = IF j \in DOMAIN bytes THEN bytes[j] ELSE H[c[x]].mem[z]
  <2>1. PICK e, l, q : e = Before(H, c, x) /\ l = H[c[x]].len /\ q = c[x]
    OBVIOUS
  <2>2. e \in Nat /\ l \in Nat /\ k \in 1 .. l /\ q \in DOMAIN H
    BY <1>2, <2>1 DEF Laid
  <2>3. PICK z : z = H[q].payload + k
    OBVIOUS
  <2>4. PICK j : j = e + k - offset
    OBVIOUS
  <2>5. j \in Int
    BY <1>45, <2>2, <2>4
  <2>6. F[q].mem[z] = IF j \in DOMAIN s THEN s[j] ELSE H[q].mem[z]
    <3>1. Overwritten(H, F, c, s, offset)
      BY <1>11, <1>47
    <3>2. QED
      BY <2>1, <2>3, <2>4, <3>1 DEF Overwritten
  <2>7. CASE x <= i
    <3>1. q \notin First(d, Len(d))
      <4>1. \A a \in 1 .. Len(d) : i + a \in 1 .. m /\ i + a # x
        <5>1. \A a \in 1 .. m - i : i + a \in 1 .. m /\ i + a # x
          BY <1>40, <1>41, <2>7
        <5>2. QED
          BY <1>7, <5>1
      <4>2. \A a \in 1 .. Len(d) : d[a] # q
        BY <1>2, <1>3, <1>7, <2>1, <4>1 DEF IsChain
      <4>3. QED
        BY <4>2 DEF First
    <3>2. G[q] = F[q]
      <4>1. q \in DOMAIN F
        BY <1>1, <2>2 DEF SameShape
      <4>2. QED
        BY <1>48, <3>1, <4>1 DEF Overwritten
    <3>3. j <= n
      <4>1. e + l <= Before(H, c, i + 1)
        <5>1. Laid(H, p, c)
          BY <1>2
        <5>2. x < i + 1 /\ i + 1 \in 1 .. Len(c)
          BY <1>30, <1>40, <1>41, <2>7
        <5>3. QED
          BY <2>1, <5>1, <5>2, BeforeOrdered
      <4>2. e + l <= offset + n
        BY <1>46, <4>1
      <4>3. e + k - offset <= n
        BY <1>42, <1>45, <2>2, <4>2
      <4>4. QED
        BY <2>4, <4>3
    <3>4. j \in 1 .. n <=> j \in 1 .. L
      BY <1>40, <1>42, <2>5, <3>3
    <3>5. j \in DOMAIN s <=> j \in DOMAIN bytes
      BY <1>3, <1>12, <3>4
    <3>6. j \in DOMAIN s => s[j] = bytes[j]
      BY <1>12
    <3>7. QED
      BY <2>1, <2>3, <2>4, <2>6, <3>2, <3>5, <3>6
  <2>8. CASE ~ (x <= i)
    <3>1. PICK u : u = x - i
      OBVIOUS
    <3>2. x \in 1 .. m /\ x > i
      BY <1>30, <1>40, <1>41, <2>8
    <3>3. u \in 1 .. m - i /\ i + u = x
      BY <1>40, <1>41, <3>1, <3>2
    <3>4. u \in 1 .. Len(d) /\ d[u] = q
      BY <1>7, <2>1, <3>3
    <3>5. PICK v : v = Before(F, d, u)
      OBVIOUS
    <3>6. v \in Nat /\ v = e - (offset + n)
      <4>1. F[d[u]].tot_len = F[y].tot_len - Before(F, d, u) /\ Before(F, d, u) \in Nat
        BY <1>5, <3>4 DEF Laid
      <4>2. F[q].tot_len = F[p].tot_len - Before(F, c, x)
        BY <1>2, <2>1 DEF Laid
      <4>3. F[y].tot_len = F[p].tot_len - Before(F, c, i + 1)
        BY <1>2, <1>32, <1>43 DEF Laid
      <4>4. F[p].tot_len \in 0 .. Width - 1
        <5>1. Laid(F, p, c)
          BY <1>2
        <5>2. QED
          BY <5>1 DEF Laid
      <4>5. Before(F, c, x) = e /\ Before(F, c, i + 1) = offset + n
        BY <1>2, <1>43, <1>46, <2>1
      <4>6. PICK tq, ty, tp : tq = F[q].tot_len /\ ty = F[y].tot_len /\ tp = F[p].tot_len
        OBVIOUS
      <4>7. tp \in Nat /\ v \in Nat
        BY <3>5, <4>1, <4>4, <4>6
      <4>8. tq = ty - v /\ tq = tp - e /\ ty = tp - (offset + n)
        BY <3>4, <3>5, <4>1, <4>2, <4>3, <4>5, <4>6
      <4>9. tp - e = (tp - (offset + n)) - v
        BY <4>8
      <4>10. v = e - (offset + n)
        <5>1. \A a \in Nat, b \in Nat, g \in Nat, r \in Nat :
                r - a = (r - b) - g => g = a - b
          OBVIOUS
        <5>2. PICK b : b = offset + n
          OBVIOUS
        <5>3. b \in Nat
          BY <1>42, <1>45, <5>2
        <5>4. tp - e = (tp - b) - v /\ e \in Nat
          BY <2>2, <4>9, <5>2
        <5>5. v = e - b
          BY <4>7, <5>1, <5>3, <5>4
        <5>6. QED
          BY <5>2, <5>5
      <4>11. QED
        BY <4>7, <4>10
    <3>7. F[q].len = l /\ F[q].payload = H[q].payload
      BY <1>2, <2>1, <2>2
    <3>8. PICK w : w = v + k - 0
      OBVIOUS
    <3>9. G[q].mem[z] = IF w \in DOMAIN t THEN t[w] ELSE F[q].mem[z]
      <4>1. u \in 1 .. Len(d) /\ k \in 1 .. F[d[u]].len /\ z = F[d[u]].payload + k
        BY <2>2, <2>3, <3>4, <3>7
      <4>2. Overwritten(F, G, d, t, 0)
        BY <1>11, <1>48
      <4>3. w = Before(F, d, u) + k - 0
        BY <3>5, <3>8
      <4>4. QED
        <5>1. \A a \in 1 .. Len(d) : \A b \in 1 .. F[d[a]].len :
                LET g == Before(F, d, a) + b - 0
                    r == F[d[a]].payload + b
                IN  G[d[a]].mem[r] = IF g \in DOMAIN t THEN t[g] ELSE F[d[a]].mem[r]
          BY <4>2, Zenon DEF Overwritten
        <5>2. LET g == Before(F, d, u) + k - 0
                  r == F[d[u]].payload + k
              IN  G[d[u]].mem[r] = IF g \in DOMAIN t THEN t[g] ELSE F[d[u]].mem[r]
          BY <4>1, <5>1
        <5>3. QED
          BY <3>4, <4>1, <4>3, <5>2
    <3>10. w = j - n /\ w >= 1
      BY <1>42, <1>45, <2>2, <2>4, <3>6, <3>8
    <3>11. w \in Int /\ j > n
      BY <1>40, <1>42, <2>5, <3>10
    <3>12. j \notin 1 .. n
      BY <1>42, <2>5, <3>11
    <3>13. w \in 1 .. L - n <=> j \in 1 .. L
      BY <1>40, <1>42, <2>5, <3>10
    <3>14. n + w = j
      BY <1>40, <1>42, <2>5, <3>10
    <3>15. w \in DOMAIN t => t[w] = bytes[j]
      BY <1>13, <3>14
    <3>16. j \notin DOMAIN s /\ (w \in DOMAIN t <=> j \in DOMAIN bytes)
      BY <1>3, <1>12, <1>13, <3>12, <3>13
    <3>17. QED
      BY <2>1, <2>3, <2>4, <2>6, <3>9, <3>15, <3>16
  <2>9. QED
    BY <2>7, <2>8
<1>15. QED
  BY <1>8, <1>10, <1>14 DEF Overwritten

\* pbuf_take_at() puts the bytes at an offset, if they fit, and else changes nothing.
LEMMA TakeAtPuts ==
  ASSUME NEW H, NEW h, HeapOk(H, h), NEW p \in DOMAIN H, NEW c, c = Chain(H, p),
         NEW B, NEW bytes \in Seq(B), NEW offset \in Nat
  PROVE  LET taken == TakeAt(H, p, bytes, offset)
             fits == offset < H[p].tot_len /\ offset + Len(bytes) <= H[p].tot_len
         IN  /\ fits => taken.err = "OK" /\ Overwritten(H, taken.H, c, bytes, offset)
             /\ ~fits => taken.err # "OK"
<1>1. Laid(H, p, c) /\ IsChain(H, p, c) /\ Structs(H)
  BY LaidIs DEF HeapOk, Linked, Structs
<1>2. PICK L : L = Len(bytes)
  OBVIOUS
<1>3. PICK t : t = H[p].tot_len
  OBVIOUS
<1>4. L \in Nat /\ t \in Nat
  BY <1>1, <1>2, <1>3 DEF Laid
<1>5. PICK at : at = Skip(H, p, offset)
  OBVIOUS
<1>6. PICK begun : begun = Put(H, at.q, at.offset, SubSeq(bytes, 1, Smaller(H[at.q].len - at.offset, L)))
  OBVIOUS
<1>7. TakeAt(H, p, bytes, offset) =
        IF at.q = NULL THEN [err |-> "MEM", H |-> H]
        ELSE IF H[at.q].tot_len < at.offset + L THEN [err |-> "MEM", H |-> H]
        ELSE IF Smaller(H[at.q].len - at.offset, L) = L THEN [err |-> "OK", H |-> begun]
        ELSE Take(begun, H[at.q].next, SubSeq(bytes, Smaller(H[at.q].len - at.offset, L) + 1, L))
  BY <1>2, <1>5, <1>6 DEF TakeAt
<1>8. CASE ~ (offset < t)
  <2>1. Skip(H, p, offset).q = NULL
    BY <1>1, <1>3, <1>8, SkipFinds
  <2>2. TakeAt(H, p, bytes, offset).err = "MEM"
    BY <1>5, <1>7, <2>1
  <2>3. QED
    BY <1>3, <1>8, <2>2
<1>9. CASE offset < t
  <2>1. PICK i \in 1 .. Len(c) : /\ Within(H, c, i, offset)
                                 /\ Skip(H, p, offset) = [q |-> c[i], offset |-> offset - Before(H, c, i)]
    BY <1>1, <1>3, <1>9, SkipFinds
  <2>2. PICK q, b, l : q = c[i] /\ b = Before(H, c, i) /\ l = H[q].len
    OBVIOUS
  <2>3. PICK o : o = offset - b
    OBVIOUS
  <2>4. at = [q |-> q, offset |-> o]
    BY <1>5, <2>1, <2>2, <2>3
  <2>5. q \in DOMAIN H /\ q # NULL /\ H[q].tot_len = H[p].tot_len - b /\ b \in Nat /\ l \in Nat
    BY <1>1, <2>2 DEF Laid
  <2>6. b <= offset /\ offset < b + l
    BY <2>1, <2>2 DEF Within
  <2>7. o \in Nat /\ o < l /\ b + o = offset
    BY <2>3, <2>5, <2>6
  <2>8. PICK n : n = Smaller(l - o, L)
    OBVIOUS
  <2>9. n \in Nat /\ n <= L /\ o + n <= l /\ (n # L => b + l = offset + n)
    BY <1>4, <2>5, <2>7, <2>8 DEF Smaller
  <2>10. H[q].tot_len < o + L <=> ~ (offset + L <= t)
    <3>1. H[q].tot_len = t - b
      BY <1>3, <2>5
    <3>2. t - b < o + L <=> ~ (offset + L <= t)
      BY <1>4, <2>3, <2>5
    <3>3. QED
      BY <3>1, <3>2
  <2>11. begun = Put(H, q, o, SubSeq(bytes, 1, n))
    BY <1>6, <2>2, <2>4, <2>8
  <2>12. TakeAt(H, p, bytes, offset) =
          IF H[q].tot_len < o + L THEN [err |-> "MEM", H |-> H]
          ELSE IF n = L THEN [err |-> "OK", H |-> begun]
          ELSE Take(begun, H[q].next, SubSeq(bytes, n + 1, L))
    BY <1>7, <2>2, <2>4, <2>5, <2>8
  <2>13. CASE ~ (offset + L <= t)
    <3>1. TakeAt(H, p, bytes, offset).err = "MEM"
      BY <2>10, <2>12, <2>13
    <3>2. QED
      BY <1>2, <1>3, <2>13, <3>1
  <2>14. CASE offset + L <= t
    <3>1. PICK s : s = SubSeq(bytes, 1, n)
      OBVIOUS
    <3>2. s \in Seq(B) /\ Len(s) = n
      <4>1. 0 + n <= Len(bytes) /\ n \in Nat /\ 0 \in Nat
        BY <1>2, <2>9
      <4>2. /\ SubSeq(bytes, 0 + 1, 0 + n) \in Seq(B) /\ Len(SubSeq(bytes, 0 + 1, 0 + n)) = n
            /\ \A k \in 1 .. n : 0 + k \in 1 .. Len(bytes) /\ SubSeq(bytes, 0 + 1, 0 + n)[k] = bytes[0 + k]
        BY <4>1, PartIs, ZenonT(60)
      <4>3. 0 + 1 = 1 /\ 0 + n = n
        BY <4>1
      <4>4. QED
        BY <3>1, <4>2, <4>3
    <3>3. Overwritten(H, begun, c, s, offset)
      <4>1. o \in Nat /\ o + Len(s) <= H[c[i]].len /\ s \in Seq(B)
        BY <2>2, <2>7, <2>9, <3>2
      <4>2. Overwritten(H, Put(H, c[i], o, s), c, s, Before(H, c, i) + o)
        BY <4>1, PutPuts
      <4>3. QED
        BY <2>2, <2>7, <2>11, <3>1, <4>2
    <3>4. CASE n = L
      <4>1. s = bytes
        BY <1>2, <3>1, <3>4
      <4>2. TakeAt(H, p, bytes, offset) = [err |-> "OK", H |-> begun]
        BY <2>10, <2>12, <2>14, <3>4
      <4>3. QED
        BY <1>2, <1>3, <1>9, <2>14, <3>3, <4>1, <4>2
    <3>5. CASE n # L
      <4>1. i \in 1 .. Len(c) - 1
        <5>1. i # Len(c)
          <6>1. ~ (t = b + l)
            BY <1>4, <2>5, <2>9, <2>14, <3>5
          <6>2. t = Before(H, c, Len(c)) + H[c[Len(c)]].len
            BY <1>1, <1>3 DEF Laid
          <6>3. QED
            BY <2>2, <6>1, <6>2
        <5>2. QED
          BY <1>1, <5>1 DEF Laid
      <4>2. PICK y : y = c[i + 1]
        OBVIOUS
      <4>3. Before(H, c, i + 1) = offset + n
        <5>1. Before(H, c, i + 1) = b + l
          BY <1>1, <2>2, <4>1 DEF Laid
        <5>2. QED
          BY <2>9, <3>5, <5>1
      <4>4. H[q].next = y /\ y \in DOMAIN H
        <5>1. i # Len(c) /\ i + 1 \in 1 .. Len(c)
          BY <1>1, <4>1 DEF Laid
        <5>2. H[q].next = y
          BY <1>1, <2>2, <4>2, <5>1 DEF IsChain, LinkedFrom
        <5>3. y \in DOMAIN H
          BY <1>1, <4>2, <5>1 DEF Laid
        <5>4. QED
          BY <5>2, <5>3
      <4>5. H[y].tot_len = t - (offset + n)
        BY <1>1, <1>3, <4>1, <4>2, <4>3 DEF Laid
      <4>6. SameShape(H, begun)
        BY <3>3 DEF Overwritten
      <4>7. HeapOk(begun, h) /\ y \in DOMAIN begun /\ begun[y].tot_len = t - (offset + n)
        BY <4>4, <4>5, <4>6, LaidStays
      <4>8. PICK r : r = SubSeq(bytes, n + 1, L)
        OBVIOUS
      <4>9. r \in Seq(B) /\ Len(r) <= begun[y].tot_len
        <5>1. PICK e : e = L - n
          OBVIOUS
        <5>2. n \in Nat /\ e \in Nat /\ n + e = L
          BY <1>4, <2>9, <5>1
        <5>3. n + e <= Len(bytes) /\ n \in Nat /\ e \in Nat
          BY <1>2, <5>2, <1>4
        <5>4. /\ SubSeq(bytes, n + 1, n + e) \in Seq(B) /\ Len(SubSeq(bytes, n + 1, n + e)) = e
              /\ \A k \in 1 .. e : n + k \in 1 .. Len(bytes) /\ SubSeq(bytes, n + 1, n + e)[k] = bytes[n + k]
          BY <5>3, PartIs, ZenonT(60)
        <5>5. r \in Seq(B) /\ Len(r) = e
          BY <4>8, <5>2, <5>4
        <5>6. e <= t - (offset + n)
          BY <1>4, <2>14, <5>2
        <5>7. QED
          BY <4>7, <5>5, <5>6
      <4>10. PICK G, d : G = Take(begun, y, r).H /\ d = Chain(begun, y)
        OBVIOUS
      <4>11. Take(begun, y, r).err = "OK" /\ Overwritten(begun, G, d, r, 0)
        BY <4>7, <4>9, <4>10, TakePuts
      <4>12. GoesOn(H, begun, G, c, i, bytes, n, offset)
        <5>1. n \in 0 .. Len(bytes)
          BY <1>2, <2>9
        <5>2. Overwritten(H, begun, c, SubSeq(bytes, 1, n), offset)
          BY <3>1, <3>3
        <5>3. Overwritten(begun, G, Chain(begun, c[i + 1]), SubSeq(bytes, n + 1, Len(bytes)), 0)
          BY <1>2, <4>2, <4>8, <4>10, <4>11
        <5>4. QED
          BY <4>1, <4>3, <5>1, <5>2, <5>3 DEF GoesOn
      <4>13. Overwritten(H, G, c, bytes, offset)
        BY <4>12, PutsGoOn
      <4>14. TakeAt(H, p, bytes, offset) = Take(begun, y, r)
        BY <2>10, <2>12, <2>14, <3>5, <4>4, <4>8
      <4>15. QED
        BY <1>2, <1>3, <1>9, <2>14, <4>10, <4>11, <4>13, <4>14
    <3>6. QED
      BY <3>4, <3>5
  <2>15. QED
    BY <2>13, <2>14
<1>10. QED
  BY <1>8, <1>9

\* Functions over the first n numbers are sequences.
LEMMA FunctionsAreSeqs ==
  ASSUME NEW A, NEW n \in Nat, NEW f \in [1 .. n -> A]
  PROVE  f \in Seq(A) /\ Len(f) = n
OBVIOUS

\* Bytes of A put into a pbuf whose memory is of A.
LEMMA FilledMemory ==
  ASSUME NEW A, NEW b, b.mem \in Seq(A), NEW offset, NEW bytes \in Seq(A),
         b = [contiguous |-> b.contiguous, mem |-> b.mem, payload |-> b.payload,
              tot_len |-> b.tot_len, len |-> b.len, next |-> b.next, ref |-> b.ref]
  PROVE  Filled(b, offset, bytes).mem \in Seq(A)
<1>1. PICK m : m = b.mem
  OBVIOUS
<1>2. m \in Seq(A) /\ Len(m) \in Nat
  BY <1>1
<1>3. Filled(b, offset, bytes).mem =
        [i \in DOMAIN m |-> LET j == i - b.payload - offset
                            IN  IF j \in DOMAIN bytes THEN bytes[j] ELSE m[i]]
  BY <1>1 DEF Filled
<1>4. \A j \in DOMAIN bytes : bytes[j] \in A
  OBVIOUS
<1>5. DOMAIN m = 1 .. Len(m) /\ \A i \in DOMAIN m : m[i] \in A
  BY <1>2
<1>6. Filled(b, offset, bytes).mem \in [1 .. Len(m) -> A]
  BY <1>3, <1>4, <1>5
<1>7. QED
  BY <1>2, <1>6, FunctionsAreSeqs, Zenon

\* So are the bytes put into a chain of the heap by the callers of Put.
LEMMA PutMemory ==
  ASSUME NEW A, NEW H, Structs(H), MemoryOf(H, A), NEW p, NEW offset, NEW bytes \in Seq(A)
  PROVE  MemoryOf(Put(H, p, offset, bytes), A)
<1>1. ASSUME NEW q \in DOMAIN H
      PROVE  Put(H, p, offset, bytes)[q].mem \in Seq(A)
  <2>1. Put(H, p, offset, bytes)[q] = IF q = p THEN Filled(H[q], offset, bytes) ELSE H[q]
    BY DEF Put
  <2>2. H[q].mem \in Seq(A) /\ IsPbuf(H[q])
    BY DEF MemoryOf, Structs
  <2>3. Filled(H[q], offset, bytes).mem \in Seq(A)
    <3>1. PICK b : b = H[q]
      OBVIOUS
    <3>2. b.mem \in Seq(A) /\ b = [contiguous |-> b.contiguous, mem |-> b.mem, payload |-> b.payload,
              tot_len |-> b.tot_len, len |-> b.len, next |-> b.next, ref |-> b.ref]
      BY <2>2, <3>1 DEF IsPbuf
    <3>3. Filled(b, offset, bytes).mem \in Seq(A)
      BY <3>2, FilledMemory
    <3>4. QED
      BY <3>1, <3>3
  <2>4. QED
    BY <2>1, <2>2, <2>3
<1>2. DOMAIN Put(H, p, offset, bytes) = DOMAIN H
  BY DEF Put
<1>3. QED
  BY <1>1, <1>2 DEF MemoryOf

\* pbuf_take() puts bytes of A.
LEMMA TakeMemory ==
  ASSUME NEW A, NEW H, NEW h, HeapOk(H, h), MemoryOf(H, A), NEW p \in DOMAIN H,
         NEW bytes \in Seq(A)
  PROVE  MemoryOf(Take(H, p, bytes).H, A)
<1>1. PICK c : c = Chain(H, p)
  OBVIOUS
<1>2. Laid(H, p, c) /\ IsChain(H, p, c) /\ Structs(H) /\ p # NULL
  BY <1>1, LaidIs, ConstantsAssumption DEF HeapOk, Linked, Structs, ConstantsAssumption
<1> DEFINE done(i) == Smaller(Before(H, c, i), Len(bytes))
           n(i) == Smaller(Len(bytes) - done(i), H[c[i]].len)
           part(i) == SubSeq(bytes, done(i) + 1, done(i) + n(i))
           fill(i) == Filled(H[c[i]], 0, part(i))
           G == [q \in DOMAIN H |->
                   IF q \in ToSet(c) THEN fill(CHOOSE i \in DOMAIN c : c[i] = q) ELSE H[q]]
<1>3. Take(H, p, bytes).H = H \/ Take(H, p, bytes).H = G
  BY <1>1, <1>2 DEF Take
<1>4. ASSUME NEW i \in 1 .. Len(c)
      PROVE  fill(i).mem \in Seq(A)
  <2>1. PICK L, d, m, l, b : L = Len(bytes) /\ d = done(i) /\ m = n(i) /\ l = H[c[i]].len /\ b = Before(H, c, i)
    OBVIOUS
  <2>2. L \in Nat /\ l \in Nat /\ b \in Nat
    BY <1>2, <2>1 DEF Laid
  <2>3. d = (IF b < L THEN b ELSE L) /\ m = (IF L - d < l THEN L - d ELSE l)
    BY <2>1 DEF Smaller
  <2>4. d \in Nat /\ m \in Nat /\ d + m <= L
    BY <2>2, <2>3
  <2>5. d + m <= Len(bytes) /\ d \in Nat /\ m \in Nat
    BY <2>1, <2>4
  <2>6. SubSeq(bytes, d + 1, d + m) \in Seq(A)
    <3>1. /\ SubSeq(bytes, d + 1, d + m) \in Seq(A) /\ Len(SubSeq(bytes, d + 1, d + m)) = m
          /\ \A k \in 1 .. m : d + k \in 1 .. Len(bytes) /\ SubSeq(bytes, d + 1, d + m)[k] = bytes[d + k]
      BY <2>5, PartIs, Zenon
    <3>2. QED
      BY <3>1
  <2>7. part(i) \in Seq(A)
    BY <2>1, <2>6
  <2>8. PICK x, q : x = part(i) /\ q = H[c[i]]
    OBVIOUS
  <2>9. x \in Seq(A) /\ q.mem \in Seq(A) /\ IsPbuf(q)
    BY <1>2, <2>7, <2>8 DEF MemoryOf, Structs, Laid
  <2>10. Filled(q, 0, x).mem \in Seq(A)
    BY <2>9, FilledMemory DEF IsPbuf
  <2>11. QED
    BY <2>8, <2>10
<1>5. MemoryOf(G, A)
  <2>1. \A q \in ToSet(c) : (CHOOSE i \in DOMAIN c : c[i] = q) \in 1 .. Len(c)
    BY <1>2 DEF Laid, ToSet
  <2> HIDE DEF fill
  <2>2. QED
    BY <1>4, <2>1 DEF MemoryOf
<1> HIDE DEF G
<1>6. QED
  BY <1>3, <1>5

\* pbuf_take_at() too.
LEMMA TakeAtMemory ==
  ASSUME NEW A, NEW H, NEW h, HeapOk(H, h), MemoryOf(H, A), NEW p \in DOMAIN H,
         NEW bytes \in Seq(A), NEW offset \in Nat
  PROVE  MemoryOf(TakeAt(H, p, bytes, offset).H, A)
<1>1. PICK c : c = Chain(H, p)
  OBVIOUS
<1>2. Laid(H, p, c) /\ IsChain(H, p, c) /\ Structs(H)
  BY <1>1, LaidIs DEF HeapOk, Linked, Structs
<1>3. PICK L : L = Len(bytes)
  OBVIOUS
<1>4. PICK at : at = Skip(H, p, offset)
  OBVIOUS
<1>5. PICK n : n = Smaller(H[at.q].len - at.offset, L)
  OBVIOUS
<1>6. PICK begun : begun = Put(H, at.q, at.offset, SubSeq(bytes, 1, n))
  OBVIOUS
<1>7. PICK G : G = TakeAt(H, p, bytes, offset).H
  OBVIOUS
<1>8. CASE at.q = NULL
  BY <1>4, <1>8 DEF TakeAt
<1>9. CASE at.q # NULL
  <2>1. L \in Nat
    BY <1>3
  <2>2. n \in Nat /\ n <= L
    <3>1. offset < H[p].tot_len
      BY <1>2, <1>4, <1>9, SkipFinds
    <3>2. PICK i \in 1 .. Len(c) : Within(H, c, i, offset) /\ at = [q |-> c[i], offset |-> offset - Before(H, c, i)]
      BY <1>2, <1>4, <3>1, SkipFinds
    <3>3. PICK l, b : l = H[c[i]].len /\ b = Before(H, c, i)
      OBVIOUS
    <3>4. l \in Nat /\ b \in Nat /\ b <= offset /\ offset < b + l
      BY <1>2, <3>2, <3>3 DEF Laid, Within
    <3>5. n = (IF l - (offset - b) < L THEN l - (offset - b) ELSE L)
      BY <1>5, <3>2, <3>3 DEF Smaller
    <3>6. QED
      BY <2>1, <3>4, <3>5
  <2>3. SubSeq(bytes, 1, n) \in Seq(A)
    <3>1. 0 + n <= Len(bytes) /\ n \in Nat /\ 0 \in Nat
      BY <1>3, <2>2
    <3>2. /\ SubSeq(bytes, 0 + 1, 0 + n) \in Seq(A) /\ Len(SubSeq(bytes, 0 + 1, 0 + n)) = n
          /\ \A k \in 1 .. n : 0 + k \in 1 .. Len(bytes) /\ SubSeq(bytes, 0 + 1, 0 + n)[k] = bytes[0 + k]
      BY <3>1, PartIs, ZenonT(60)
    <3>3. 0 + 1 = 1 /\ 0 + n = n
      BY <3>1
    <3>4. QED
      BY <3>2, <3>3
  <2>4. SubSeq(bytes, n + 1, L) \in Seq(A)
    <3>1. PICK e : e = L - n
      OBVIOUS
    <3>2. e \in Nat /\ n + e = L
      BY <2>1, <2>2, <3>1
    <3>3. n + e <= Len(bytes) /\ n \in Nat /\ e \in Nat
      BY <1>3, <2>1, <2>2, <3>2
    <3>4. /\ SubSeq(bytes, n + 1, n + e) \in Seq(A) /\ Len(SubSeq(bytes, n + 1, n + e)) = e
          /\ \A k \in 1 .. e : n + k \in 1 .. Len(bytes) /\ SubSeq(bytes, n + 1, n + e)[k] = bytes[n + k]
      BY <3>3, PartIs, ZenonT(60)
    <3>5. QED
      BY <3>2, <3>4
  <2>5. MemoryOf(begun, A)
    BY <1>2, <1>6, <2>3, PutMemory
  <2>6. SameShape(H, begun)
    BY <1>2, <1>6, PutKeepsShape
  <2>7. HeapOk(begun, h)
    BY <2>6, SameShapeKeeps
  <2>8. PICK y, r : y = H[at.q].next /\ r = SubSeq(bytes, n + 1, L)
    OBVIOUS
  <2>9. \/ TakeAt(H, p, bytes, offset).H = H
        \/ TakeAt(H, p, bytes, offset).H = begun
        \/ TakeAt(H, p, bytes, offset).H = Take(begun, y, r).H
    BY <1>3, <1>4, <1>5, <1>6, <2>8 DEF TakeAt
  <2>10. MemoryOf(Take(begun, y, r).H, A)
    <3>1. CASE y = NULL
      <4>1. Take(begun, y, r) = [err |-> "ARG", H |-> begun]
        BY <3>1 DEF Take
      <4>2. QED
        BY <2>5, <4>1
    <3>2. CASE y # NULL
      <4>1. at.q \in DOMAIN H
        <5>1. Skip(H, p, offset).q \in DOMAIN H \cup {NULL}
          BY SkipIs DEF HeapOk
        <5>2. QED
          BY <1>4, <1>9, <5>1
      <4>2. y \in DOMAIN begun
        BY <2>6, <2>8, <3>2, <4>1 DEF HeapOk, Linked, SameShape
      <4>3. r \in Seq(A)
        BY <2>4, <2>8
      <4>4. QED
        BY <2>5, <2>7, <4>2, <4>3, TakeMemory
    <3>3. QED
      BY <3>1, <3>2
  <2>11. QED
    BY <2>5, <2>9, <2>10
<1>10. QED
  BY <1>8, <1>9

\* pbuf_put_at() too.
LEMMA PutAtMemory ==
  ASSUME NEW A, NEW H, Structs(H), MemoryOf(H, A), NEW p, NEW offset, NEW x \in A
  PROVE  MemoryOf(PutAt(H, p, offset, x), A)
<1>1. <<x>> \in Seq(A)
  OBVIOUS
<1>2. PutAt(H, p, offset, x) = H \/ \E q, o : PutAt(H, p, offset, x) = Put(H, q, o, <<x>>)
  BY DEF PutAt
<1>3. QED
  BY <1>1, <1>2, PutMemory

\* Bytes laid over a sequence.
LEMMA OverlaidIs ==
  ASSUME NEW A, NEW s \in Seq(A), NEW bytes \in Seq(A), NEW offset \in Int
  PROVE  /\ Overlaid(s, bytes, offset) \in Seq(A) /\ Len(Overlaid(s, bytes, offset)) = Len(s)
         /\ \A n \in 1 .. Len(s) :
              Overlaid(s, bytes, offset)[n] =
                IF n - offset \in DOMAIN bytes THEN bytes[n - offset] ELSE s[n]
<1>1. PICK m, f : m = Len(s) /\ f = Overlaid(s, bytes, offset)
  OBVIOUS
<1>2. m \in Nat /\ DOMAIN s = 1 .. m /\ \A n \in 1 .. m : s[n] \in A
  BY <1>1
<1>3. \A j \in DOMAIN bytes : bytes[j] \in A
  OBVIOUS
<1>4. f = [n \in 1 .. m |-> IF n - offset \in DOMAIN bytes THEN bytes[n - offset] ELSE s[n]]
  BY <1>1, <1>2 DEF Overlaid
<1>5. f \in [1 .. m -> A]
  BY <1>2, <1>3, <1>4
<1>6. f \in Seq(A) /\ Len(f) = m
  BY <1>2, <1>5, FunctionsAreSeqs, Zenon
<1>7. \A n \in 1 .. m : f[n] = IF n - offset \in DOMAIN bytes THEN bytes[n - offset] ELSE s[n]
  BY <1>4
<1>8. QED
  BY <1>1, <1>6, <1>7, Zenon

\* What a chain holds after bytes have been put into it.
LEMMA OverwrittenContent ==
  ASSUME NEW A, NEW H, NEW h, HeapOk(H, h), MemoryOf(H, A), NEW p \in DOMAIN H,
         NEW c, c = Chain(H, p), NEW bytes \in Seq(A), NEW offset \in Int,
         NEW G, Overwritten(H, G, c, bytes, offset), MemoryOf(G, A)
  PROVE  Content(G, p) = Overlaid(Content(H, p), bytes, offset)
<1>1. SameShape(H, G)
  BY DEF Overwritten
<1>2. /\ HeapOk(G, h) /\ p \in DOMAIN G /\ c = Chain(G, p) /\ Laid(H, p, c)
      /\ \A q \in DOMAIN H : G[q].len = H[q].len /\ G[q].payload = H[q].payload /\ G[q].tot_len = H[q].tot_len
      /\ \A i \in 1 .. Len(c) : Before(G, c, i) = Before(H, c, i)
  BY <1>1, LaidStays
<1>3. PICK s : s = Content(H, p)
  OBVIOUS
<1>4. s \in Seq(A) /\ Len(s) = H[p].tot_len /\ Spells(H, c, s)
  BY <1>3, ContentIs
<1>5. PICK t : t = Content(G, p)
  OBVIOUS
<1>6. t \in Seq(A) /\ Len(t) = G[p].tot_len /\ Spells(G, c, t)
  BY <1>2, <1>5, ContentIs
<1>7. Len(t) = H[p].tot_len
  BY <1>2, <1>6
<1>8. PICK f : f = Overlaid(s, bytes, offset)
  OBVIOUS
<1>9. /\ f \in Seq(A) /\ Len(f) = Len(s)
      /\ \A n \in 1 .. Len(s) : f[n] = IF n - offset \in DOMAIN bytes THEN bytes[n - offset] ELSE s[n]
  BY <1>4, <1>8, OverlaidIs
<1>10. ASSUME NEW i \in 1 .. Len(c), NEW k \in 1 .. H[c[i]].len
       PROVE  f[Before(H, c, i) + k] = t[Before(H, c, i) + k]
  <2>1. PICK q, b, l : q = c[i] /\ b = Before(H, c, i) /\ l = H[c[i]].len
    OBVIOUS
  <2>2. q \in DOMAIN H /\ b \in Nat /\ l \in Nat /\ k \in 1 .. l
    BY <1>2, <2>1 DEF Laid
  <2>3. b + l <= H[p].tot_len
    BY <1>2, <2>1, BeforeEnds
  <2>4. b + k \in 1 .. Len(s)
    <3>1. PICK u : u = H[p].tot_len
      OBVIOUS
    <3>2. u \in Nat
      BY <1>4, <3>1
    <3>3. b + k \in 1 .. u
      BY <2>2, <2>3, <3>1, <3>2
    <3>4. QED
      BY <1>4, <3>1, <3>3
  <2>5. PICK j, x : j = b + k - offset /\ x = H[q].payload + k
    OBVIOUS
  <2>6. s[b + k] = H[q].mem[x]
    BY <1>4, <2>1, <2>5 DEF Spells
  <2>7. t[b + k] = G[q].mem[x]
    <3>1. k \in 1 .. G[q].len /\ Before(G, c, i) = b /\ G[q].payload + k = x
      BY <1>2, <2>1, <2>2, <2>5
    <3>2. QED
      BY <1>6, <2>1, <3>1 DEF Spells
  <2>8. G[q].mem[x] = IF j \in DOMAIN bytes THEN bytes[j] ELSE H[q].mem[x]
    BY <2>1, <2>5 DEF Overwritten
  <2>9. f[b + k] = IF j \in DOMAIN bytes THEN bytes[j] ELSE s[b + k]
    <3>1. \A n \in 1 .. Len(s) : f[n] = IF n - offset \in DOMAIN bytes THEN bytes[n - offset] ELSE s[n]
      BY <1>9
    <3>2. f[b + k] = IF (b + k) - offset \in DOMAIN bytes THEN bytes[(b + k) - offset] ELSE s[b + k]
      BY <2>4, <3>1, Zenon
    <3>3. j = (b + k) - offset
      BY <2>2, <2>5
    <3>4. QED
      BY <3>2, <3>3
  <2>10. QED
    BY <2>1, <2>6, <2>7, <2>8, <2>9
<1>11. f = t
  <2>1. Laid(H, p, c) /\ f \in Seq(A) /\ t \in Seq(A) /\ Len(f) = H[p].tot_len /\ Len(t) = H[p].tot_len
    BY <1>2, <1>4, <1>6, <1>7, <1>9
  <2>2. \A i \in 1 .. Len(c) : \A k \in 1 .. H[c[i]].len :
           f[Before(H, c, i) + k] = t[Before(H, c, i) + k]
    BY <1>10
  <2>3. SpelledAlike(H, p, c, A, f, t)
    BY <2>1, <2>2 DEF SpelledAlike
  <2>4. QED
    BY <2>3, SpelledOnce
<1>12. QED
  BY <1>3, <1>5, <1>8, <1>11

\* Another chain holds what it held.
LEMMA OtherContent ==
  ASSUME NEW A, NEW H, NEW h, HeapOk(H, h), MemoryOf(H, A), NEW c, NEW bytes, NEW offset,
         NEW G, Overwritten(H, G, c, bytes, offset), MemoryOf(G, A),
         NEW p \in DOMAIN H, ToSet(Chain(H, p)) \cap First(c, Len(c)) = {}
  PROVE  Content(G, p) = Content(H, p)
<1>1. SameShape(H, G)
  BY DEF Overwritten
<1>2. PICK d : d = Chain(H, p)
  OBVIOUS
<1>3. /\ HeapOk(G, h) /\ p \in DOMAIN G /\ d = Chain(G, p) /\ Laid(H, p, d)
      /\ \A q \in DOMAIN H : G[q].len = H[q].len /\ G[q].payload = H[q].payload /\ G[q].tot_len = H[q].tot_len
      /\ \A i \in 1 .. Len(d) : Before(G, d, i) = Before(H, d, i)
  BY <1>1, <1>2, LaidStays
<1>4. PICK s : s = Content(H, p)
  OBVIOUS
<1>5. s \in Seq(A) /\ Len(s) = H[p].tot_len /\ Spells(H, d, s)
  BY <1>2, <1>4, ContentIs
<1>6. PICK t : t = Content(G, p)
  OBVIOUS
<1>7. t \in Seq(A) /\ Len(t) = G[p].tot_len /\ Spells(G, d, t)
  BY <1>3, <1>6, ContentIs
<1>8. Len(t) = H[p].tot_len
  BY <1>3, <1>7
<1>9. ASSUME NEW i \in 1 .. Len(d), NEW k \in 1 .. H[d[i]].len
      PROVE  s[Before(H, d, i) + k] = t[Before(H, d, i) + k]
  <2>1. PICK q, b : q = d[i] /\ b = Before(H, d, i)
    OBVIOUS
  <2>2. q \in DOMAIN H /\ G[q] = H[q]
    <3>1. q \in ToSet(d) /\ q \in DOMAIN H
      BY <1>3, <2>1 DEF Laid, ToSet
    <3>2. QED
      BY <1>2, <3>1 DEF Overwritten
  <2>3. s[b + k] = H[q].mem[H[q].payload + k]
    BY <1>5, <2>1 DEF Spells
  <2>4. t[b + k] = G[q].mem[G[q].payload + k]
    <3>1. k \in 1 .. G[d[i]].len /\ Before(G, d, i) = b
      BY <1>3, <2>1, <2>2
    <3>2. QED
      BY <1>7, <2>1, <3>1 DEF Spells
  <2>5. QED
    BY <2>1, <2>2, <2>3, <2>4
<1>10. s = t
  <2>1. SpelledAlike(H, p, d, A, s, t)
    BY <1>3, <1>5, <1>7, <1>8, <1>9 DEF SpelledAlike
  <2>2. QED
    BY <2>1, SpelledOnce
<1>11. QED
  BY <1>4, <1>6, <1>10

\* A chain holds the payload of its first pbuf and then what the rest of it holds.
Continues(H, q, s, t) ==
  /\ \A k \in 1 .. H[q].len : s[k] = Payload(H, q)[k]
  /\ H[q].tot_len = H[q].len + (IF H[q].next = NULL THEN 0 ELSE H[H[q].next].tot_len)
  /\ H[q].next # NULL => \A k \in 1 .. H[H[q].next].tot_len : t[k] = s[H[q].len + k]

\* So is its content: the payload of the first pbuf, and the rest behind it.
LEMMA ContentContinues ==
  ASSUME NEW A, NEW H, NEW h, HeapOk(H, h), MemoryOf(H, A), NEW q \in DOMAIN H
  PROVE  Continues(H, q, Content(H, q), Content(H, H[q].next))
<1>1. PICK c, s : c = Chain(H, q) /\ s = Content(H, q)
  OBVIOUS
<1>2. Laid(H, q, c) /\ IsChain(H, q, c) /\ Linked(H) /\ Summed(H) /\ Structs(H)
  BY <1>1, LaidIs DEF HeapOk, Linked, Structs
<1>3. s \in Seq(A) /\ Len(s) = H[q].tot_len /\ Spells(H, c, s)
  BY <1>1, ContentIs
<1>4. H[q].tot_len = H[q].len + (IF H[q].next = NULL THEN 0 ELSE H[H[q].next].tot_len)
  BY <1>2 DEF Summed
<1>5. PICK l : l = H[q].len
  OBVIOUS
<1>6. l \in Nat /\ c[1] = q /\ 1 \in 1 .. Len(c) /\ Before(H, c, 1) = 0
  BY <1>2, <1>5 DEF Laid
<1>7. ASSUME NEW k \in 1 .. H[q].len
      PROVE  s[k] = Payload(H, q)[k]
  <2>1. s[Before(H, c, 1) + k] = H[q].mem[H[q].payload + k]
    BY <1>3, <1>6 DEF Spells
  <2>2. Before(H, c, 1) + k = k
    BY <1>5, <1>6
  <2>3. Payload(H, q)[k] = H[q].mem[H[q].payload + k]
    <3>1. IsPbuf(H[q]) /\ Buffered(H[q]) /\ H[q].mem \in Seq(A)
      BY <1>2 DEF Structs, MemoryOf
    <3>2. QED
      BY <3>1, PayloadBytes
  <2>4. QED
    BY <2>1, <2>2, <2>3
<1>8. ASSUME H[q].next # NULL, NEW k \in 1 .. H[H[q].next].tot_len
      PROVE  Content(H, H[q].next)[k] = s[H[q].len + k]
  <2>1. PICK y, d, t : y = H[q].next /\ d = Chain(H, y) /\ t = Content(H, y)
    OBVIOUS
  <2>2. Len(c) \in Nat /\ 2 \in 1 .. Len(c) /\ c[2] = y
    <3>1. H[c[1]].next = IF 1 = Len(c) THEN NULL ELSE c[1 + 1]
      BY <1>2, <1>6 DEF IsChain, LinkedFrom
    <3>2. Len(c) \in Nat
      BY <1>2 DEF Laid
    <3>3. 1 # Len(c) /\ y = c[1 + 1]
      BY <1>6, <1>8, <2>1, <3>1, Zenon
    <3>4. 1 + 1 = 2 /\ 2 \in 1 .. Len(c)
      <4>1. PICK m : m = Len(c)
        OBVIOUS
      <4>2. m \in Nat /\ 1 # m /\ 1 \in 1 .. m
        BY <1>6, <3>2, <3>3, <4>1
      <4>3. 2 \in 1 .. m
        BY <4>2
      <4>4. QED
        BY <4>1, <4>3
    <3>5. QED
      BY <3>2, <3>3, <3>4
  <2>3. y \in DOMAIN H
    BY <1>2, <2>2 DEF Laid
  <2>4. Laid(H, y, d)
    BY <2>1, <2>3, LaidIs
  <2>5. t \in Seq(A) /\ Len(t) = H[y].tot_len /\ Spells(H, d, t)
    BY <2>1, <2>3, ContentIs
  <2>6. RestFrom(c, 2, d)
    BY <1>1, <1>2, <2>1, <2>2, RestOfChain
  <2>7. k - 1 \in Nat /\ k - 1 < H[y].tot_len /\ k \in Nat
    BY <2>1, <2>5
  <2>8. PICK j \in 1 .. Len(d) : Within(H, d, j, k - 1)
    BY <2>4, <2>7, BytesAreFound
  <2>9. PICK b, r : b = Before(H, d, j) /\ r = H[d[j]].len
    OBVIOUS
  <2>10. b \in Nat /\ r \in Nat /\ b <= k - 1 /\ k - 1 < b + r
    BY <2>4, <2>8, <2>9 DEF Within, Laid
  <2>11. PICK u : u = k - b
    OBVIOUS
  <2>12. u \in 1 .. r /\ b + u = k
    BY <2>7, <2>10, <2>11
  <2>13. t[k] = H[d[j]].mem[H[d[j]].payload + u]
    BY <2>5, <2>9, <2>12 DEF Spells
  <2>14. Len(d) = Len(c) - 1 /\ d[j] = c[j + 1]
    <3>1. Len(d) = Len(c) - 2 + 1 /\ d[j] = c[j + 2 - 1]
      BY <2>6 DEF RestFrom
    <3>2. j + 2 - 1 = j + 1 /\ Len(c) - 2 + 1 = Len(c) - 1
      BY <2>2, <2>4 DEF Laid
    <3>3. QED
      BY <3>1, <3>2
  <2>15. j + 1 \in 1 .. Len(c)
    BY <2>2, <2>14
  <2>16. Before(H, c, j + 1) = l + b
    <3>1. PICK a, e, g, z : a = Before(H, c, j + 1) /\ e = H[q].tot_len /\ g = H[y].tot_len /\ z = H[d[j]].tot_len
      OBVIOUS
    <3>2. z = e - a /\ a \in Nat /\ e \in Nat
      BY <1>2, <2>14, <2>15, <3>1 DEF Laid
    <3>3. z = g - b /\ g \in Nat
      BY <2>4, <2>9, <3>1 DEF Laid
    <3>4. e = l + g
      BY <1>4, <1>5, <1>8, <2>1, <3>1
    <3>5. a = l + b
      BY <1>6, <2>10, <3>2, <3>3, <3>4
    <3>6. QED
      BY <3>1, <3>5
  <2>17. s[Before(H, c, j + 1) + u] = H[d[j]].mem[H[d[j]].payload + u]
    BY <1>3, <2>9, <2>12, <2>14, <2>15 DEF Spells
  <2>18. Before(H, c, j + 1) + u = l + k
    BY <1>6, <2>10, <2>12, <2>16
  <2>19. QED
    BY <1>5, <2>1, <2>13, <2>17, <2>18
<1>9. QED
  BY <1>1, <1>4, <1>7, <1>8 DEF Continues

\* A turn of the loop of pbuf_copy_partial(), given what the later turns copy.
CopiedTurn(H, f, q, off, left) ==
  LET n == Smaller(H[q].len - off, left)
  IN  IF q = NULL \/ left = 0 THEN <<>>
      ELSE IF off # 0 /\ off >= H[q].len THEN f[<<H[q].next, off - H[q].len, left>>]
      ELSE SubSeq(Payload(H, q), off + 1, off + n) \o f[<<H[q].next, 0, left - n>>]
Copied(H, f) ==
  f = [at \in (DOMAIN H \cup {NULL}) \X Nat \X Nat |-> CopiedTurn(H, f, at[1], at[2], at[3])]

\* What it copies.
PartOf(H, q, off, left) ==
  IF q = NULL THEN <<>>
  ELSE [k \in 1 .. Smaller(left, H[q].tot_len - off) |-> Content(H, q)[off + k]]
AllParts(H) ==
  [at \in (DOMAIN H \cup {NULL}) \X Nat \X Nat |-> PartOf(H, at[1], at[2], at[3])]

\* What the loop copies from one place on.
LEMMA CopiedAt ==
  ASSUME NEW H, NEW f, Copied(H, f), NEW q \in DOMAIN H \cup {NULL}, NEW off \in Nat, NEW left \in Nat
  PROVE  f[<<q, off, left>>] = CopiedTurn(H, f, q, off, left)
BY DEF Copied

\* The part there.
LEMMA AllPartsAt ==
  ASSUME NEW H, NEW q \in DOMAIN H \cup {NULL}, NEW off \in Nat, NEW left \in Nat
  PROVE  AllParts(H)[<<q, off, left>>] = PartOf(H, q, off, left)
BY DEF AllParts

\* The elements of a concatenation.
HasParts(f, s, t) ==
  /\ f = [k \in 1 .. Len(s) + Len(t) |-> f[k]]
  /\ \A k \in 1 .. Len(s) : f[k] = s[k]
  /\ \A k \in 1 .. Len(t) : f[Len(s) + k] = t[k]

\* Those elements make up the concatenation.
LEMMA JoinedParts ==
  ASSUME NEW A, NEW s \in Seq(A), NEW t \in Seq(A), NEW f, HasParts(f, s, t)
  PROVE  s \o t = f
<1>0. PICK n : n = Len(s) + Len(t)
  OBVIOUS
<1>1. PICK a, b : a = Len(s) /\ b = Len(t)
  OBVIOUS
<1>2. a \in Nat /\ b \in Nat /\ n = a + b /\ n \in Nat
  BY <1>0, <1>1
<1>3. PICK g : g = s \o t
  OBVIOUS
<1>4. g \in Seq(A) /\ Len(g) = n
  BY <1>1, <1>2, <1>3
<1>5. DOMAIN g = 1 .. n /\ g = [k \in 1 .. n |-> g[k]]
  BY <1>4
<1>6. ASSUME NEW k \in 1 .. n
      PROVE  g[k] = f[k]
  <2>1. CASE k <= a
    <3>1. k \in 1 .. a
      BY <1>2, <2>1
    <3>2. g[k] = s[k]
      BY <1>1, <1>2, <1>3, <3>1
    <3>3. QED
      BY <1>1, <3>1, <3>2 DEF HasParts
  <2>2. CASE k > a
    <3>1. PICK j : j = k - a
      OBVIOUS
    <3>2. j \in 1 .. b /\ a + j = k
      <4>1. k \in Nat /\ k <= a + b
        BY <1>2
      <4>2. QED
        BY <1>2, <2>2, <3>1, <4>1
    <3>3. g[k] = t[j]
      BY <1>1, <1>2, <1>3, <2>2, <3>1
    <3>4. f[a + j] = t[j]
      BY <1>1, <3>2 DEF HasParts
    <3>5. QED
      BY <3>2, <3>3, <3>4
  <2>3. QED
    BY <1>2, <2>1, <2>2
<1>7. f = [k \in 1 .. n |-> f[k]]
  BY <1>0 DEF HasParts
<1>8. QED
  BY <1>3, <1>5, <1>6, <1>7

\* What is copied is such that each turn copies it.
LEMMA PartsAreCopied ==
  ASSUME NEW A, NEW H, NEW h, HeapOk(H, h), MemoryOf(H, A),
         NEW q \in DOMAIN H \cup {NULL}, NEW off \in Nat, NEW left \in Nat
  PROVE  CopiedTurn(H, AllParts(H), q, off, left) = PartOf(H, q, off, left)
<1>1. CASE q = NULL
  BY <1>1 DEF CopiedTurn, PartOf
<1>2. CASE q # NULL
  <2>1. q \in DOMAIN H
    BY <1>2
  <2>2. PICK y, s, t : y = H[q].next /\ s = Content(H, q) /\ t = Content(H, y)
    OBVIOUS
  <2>3. Continues(H, q, s, t)
    BY <2>1, <2>2, ContentContinues
  <2>4. PICK c : c = Chain(H, q)
    OBVIOUS
  <2>5. Laid(H, q, c) /\ Structs(H) /\ Linked(H)
    BY <2>1, <2>4, LaidIs DEF HeapOk, Linked, Structs
  <2>6. PICK l, e, g : l = H[q].len /\ e = H[q].tot_len /\ g = (IF y = NULL THEN 0 ELSE H[y].tot_len)
    OBVIOUS
  <2>7. l \in Nat /\ e \in Nat /\ IsPbuf(H[q]) /\ Buffered(H[q]) /\ H[q].mem \in Seq(A)
    <3>1. IsPbuf(H[q]) /\ Buffered(H[q])
      BY <2>1, <2>5 DEF Structs
    <3>2. H[q].mem \in Seq(A)
      BY <2>1 DEF MemoryOf
    <3>3. l \in Nat /\ e \in Nat
      BY <2>6, <3>1 DEF IsPbuf
    <3>4. QED
      BY <3>1, <3>2, <3>3
  <2>8. e = l + g /\ g \in Nat
    <3>1. e = l + g
      BY <2>2, <2>3, <2>6 DEF Continues
    <3>2. y \in DOMAIN H \cup {NULL}
      BY <2>1, <2>2, <2>5 DEF Linked
    <3>3. g \in Nat
      BY <2>5, <2>6, <3>2 DEF Structs, IsPbuf
    <3>4. QED
      BY <3>1, <3>3
  <2>9. y \in DOMAIN H \cup {NULL}
    BY <2>1, <2>2, <2>5 DEF Linked
  <2>10. PICK m : m = Smaller(left, e - off)
    OBVIOUS
  <2>11. m = IF left < e - off THEN left ELSE e - off
    BY <2>10 DEF Smaller
  <2>12. PartOf(H, q, off, left) = [k \in 1 .. m |-> s[off + k]]
    BY <1>2, <2>2, <2>6, <2>10 DEF PartOf
  <2>13. \A o \in Nat, w \in Nat : AllParts(H)[<<y, o, w>>] = PartOf(H, y, o, w)
    BY <2>9, AllPartsAt
  <2>14. CASE left = 0
    <3>1. CopiedTurn(H, AllParts(H), q, off, left) = <<>>
      BY <2>14 DEF CopiedTurn
    <3>2. 1 .. m = {}
      BY <2>7, <2>11, <2>14
    <3>3. QED
      BY <2>12, <3>1, <3>2
  <2>15. CASE left # 0 /\ off # 0 /\ off >= l
    <3>1. PICK o : o = off - l
      OBVIOUS
    <3>2. o \in Nat /\ off = o + l
      BY <2>7, <2>15, <3>1
    <3>3. CopiedTurn(H, AllParts(H), q, off, left) = AllParts(H)[<<y, o, left>>]
      BY <1>2, <2>2, <2>6, <2>15, <3>1 DEF CopiedTurn
    <3>4. CopiedTurn(H, AllParts(H), q, off, left) = PartOf(H, y, o, left)
      BY <2>13, <3>2, <3>3
    <3>5. CASE y = NULL
      <4>1. g = 0
        BY <2>6, <3>5
      <4>2. 1 .. m = {}
        BY <2>7, <2>8, <2>11, <2>15, <4>1
      <4>3. PartOf(H, y, o, left) = <<>>
        BY <3>5 DEF PartOf
      <4>4. QED
        BY <2>12, <3>4, <4>2, <4>3
    <3>6. CASE y # NULL
      <4>1. g = H[y].tot_len
        BY <2>6, <3>6
      <4>2. g - o = e - off
        BY <2>7, <2>8, <3>2
      <4>3. PartOf(H, y, o, left) = [k \in 1 .. m |-> t[o + k]]
        BY <2>2, <2>10, <3>6, <4>1, <4>2 DEF PartOf
      <4>4. ASSUME NEW k \in 1 .. m
            PROVE  t[o + k] = s[off + k]
        <5>1. o + k \in 1 .. g
          <6>1. m \in Int /\ m <= e - off
            BY <2>7, <2>11
          <6>2. k \in Nat /\ k >= 1 /\ k <= e - off
            BY <2>7, <6>1
          <6>3. QED
            BY <2>8, <3>2, <4>2, <6>2
        <5>2. t[o + k] = s[l + (o + k)]
          BY <2>2, <2>3, <2>6, <3>6, <4>1, <5>1 DEF Continues
        <5>3. l + (o + k) = off + k
          BY <2>7, <3>2
        <5>4. QED
          BY <5>2, <5>3
      <4>5. QED
        BY <2>12, <3>4, <4>3, <4>4
    <3>7. QED
      BY <3>5, <3>6
  <2>16. CASE left # 0 /\ ~ (off # 0 /\ off >= l)
    <3>1. PICK n : n = Smaller(l - off, left)
      OBVIOUS
    <3>2. n = IF l - off < left THEN l - off ELSE left
      BY <3>1 DEF Smaller
    <3>3. off <= l
      BY <2>7, <2>16
    <3>4. n \in Nat /\ off + n <= l /\ left - n \in Nat
      BY <2>7, <3>2, <3>3
    <3>5. PICK w : w = left - n
      OBVIOUS
    <3>6. PICK a, b, f : a = SubSeq(Payload(H, q), off + 1, off + n) /\ b = PartOf(H, y, 0, w)
                         /\ f = [k \in 1 .. m |-> s[off + k]]
      OBVIOUS
    <3>7. CopiedTurn(H, AllParts(H), q, off, left) = a \o b
      <4>1. CopiedTurn(H, AllParts(H), q, off, left) = a \o AllParts(H)[<<y, 0, w>>]
        BY <1>2, <2>2, <2>6, <2>16, <3>1, <3>5, <3>6 DEF CopiedTurn
      <4>2. AllParts(H)[<<y, 0, w>>] = b
        BY <2>13, <3>4, <3>5, <3>6
      <4>3. QED
        BY <4>1, <4>2
    <3>8. a \in Seq(A) /\ Len(a) = n /\ \A k \in 1 .. n : a[k] = s[off + k]
      <4>1. PICK x : x = Payload(H, q)
        OBVIOUS
      <4>2. x \in Seq(A) /\ Len(x) = l
        <5>1. IsPbuf(H[q]) /\ Buffered(H[q]) /\ H[q].mem \in Seq(A)
          BY <2>7
        <5>2. Payload(H, q) \in Seq(A) /\ Len(Payload(H, q)) = H[q].len
          BY <5>1, PayloadBytes
        <5>3. QED
          BY <2>6, <4>1, <5>2
      <4>3. off + n <= Len(x)
        BY <3>4, <4>2
      <4>4. n \in Nat
        BY <3>4
      <4>5. /\ SubSeq(x, off + 1, off + n) \in Seq(A) /\ Len(SubSeq(x, off + 1, off + n)) = n
            /\ \A k \in 1 .. n : off + k \in 1 .. Len(x) /\ SubSeq(x, off + 1, off + n)[k] = x[off + k]
        BY <4>2, <4>3, <4>4, PartIs, ZenonT(60)
      <4>6. \A k \in 1 .. l : s[k] = x[k]
        BY <2>3, <2>6, <4>1 DEF Continues
      <4>7. \A k \in 1 .. n : off + k \in 1 .. l /\ SubSeq(x, off + 1, off + n)[k] = x[off + k]
        BY <4>2, <4>5
      <4>8. \A k \in 1 .. n : SubSeq(x, off + 1, off + n)[k] = s[off + k]
        BY <4>6, <4>7, Zenon
      <4>9. a = SubSeq(x, off + 1, off + n)
        BY <3>6, <4>1
      <4>10. QED
        BY <4>5, <4>8, <4>9, Zenon
    <3>9. PICK v : v = m - n
      OBVIOUS
    <3>10. v \in Nat /\ m = n + v /\ v = (IF w < g THEN w ELSE g)
      <4>1. CASE l - off < left
        <5>1. n = l - off
          BY <3>2, <4>1
        <5>2. left < e - off <=> w < g
          BY <2>7, <2>8, <3>5, <5>1
        <5>3. v = (IF w < g THEN w ELSE g)
          BY <2>7, <2>8, <2>11, <3>5, <3>9, <5>1, <5>2
        <5>4. w \in Nat /\ m = n + v
          <6>1. m \in Int
            BY <2>7, <2>11
          <6>2. QED
            BY <3>4, <3>5, <3>9, <6>1
        <5>5. QED
          BY <2>8, <5>3, <5>4
      <4>2. CASE ~ (l - off < left)
        <5>1. n = left
          BY <3>2, <4>2
        <5>2. w = 0
          BY <3>5, <5>1
        <5>3. m = left
          BY <2>7, <2>8, <2>11, <4>2
        <5>4. v = 0
          BY <3>9, <5>1, <5>3
        <5>5. QED
          BY <2>8, <5>1, <5>2, <5>3, <5>4
      <4>3. QED
        BY <4>1, <4>2
    <3>11. b \in Seq(A) /\ Len(b) = v /\ \A k \in 1 .. v : b[k] = s[l + k]
      <4>1. CASE y = NULL
        <5>1. b = <<>> /\ g = 0
          BY <2>6, <3>6, <4>1 DEF PartOf
        <5>2. v = 0
          BY <3>4, <3>5, <3>10, <5>1
        <5>3. QED
          BY <5>1, <5>2
      <4>2. CASE y # NULL
        <5>1. g = H[y].tot_len /\ y \in DOMAIN H
          BY <2>6, <2>9, <4>2
        <5>2. v = Smaller(w, H[y].tot_len - 0)
          <6>1. g - 0 = g
            BY <2>8
          <6>2. QED
            BY <3>10, <5>1, <6>1 DEF Smaller
        <5>3. b = [k \in 1 .. v |-> t[0 + k]]
          BY <2>2, <3>6, <4>2, <5>2 DEF PartOf
        <5>4. \A k \in 1 .. v : 0 + k = k /\ k \in 1 .. g
          BY <2>8, <3>4, <3>5, <3>10
        <5>5. \A k \in 1 .. g : t[k] = s[l + k]
          BY <2>2, <2>3, <2>6, <4>2, <5>1 DEF Continues
        <5>6. t \in Seq(A) /\ Len(t) = g
          BY <2>2, <5>1, ContentIs
        <5>7. \A k \in 1 .. g : t[k] \in A
          BY <5>6
        <5>8. b = [k \in 1 .. v |-> t[k]]
          BY <5>3, <5>4
        <5>9. b \in [1 .. v -> A]
          BY <5>4, <5>7, <5>8
        <5>10. b \in Seq(A) /\ Len(b) = v
          BY <3>10, <5>9, FunctionsAreSeqs
        <5>11. QED
          BY <5>4, <5>5, <5>8, <5>10
      <4>3. QED
        BY <4>1, <4>2
    <3>12. a \o b = f
      <4>1. m = Len(a) + Len(b) /\ f = [k \in 1 .. m |-> f[k]]
        BY <3>6, <3>8, <3>10, <3>11
      <4>2. \A k \in 1 .. Len(a) : f[k] = a[k]
        <5>1. \A k \in 1 .. n : k \in 1 .. m
          BY <3>4, <3>10
        <5>2. \A k \in 1 .. n : f[k] = s[off + k]
          BY <3>6, <5>1
        <5>3. QED
          BY <3>8, <5>2
      <4>3. \A k \in 1 .. Len(b) : f[Len(a) + k] = b[k]
        <5>1. ASSUME NEW k \in 1 .. v
              PROVE  f[n + k] = b[k]
          <6>1. n + k \in 1 .. m
            BY <3>4, <3>10
          <6>2. f[n + k] = s[off + (n + k)]
            BY <3>6, <6>1
          <6>3. n = l - off
            <7>1. v # 0 /\ w # 0
              BY <3>4, <3>5, <3>10, <2>8
            <7>2. n # left
              BY <3>4, <3>5, <7>1
            <7>3. QED
              BY <3>2, <7>2
          <6>4. off + (n + k) = l + k
            BY <2>7, <3>10, <6>3
          <6>5. QED
            BY <3>11, <6>2, <6>4
        <5>2. QED
          BY <3>8, <3>11, <5>1
      <4>4. a \in Seq(A) /\ b \in Seq(A)
        BY <3>8, <3>11
      <4>5. HasParts(f, a, b)
        BY <4>1, <4>2, <4>3 DEF HasParts
      <4>6. QED
        BY <4>4, <4>5, JoinedParts
    <3>13. QED
      BY <2>12, <3>6, <3>7, <3>12
  <2>17. QED
    BY <2>6, <2>14, <2>15, <2>16
<1>3. QED
  BY <1>1, <1>2

\* The turns of the loop on a linked heap have one outcome: chains end.
LEMMA CopyIsUnique ==
  ASSUME NEW H, Linked(H), NEW f, Copied(H, f), NEW g, Copied(H, g)
  PROVE  f = g
<1> DEFINE D == DOMAIN H \cup {NULL}
           Same(q) == \A off \in Nat, left \in Nat : f[<<q, off, left>>] = g[<<q, off, left>>]
           S == {q \in DOMAIN H : ~ Same(q)}
<1>1. ASSUME NEW q \in DOMAIN H, H[q].next # NULL => Same(H[q].next)
      PROVE  Same(q)
  <2> HIDE DEF Same
  <2>1. ASSUME NEW off \in Nat, NEW left \in Nat
        PROVE  f[<<q, off, left>>] = g[<<q, off, left>>]
    <3>1. f[<<q, off, left>>] = CopiedTurn(H, f, q, off, left) /\ g[<<q, off, left>>] = CopiedTurn(H, g, q, off, left)
      BY CopiedAt
    <3>2. PICK y, l : y = H[q].next /\ l = H[q].len
      OBVIOUS
    <3>3. l \in Nat /\ y \in D
      BY <3>2 DEF Linked, IsPbuf
    <3>4. \A o \in Nat, w \in Nat : f[<<y, o, w>>] = g[<<y, o, w>>]
      <4>1. CASE y = NULL
        <5>1. \A o \in Nat, w \in Nat : CopiedTurn(H, f, y, o, w) = <<>> /\ CopiedTurn(H, g, y, o, w) = <<>>
          BY <4>1 DEF CopiedTurn
        <5>2. \A o \in Nat, w \in Nat : /\ f[<<y, o, w>>] = CopiedTurn(H, f, y, o, w)
                                        /\ g[<<y, o, w>>] = CopiedTurn(H, g, y, o, w)
          BY <3>3, CopiedAt
        <5>3. QED
          BY <5>1, <5>2
      <4>2. CASE y # NULL
        BY <1>1, <3>2, <4>2 DEF Same
      <4>3. QED
        BY <4>1, <4>2
    <3>5. CASE left # 0 /\ off # 0 /\ off >= l
      <4>1. off - l \in Nat
        BY <3>3, <3>5
      <4>2. f[<<y, off - l, left>>] = g[<<y, off - l, left>>]
        BY <3>4, <4>1
      <4>3. QED
        BY <3>1, <3>2, <3>5, <4>2 DEF CopiedTurn
    <3>6. CASE left # 0 /\ ~ (off # 0 /\ off >= l)
      <4>1. PICK n : n = Smaller(l - off, left)
        OBVIOUS
      <4>2. n = IF l - off < left THEN l - off ELSE left
        BY <4>1 DEF Smaller
      <4>3. left - n \in Nat /\ 0 \in Nat
        BY <3>3, <3>6, <4>2
      <4>4. f[<<y, 0, left - n>>] = g[<<y, 0, left - n>>]
        BY <3>4, <4>3
      <4>5. QED
        BY <3>1, <3>2, <3>6, <4>1, <4>4 DEF CopiedTurn
    <3>7. CASE left = 0
      BY <3>1, <3>7 DEF CopiedTurn
    <3>8. QED
      BY <3>5, <3>6, <3>7
  <2>2. QED
    BY <2>1 DEF Same
<1>2. S = {}
  <2>1. ASSUME S # {}
        PROVE  FALSE
    <3>1. PICK q \in S : H[q].next \notin S
      <4> HIDE DEF Same
      <4>1. S \subseteq DOMAIN H
        OBVIOUS
      <4>2. QED
        BY <2>1, <4>1 DEF Linked, Grounded
    <3> HIDE DEF Same
    <3>2. H[q].next # NULL => Same(H[q].next)
      BY <3>1 DEF Linked
    <3>3. QED
      BY <1>1, <3>1, <3>2
  <2>2. QED
    BY <2>1
<1>3. \A q \in D : Same(q)
  <2>1. \A q \in DOMAIN H : Same(q)
    <3> HIDE DEF Same
    <3>1. QED
      BY <1>2
  <2>2. Same(NULL)
    <3>1. \A o \in Nat, w \in Nat : CopiedTurn(H, f, NULL, o, w) = <<>> /\ CopiedTurn(H, g, NULL, o, w) = <<>>
      BY DEF CopiedTurn
    <3>2. \A o \in Nat, w \in Nat : /\ f[<<NULL, o, w>>] = CopiedTurn(H, f, NULL, o, w)
                                    /\ g[<<NULL, o, w>>] = CopiedTurn(H, g, NULL, o, w)
      BY CopiedAt
    <3>3. QED
      BY <3>1, <3>2
  <2> HIDE DEF Same
  <2>3. QED
    BY <2>1, <2>2
<1>4. /\ f = [at \in D \X Nat \X Nat |-> f[<<at[1], at[2], at[3]>>]]
      /\ g = [at \in D \X Nat \X Nat |-> g[<<at[1], at[2], at[3]>>]]
  <2>1. \A at \in D \X Nat \X Nat : at = <<at[1], at[2], at[3]>>
    OBVIOUS
  <2>2. DOMAIN f = D \X Nat \X Nat /\ f = [at \in D \X Nat \X Nat |-> f[at]]
    BY DEF Copied
  <2>3. DOMAIN g = D \X Nat \X Nat /\ g = [at \in D \X Nat \X Nat |-> g[at]]
    BY DEF Copied
  <2>4. QED
    BY <2>1, <2>2, <2>3
<1>5. QED
  <2>1. \A q \in D, off \in Nat, left \in Nat : f[<<q, off, left>>] = g[<<q, off, left>>]
    <3> HIDE DEF D, S
    <3>1. QED
      BY <1>3, Zenon DEF Same
  <2> HIDE DEF D, Same, S
  <2>2. QED
    BY <1>4, <2>1, Zenon

\* pbuf_copy_partial() copies that part of what the chain holds.
LEMMA CopyPartialIs ==
  ASSUME NEW A, NEW H, NEW h, HeapOk(H, h), MemoryOf(H, A), NEW p \in DOMAIN H,
         NEW left \in Nat, NEW off \in Nat
  PROVE  CopyPartial(H, p, left, off) = PartOf(H, p, off, left)
<1>1. Copied(H, AllParts(H))
  <2>1. \A q \in DOMAIN H \cup {NULL}, o \in Nat, w \in Nat :
          CopiedTurn(H, AllParts(H), q, o, w) = PartOf(H, q, o, w)
    BY PartsAreCopied
  <2>2. \A at \in (DOMAIN H \cup {NULL}) \X Nat \X Nat :
          CopiedTurn(H, AllParts(H), at[1], at[2], at[3]) = PartOf(H, at[1], at[2], at[3])
    BY <2>1
  <2>3. QED
    BY <2>2 DEF Copied, AllParts
<1>2. (CHOOSE f : Copied(H, f)) = AllParts(H)
  <2>1. Copied(H, CHOOSE f : Copied(H, f))
    BY <1>1, Zenon
  <2>2. Linked(H)
    BY DEF HeapOk
  <2>3. QED
    BY <1>1, <2>1, <2>2, CopyIsUnique
<1>3. CopyPartial(H, p, left, off) = (CHOOSE f : Copied(H, f))[<<p, off, left>>]
  BY DEF CopyPartial, Copied, CopiedTurn
<1>4. QED
  BY <1>2, <1>3, AllPartsAt

\* One byte.
LEMMA CopyByte ==
  ASSUME NEW A, NEW H, NEW h, HeapOk(H, h), MemoryOf(H, A), NEW p \in DOMAIN H, NEW off \in Nat
  PROVE  /\ off < H[p].tot_len => CopyPartial(H, p, 1, off) = <<Content(H, p)[off + 1]>>
         /\ ~ (off < H[p].tot_len) => CopyPartial(H, p, 1, off) = <<>>
<1>1. PICK t, s : t = H[p].tot_len /\ s = Content(H, p)
  OBVIOUS
<1>2. t \in Nat /\ p # NULL
  BY <1>1, ConstantsAssumption DEF HeapOk, Linked, IsPbuf, ConstantsAssumption
<1>3. PICK n : n = Smaller(1, t - off)
  OBVIOUS
<1>4. CopyPartial(H, p, 1, off) = [k \in 1 .. n |-> s[off + k]]
  <2>1. CopyPartial(H, p, 1, off) = PartOf(H, p, off, 1)
    BY CopyPartialIs
  <2>2. QED
    BY <1>1, <1>2, <1>3, <2>1 DEF PartOf
<1>5. CASE off < t
  <2>1. n = 1
    BY <1>2, <1>3, <1>5 DEF Smaller
  <2>2. [k \in 1 .. 1 |-> s[off + k]] = <<s[off + 1]>>
    OBVIOUS
  <2>3. QED
    BY <1>1, <1>4, <1>5, <2>1, <2>2
<1>6. CASE ~ (off < t)
  <2>1. 1 .. n = {}
    BY <1>2, <1>3, <1>6 DEF Smaller
  <2>2. [k \in {} |-> s[off + k]] = <<>>
    OBVIOUS
  <2>3. CopyPartial(H, p, 1, off) = <<>>
    BY <1>4, <2>1, <2>2
  <2>4. QED
    BY <1>1, <1>6, <2>3
<1>7. QED
  BY <1>5, <1>6

-----------------------------------------------------------------------------
(* The bytes of memory.                                                    *)

\* A struct whose memory is of A.
IsPlain(b, A) == "mem" \in DOMAIN b /\ b.mem \in Seq(A)
Plain(H, A) == \A q \in DOMAIN H : IsPlain(H[q], A)

\* The structs of a heap whose memory is of A are plain,
LEMMA PlainIs ==
  ASSUME NEW A, NEW H, Structs(H), MemoryOf(H, A)
  PROVE  Plain(H, A)
<1>1. \A q \in DOMAIN H : IsPbuf(H[q])
  BY DEF Structs
<1>2. \A q \in DOMAIN H : H[q].mem \in Seq(A)
  BY DEF MemoryOf
<1>3. QED
  BY <1>1, <1>2 DEF Plain, IsPlain, IsPbuf

\* and the other way round.
LEMMA PlainMemory ==
  ASSUME NEW A, NEW H, Plain(H, A)
  PROVE  MemoryOf(H, A)
BY DEF Plain, IsPlain, MemoryOf

\* What changes other fields keeps the memory.
LEMMA FieldsChange ==
  ASSUME NEW A, NEW b, IsPlain(b, A), NEW x, NEW y, NEW z
  PROVE  /\ IsPlain([b EXCEPT !.ref = x], A)
         /\ IsPlain([b EXCEPT !.tot_len = x], A)
         /\ IsPlain([b EXCEPT !.tot_len = x, !.next = y], A)
         /\ IsPlain([b EXCEPT !.payload = x, !.len = y, !.tot_len = z], A)
BY DEF IsPlain

\* pbuf_free() keeps the memory of what stays.
LEMMA FreedPlain ==
  ASSUME NEW A, NEW H, Plain(H, A), NEW p
  PROVE  Plain(Freed(H, p), A)
<1>1. \E D \in SUBSET DOMAIN H : \E y : \/ Freed(H, p) = Restrict(H, D)
                                       \/ Freed(H, p) = [Restrict(H, D) EXCEPT ![y].ref = @ - 1]
  <2>1. PICK c : c = Chain(H, p)
    OBVIOUS
  <2>2. PICK last : last = LeastOf({i \in DOMAIN c : H[c[i]].ref # 1}, Len(c) + 1)
    OBVIOUS
  <2>3. PICK D : D = DOMAIN H \ {c[i] : i \in 1 .. last - 1}
    OBVIOUS
  <2>4. Freed(H, p) = IF last > Len(c) THEN Restrict(H, D)
                      ELSE [Restrict(H, D) EXCEPT ![c[last]].ref = @ - 1]
    BY <2>1, <2>2, <2>3 DEF Freed
  <2>5. D \in SUBSET DOMAIN H
    BY <2>3
  <2>6. QED
    BY <2>4, <2>5
<1>2. PICK D, y : /\ D \in SUBSET DOMAIN H
                  /\ \/ Freed(H, p) = Restrict(H, D)
                     \/ Freed(H, p) = [Restrict(H, D) EXCEPT ![y].ref = @ - 1]
  BY <1>1
<1>3. PICK G : G = Restrict(H, D)
  OBVIOUS
<1>4. DOMAIN G = D /\ \A q \in D : G[q] = H[q]
  BY <1>3 DEF Restrict
<1>5. \A q \in D : IsPlain(G[q], A)
  BY <1>2, <1>4 DEF Plain
<1>6. Plain(G, A)
  BY <1>4, <1>5 DEF Plain
<1>7. Plain([G EXCEPT ![y].ref = @ - 1], A)
  <2>1. PICK F : F = [G EXCEPT ![y].ref = @ - 1]
    OBVIOUS
  <2>2. DOMAIN F = D /\ \A q \in D : F[q] = IF q = y THEN [G[q] EXCEPT !.ref = @ - 1] ELSE G[q]
    BY <1>4, <2>1
  <2>3. \A q \in D : IsPlain([G[q] EXCEPT !.ref = @ - 1], A)
    BY <1>5 DEF IsPlain
  <2>4. Plain(F, A)
    BY <1>5, <2>2, <2>3 DEF Plain
  <2>5. QED
    BY <2>1, <2>4
<1>8. QED
  BY <1>2, <1>3, <1>6, <1>7, SMTT(30)

\* A new pbuf.
LEMMA AllocedPlain ==
  ASSUME NEW A, 0 \in A, NEW contiguous, NEW headroom \in Nat, NEW bytes \in Seq(A), NEW tot_len
  PROVE  IsPlain(Alloced(contiguous, headroom, bytes, tot_len), A)
<1>1. Fresh(headroom) \in Seq(A)
  <2>1. Fresh(headroom) \in [1 .. headroom -> A]
    BY DEF Fresh
  <2>2. QED
    BY <2>1, FunctionsAreSeqs
<1>2. Fresh(headroom) \o bytes \in Seq(A)
  BY <1>1
<1>3. QED
  BY <1>2 DEF Alloced, IsPlain

\* A new pbuf is plain.
LEMMA FreshPlain ==
  ASSUME NEW A, 0 \in A, NEW contiguous, NEW headroom \in Nat, NEW n \in Nat, NEW tot_len
  PROVE  IsPlain(Alloced(contiguous, headroom, Fresh(n), tot_len), A)
<1>1. Fresh(n) \in [1 .. n -> A]
  BY DEF Fresh
<1>2. Fresh(n) \in Seq(A)
  BY <1>1, FunctionsAreSeqs
<1>3. QED
  BY <1>2, AllocedPlain

\* So is the heap with it.
LEMMA WithPlain ==
  ASSUME NEW A, NEW H, Plain(H, A), NEW p, NEW b, IsPlain(b, A)
  PROVE  Plain(With(H, p, b), A)
<1>1. PICK G : G = With(H, p, b)
  OBVIOUS
<1>2. DOMAIN G = DOMAIN H \cup {p} /\ \A q \in DOMAIN H \cup {p} : G[q] = IF q = p THEN b ELSE H[q]
  BY <1>1 DEF With
<1>3. \A q \in DOMAIN H \cup {p} : IsPlain(G[q], A)
  BY <1>2 DEF Plain
<1>4. QED
  BY <1>1, <1>2, <1>3 DEF Plain

\* One pbuf may be exchanged.
LEMMA ChangedPlain ==
  ASSUME NEW A, NEW H, Plain(H, A), NEW p, NEW b, p \in DOMAIN H => IsPlain(b, A)
  PROVE  Plain([H EXCEPT ![p] = b], A)
<1>1. PICK G : G = [H EXCEPT ![p] = b]
  OBVIOUS
<1>2. DOMAIN G = DOMAIN H /\ \A q \in DOMAIN H : G[q] = IF q = p THEN b ELSE H[q]
  BY <1>1
<1>3. \A q \in DOMAIN H : IsPlain(G[q], A)
  BY <1>2 DEF Plain
<1>4. QED
  BY <1>1, <1>2, <1>3 DEF Plain

\* pbuf_header().
LEMMA HeaderPlain ==
  ASSUME NEW A, NEW H, Plain(H, A), NEW p, NEW n, NEW force
  PROVE  Plain(HeaderMoved(H, p, n, force), A) /\ Plain(HeaderRemoved(H, p, n), A)
<1>1. ASSUME NEW k
      PROVE  Plain(HeaderRemoved(H, p, k), A)
  <2>1. PICK G : G = [H EXCEPT ![p].payload = @ + k, ![p].len = @ - k,
                               ![p].tot_len = (@ - k) % Width]
    OBVIOUS
  <2>2. Plain(G, A)
    BY <2>1 DEF Plain, IsPlain
  <2>3. HeaderRemoved(H, p, k) = H \/ HeaderRemoved(H, p, k) = G
    BY <2>1 DEF HeaderRemoved
  <2>4. QED
    BY <2>2, <2>3
<1>2. Plain(HeaderAdded(H, p, n, force), A)
  <2>1. PICK G : G = [H EXCEPT ![p].payload = @ - n, ![p].len = @ + n, ![p].tot_len = @ + n]
    OBVIOUS
  <2>2. Plain(G, A)
    BY <2>1 DEF Plain, IsPlain
  <2>3. HeaderAdded(H, p, n, force) = H \/ HeaderAdded(H, p, n, force) = G
    BY <2>1 DEF HeaderAdded
  <2>4. QED
    BY <2>2, <2>3
<1>3. QED
  BY <1>1, <1>2 DEF HeaderMoved

\* pbuf_ref().
LEMMA RefPlain ==
  ASSUME NEW A, NEW H, Plain(H, A), NEW p
  PROVE  Plain([H EXCEPT ![p].ref = @ + 1], A)
<1>1. PICK G : G = [H EXCEPT ![p].ref = @ + 1]
  OBVIOUS
<1>2. Plain(G, A)
  BY <1>1 DEF Plain, IsPlain
<1>3. QED
  BY <1>1, <1>2

\* pbuf_cat().
LEMMA CatPlain ==
  ASSUME NEW A, NEW H, Plain(H, A), NEW p, NEW t
  PROVE  Plain(Concatenated(H, p, t), A)
<1>1. PICK G : G = Concatenated(H, p, t)
  OBVIOUS
<1>2. PICK c : c = ToSet(Chain(H, p))
  OBVIOUS
<1>3. G = [q \in DOMAIN H |-> IF q \notin c THEN H[q] ELSE Longer(H[q], t, H[t].tot_len)]
  <2>1. G = [q \in DOMAIN H |-> IF q \notin ToSet(Chain(H, p)) THEN H[q]
                                ELSE Longer(H[q], t, H[t].tot_len)]
    BY <1>1, ZenonT(60) DEF Concatenated, Longer
  <2>2. QED
    BY <1>2, <2>1
<1>4. \A q \in DOMAIN H : IsPlain(Longer(H[q], t, H[t].tot_len), A)
  <2>1. ASSUME NEW b, IsPlain(b, A), NEW n
        PROVE  IsPlain(Longer(b, t, n), A)
    BY <2>1 DEF Longer, IsPlain
  <2>2. QED
    BY <2>1 DEF Plain
<1>5. Plain(G, A)
  BY <1>3, <1>4 DEF Plain
<1>6. QED
  BY <1>1, <1>5

\* pbuf_dechain().
LEMMA DechainPlain ==
  ASSUME NEW A, NEW H, Plain(H, A), NEW p, NEW q, NEW n, NEW m
  PROVE  Plain([H EXCEPT ![p].next = NULL, ![p].tot_len = n, ![q].tot_len = m], A)
<1>1. PICK G : G = [H EXCEPT ![p].next = NULL, ![p].tot_len = n, ![q].tot_len = m]
  OBVIOUS
<1>2. Plain(G, A)
  BY <1>1 DEF Plain, IsPlain
<1>3. QED
  BY <1>1, <1>2

\* Pbufs that are left over.
LEMMA RestPlain ==
  ASSUME NEW A, NEW H, Plain(H, A), NEW D
  PROVE  Plain(Restrict(H, DOMAIN H \ D), A)
<1>1. PICK G : G = Restrict(H, DOMAIN H \ D)
  OBVIOUS
<1>2. G = [q \in DOMAIN H \ D |-> H[q]]
  BY <1>1 DEF Restrict
<1>3. Plain(G, A)
  BY <1>2 DEF Plain
<1>4. QED
  BY <1>1, <1>3

\* pbuf_free_header().
LEMMA FreeHeaderPlain ==
  ASSUME NEW A, Plain(pbufs, A), NEW p, NEW n, FreeHeader(p, n)
  PROVE  Plain(pbufs', A)
<1>1. PICK G : G = Restrict(pbufs, DOMAIN pbufs \ Covered(pbufs, p, n))
  OBVIOUS
<1>2. Plain(G, A)
  BY <1>1, RestPlain
<1>3. \E q, m : pbufs' = G \/ pbufs' = HeaderRemoved(G, q, m)
  BY <1>1 DEF FreeHeader
<1>4. QED
  BY <1>2, <1>3, HeaderPlain

\* The last pbuf of a chain that gets shorter.
LEMMA EndedPlain ==
  ASSUME NEW A, NEW b, IsPbuf(b), Buffered(b), b.mem \in Seq(A), NEW rem \in 0 .. b.len
  PROVE  IsPlain(Ended(b, rem), A)
<1>1. b.payload \in Nat /\ b.len \in Nat /\ b.payload + b.len <= Len(b.mem)
  BY DEF IsPbuf, Buffered
<1>2. PICK n : n = b.payload + rem
  OBVIOUS
<1>3. n \in Nat /\ n <= Len(b.mem)
  <2>1. PICK x, y, z : x = b.payload /\ y = b.len /\ z = Len(b.mem)
    OBVIOUS
  <2>2. x \in Nat /\ y \in Nat /\ z \in Nat /\ x + y <= z /\ rem \in 0 .. y /\ n = x + rem
    BY <1>1, <1>2, <2>1
  <2>3. n \in Nat /\ n <= z
    BY <2>2
  <2>4. QED
    BY <2>1, <2>3
<1>4. SubSeq(b.mem, 1, n) \in Seq(A)
  BY <1>3
<1>5. "mem" \in DOMAIN b
  BY DEF IsPbuf
<1>6. PICK d : d = Ended(b, rem)
  OBVIOUS
<1>7. "mem" \in DOMAIN d /\ d.mem = SubSeq(b.mem, 1, n)
  BY <1>2, <1>5, <1>6 DEF Ended
<1>8. QED
  BY <1>4, <1>6, <1>7 DEF IsPlain

\* pbuf_realloc().
LEMMA ReallocPlain ==
  ASSUME NEW A, NEW H, NEW h, HeapOk(H, h), MemoryOf(H, A), NEW p \in DOMAIN H,
         NEW new_len \in Nat
  PROVE  Plain(Realloced(H, p, new_len), A)
<1>1. Linked(H) /\ Summed(H) /\ Structs(H)
  <2>1. Linked(H) /\ Summed(H)
    BY DEF HeapOk
  <2>2. QED
    BY <2>1 DEF HeapOk, Linked, Structs
<1>2. Plain(H, A)
  BY <1>1, PlainIs
<1>3. CASE new_len >= H[p].tot_len
  <2>1. Realloced(H, p, new_len) = H
    BY <1>3, ZenonT(60) DEF Realloced
  <2>2. QED
    BY <1>2, <2>1
<1>4. CASE ~ (new_len >= H[p].tot_len)
  <2>1. PICK c : c = Chain(H, p)
    OBVIOUS
  <2>3. IsChain(H, p, c)
    BY <1>1, <2>1, ChainIs
  <2>4. LengthsAlong(H, p, c) /\ BeforeGrows(H, c)
    BY <1>1, <2>3, LengthsAre
  <2>5. new_len < H[p].tot_len
    BY <1>1, <1>4 DEF Structs, IsPbuf
  <2>6. PICK last : last = End(H, c, new_len)
    OBVIOUS
  <2>7. DOMAIN c = 1 .. Len(c) /\ Len(c) \in Nat /\ \A i \in 1 .. Len(c) : c[i] \in DOMAIN H
    BY <2>3 DEF IsChain, LinkedFrom
  <2>8. EndsIn(H, c, new_len, last)
    <3>1. PICK k : EndsIn(H, c, new_len, k)
      BY <1>1, <2>3, <2>4, <2>5, EndExists
    <3>2. QED
      BY <2>6, <2>7, <3>1 DEF EndsIn, End
  <2>9. PICK G, shrink : shrink = H[p].tot_len - new_len
                         /\ G = Shortened(H, c, new_len, last, shrink)
    OBVIOUS
  <2>10. Realloced(H, p, new_len) = IF last = Len(c) THEN G ELSE Freed(G, c[last + 1])
    BY <1>4, <2>1, <2>6, <2>9, ReallocedIs
  <2>11. ShortenedPbufs(H, G, c, new_len, last)
    BY <1>1, <2>3, <2>4, <2>5, <2>8, <2>9, ShortenedIs
  <2>12. PICK rem : rem = new_len - Before(H, c, last)
    OBVIOUS
  <2>13. last \in 1 .. Len(c) /\ c[last] \in DOMAIN H
    BY <2>7, <2>8 DEF EndsIn
  <2>14. rem \in 0 .. H[c[last]].len
    <3>1. rem \in Nat
      BY <2>11, <2>12 DEF ShortenedPbufs, Becomes, IsPbuf
    <3>2. Before(H, c, last) \in Nat /\ H[c[last]].len \in Nat
          /\ Before(H, c, last) + H[c[last]].len >= new_len
      BY <1>1, <2>4, <2>8, <2>13 DEF EndsIn, BeforeGrows, Structs, IsPbuf
    <3>3. QED
      BY <2>12, <3>1, <3>2
  <2>15. IsPlain(Ended(H[c[last]], rem), A)
    BY <1>1, <2>13, <2>14, EndedPlain DEF Structs, MemoryOf
  <2>16. G = [q \in DOMAIN H |->
                IF q \in First(c, last - 1) THEN [H[q] EXCEPT !.tot_len = (@ - shrink) % Width]
                ELSE IF q = c[last] THEN Ended(H[q], rem)
                ELSE H[q]]
    BY <2>9, <2>12 DEF Shortened
  <2>17. \A q \in DOMAIN H : IsPlain([H[q] EXCEPT !.tot_len = (@ - shrink) % Width], A)
    BY <1>2 DEF Plain, IsPlain
  <2>18. \A q \in DOMAIN H : IsPlain(G[q], A)
    BY <1>2, <2>15, <2>16, <2>17 DEF Plain
  <2>19. Plain(G, A)
    BY <2>16, <2>18 DEF Plain
  <2>20. QED
    BY <2>10, <2>19, FreedPlain
<1>5. QED
  BY <1>3, <1>4

\* The memory of a heap that pool pbufs are added to: T, in its parts.
LEMMA PoolPlain ==
  ASSUME NEW A, 0 \in A, NEW H, Plain(H, A), NEW layer \in Layers, NEW length \in 0 .. MaxLen,
         NEW n, PoolFits(layer, length, n), NEW addr, addr \in Seq(Addresses), Len(addr) <= n,
         NEW T, T = WithPoolChain(H, layer, length, addr)
  PROVE  Plain(T, A)
<1>1. PICK m : m = Len(addr)
  OBVIOUS
<1>2. m \in Nat /\ n \in Nat /\ m <= n /\ DOMAIN addr = 1 .. m
  BY <1>1 DEF PoolFits
<1>3. T = [p \in DOMAIN H \cup ToSet(addr) |->
             IF p \in ToSet(addr)
             THEN Taken(layer, length, addr, CHOOSE i \in DOMAIN addr : addr[i] = p)
             ELSE H[p]]
  BY DEF WithPoolChain, Taken, TakenLen, Left, Room
<1>4. ASSUME NEW i \in 1 .. m
      PROVE  IsPlain(Taken(layer, length, addr, i), A)
  <2>1. i \in 1 .. n
    BY <1>2
  <2>2. IsTaken(Taken(layer, length, addr, i), addr, i, TakenLen(layer, length, i),
                Left(layer, length, i))
    BY <2>1, TakenIs
  <2>3. TakenLen(layer, length, i) \in Nat
    BY <2>2 DEF IsTaken, IsPbuf
  <2>4. PICK headroom : headroom = IF i = 1 THEN Align(layer) ELSE 0
    OBVIOUS
  <2>5. headroom \in Nat
    BY <2>4, RoomIs
  <2>6. PICK b : b = Alloced(TRUE, headroom, Fresh(TakenLen(layer, length, i)),
                             Left(layer, length, i))
    OBVIOUS
  <2>7. IsPlain(b, A)
    BY <2>3, <2>5, <2>6, FreshPlain
  <2>8. PICK x : x = IF i < Len(addr) THEN addr[i + 1] ELSE NULL
    OBVIOUS
  <2>9. Taken(layer, length, addr, i) = [b EXCEPT !.next = x]
    BY <2>4, <2>6, <2>8 DEF Taken
  <2>10. IsPlain([b EXCEPT !.next = x], A)
    BY <2>7 DEF IsPlain
  <2>11. QED
    BY <2>9, <2>10
<1>5. ASSUME NEW p \in DOMAIN H \cup ToSet(addr)
      PROVE  IsPlain(T[p], A)
  <2>1. CASE p \in ToSet(addr)
    <3>1. PICK j : j = CHOOSE i \in DOMAIN addr : addr[i] = p
      OBVIOUS
    <3>2. \E i \in DOMAIN addr : addr[i] = p
      BY <2>1 DEF ToSet
    <3>3. j \in 1 .. m
      BY <1>2, <3>1, <3>2
    <3>4. T[p] = Taken(layer, length, addr, j)
      BY <1>3, <2>1, <3>1
    <3>5. QED
      BY <1>4, <3>3, <3>4
  <2>2. CASE p \notin ToSet(addr)
    BY <1>3, <2>2 DEF Plain
  <2>3. QED
    BY <2>1, <2>2
<1>6. DOMAIN T = DOMAIN H \cup ToSet(addr)
  BY <1>3
<1>7. QED
  BY <1>5, <1>6 DEF Plain

\* pbuf_alloc(), PBUF_POOL.
LEMMA AllocPoolPlain ==
  ASSUME NEW A, 0 \in A, Plain(pbufs, A), NEW layer \in Layers, NEW length \in 0 .. MaxLen,
         AllocPool(layer, length)
  PROVE  Plain(pbufs', A)
<1>1. PICK n : n = PoolCount(layer, length)
  OBVIOUS
<1>2. PICK k : k = Smaller(n, Cardinality(Unused))
  OBVIOUS
<1>3. PICK addr \in Orders(Unused, k) :
        LET T == WithPoolChain(pbufs, layer, length, addr)
        IN  pbufs' = T \/ pbufs' = Freed(T, addr[1])
  BY <1>1, <1>2 DEF AllocPool
<1>5. length \in Nat /\ PoolFits(layer, length, n) /\ n \in Nat
  <2>1. length \in Nat
    BY ConstantsAssumption DEF ConstantsAssumption
  <2>2. PoolFits(layer, length, n)
    BY <1>1, <2>1, PoolLengths
  <2>3. QED
    BY <2>1, <2>2 DEF PoolFits
<1>6. k \in Nat /\ k <= n
  <2>1. IsFiniteSet(Addresses)
    BY ConstantsAssumption DEF ConstantsAssumption
  <2>2. IsFiniteSet(Unused)
    BY <2>1, FS_Subset DEF Unused
  <2>3. Cardinality(Unused) \in Nat
    BY <2>2, FS_CardinalityType
  <2>4. QED
    BY <1>2, <1>5, <2>3 DEF Smaller
<1>7. addr \in [1 .. k -> Unused]
  BY <1>3 DEF Orders
<1>8. addr \in [1 .. k -> Addresses]
  BY <1>7 DEF Unused
<1>9. addr \in Seq(Addresses) /\ Len(addr) = k
  BY <1>6, <1>8, FunctionsAreSeqs
<1>10. PICK T : T = WithPoolChain(pbufs, layer, length, addr)
  OBVIOUS
<1>11. Plain(T, A)
  BY <1>5, <1>6, <1>9, <1>10, PoolPlain
<1>12. QED
  BY <1>3, <1>10, <1>11, FreedPlain

\* Where the loop of pbuf_copy_partial_pbuf() is, and what it has to do with memory.
CopyState(H, A, st) ==
  /\ SameShape(H, st.H) /\ MemoryOf(st.H, A)
  /\ st.err = "again" =>
       /\ st.to \in DOMAIN H /\ st.from \in DOMAIN H /\ st.left \in Nat
       /\ st.offsetTo \in 0 .. H[st.to].len /\ st.offsetFrom \in 0 .. H[st.from].len

\* A turn keeps it.
LEMMA CopyStateKept ==
  ASSUME NEW A, NEW H, Linked(H), Structs(H), NEW st, CopyState(H, A, st)
  PROVE  CopyState(H, A, CopyStep(st))
<1>1. CASE st.err # "again"
  BY <1>1 DEF CopyStep
<1>2. CASE st.err = "again"
  <2>1. PICK G, to, from, a, b, left :
          /\ G = st.H /\ to = st.to /\ from = st.from /\ a = st.offsetTo /\ b = st.offsetFrom
          /\ left = st.left
    OBVIOUS
  <2>2. SameShape(H, G) /\ MemoryOf(G, A) /\ to \in DOMAIN H /\ from \in DOMAIN H /\ left \in Nat
    BY <1>2, <2>1 DEF CopyState
  <2>3. PICK x, y : x = G[to].len /\ y = G[from].len
    OBVIOUS
  <2>4. x = H[to].len /\ y = H[from].len /\ x \in Nat /\ y \in Nat
        /\ G[to].next = H[to].next /\ G[from].next = H[from].next
    <3>1. ASSUME NEW q \in DOMAIN H
          PROVE  G[q].len = H[q].len /\ H[q].len \in Nat /\ G[q].next = H[q].next
      <4>1. IsPbuf(H[q]) /\ G[q] = [H[q] EXCEPT !.mem = G[q].mem]
        BY <2>2 DEF Structs, SameShape
      <4>2. QED
        BY <4>1 DEF IsPbuf
    <3>2. QED
      BY <2>2, <2>3, <3>1
  <2>5. a \in 0 .. x /\ b \in 0 .. y
    BY <1>2, <2>1, <2>4 DEF CopyState
  <2>6. PICK n : n = Smaller(left, Smaller(x - a, y - b))
    OBVIOUS
  <2>7. n \in Nat /\ n <= left /\ a + n <= x /\ b + n <= y /\ a \in Nat /\ b \in Nat
    BY <2>2, <2>4, <2>5, <2>6 DEF Smaller
  <2>8. PICK bytes : bytes = SubSeq(Payload(G, from), b + 1, b + n)
    OBVIOUS
  <2>9. PICK st2 : st2 = CopyTurn(st)
    OBVIOUS
  <2>10. PICK to2, from2 : /\ to2 = IF a + n = x THEN G[to].next ELSE to
                           /\ from2 = IF b + n >= y THEN G[from].next ELSE from
    OBVIOUS
  <2>11. PICK err : err = IF NULL \in {to2, from2} /\ left - n > 0 THEN "ARG"
               ELSE IF Queued(G, from2) \/ Queued(G, to2) THEN "VAL"
               ELSE IF left - n > 0 THEN "again" ELSE "OK"
    OBVIOUS
  <2>12. st2 = [H |-> Put(G, to, a, bytes), to |-> to2, from |-> from2, left |-> left - n,
                offsetTo |-> IF a + n = x THEN 0 ELSE a + n,
                offsetFrom |-> IF b + n >= y THEN 0 ELSE b + n, err |-> err]
    BY <2>1, <2>3, <2>6, <2>8, <2>9, <2>10, <2>11, ZenonT(60) DEF CopyTurn
  <2>13. Structs(G)
    BY <2>2, StructsStay
  <2>14. bytes \in Seq(A)
    <3>1. from \in DOMAIN G
      BY <2>2 DEF SameShape
    <3>2. IsPbuf(G[from]) /\ Buffered(G[from]) /\ G[from].mem \in Seq(A)
      BY <2>2, <2>13, <3>1 DEF Structs, MemoryOf
    <3>3. PICK s : s = Payload(G, from)
      OBVIOUS
    <3>4. s \in Seq(A) /\ Len(s) = G[from].len
      BY <3>2, <3>3, PayloadBytes
    <3>5. s \in Seq(A) /\ Len(s) = y
      BY <2>3, <3>4
    <3>6. QED
      BY <2>7, <2>8, <3>3, <3>5, PartIs
  <2>15. MemoryOf(st2.H, A)
    BY <2>2, <2>12, <2>13, <2>14, PutMemory
  <2>16. SameShape(H, st2.H)
    <3>1. SameShape(H, CopyStep(st).H)
      BY <2>1, <2>2, CopyStepKeepsShape
    <3>2. QED
      BY <1>2, <2>9, <3>1 DEF CopyStep
  <2>17. ASSUME st2.err = "again"
         PROVE  /\ st2.to \in DOMAIN H /\ st2.from \in DOMAIN H /\ st2.left \in Nat
                /\ st2.offsetTo \in 0 .. H[st2.to].len
                /\ st2.offsetFrom \in 0 .. H[st2.from].len
    <3>1. left - n > 0 /\ to2 # NULL /\ from2 # NULL
      BY <2>2, <2>7, <2>11, <2>12, <2>17
    <3>2. \A q \in DOMAIN H : H[q].next \in DOMAIN H \cup {NULL} /\ H[q].len \in Nat
      BY DEF Linked, IsPbuf
    <3>3. to2 \in DOMAIN H /\ from2 \in DOMAIN H
      BY <2>2, <2>4, <2>10, <3>1, <3>2
    <3>4. IF a + n = x THEN H[to2].len \in Nat ELSE a + n \in 0 .. H[to2].len
      BY <2>4, <2>7, <2>10, <3>2, <3>3
    <3>5. IF b + n >= y THEN H[from2].len \in Nat ELSE b + n \in 0 .. H[from2].len
      BY <2>4, <2>7, <2>10, <3>2, <3>3
    <3>6. st2.offsetTo \in 0 .. H[to2].len /\ st2.offsetFrom \in 0 .. H[from2].len
      BY <2>12, <3>4, <3>5
    <3>7. st2.left \in Nat
      BY <2>2, <2>7, <2>12, <3>1
    <3>8. QED
      BY <2>12, <3>3, <3>6, <3>7
  <2>18. CopyState(H, A, st2)
    BY <2>15, <2>16, <2>17 DEF CopyState
  <2>19. QED
    BY <1>2, <2>9, <2>18 DEF CopyStep
<1>3. QED
  BY <1>1, <1>2

\* pbuf_copy().
LEMMA CopyMemory ==
  ASSUME NEW A, NEW H, Linked(H), Structs(H), MemoryOf(H, A),
         NEW to \in DOMAIN H, NEW from \in DOMAIN H
  PROVE  MemoryOf(CopyPbuf(H, to, from).H, A)
<1>1. PICK turns, n : turns = Clen(H, to) + Clen(H, from) + 1 /\ n = H[from].tot_len
  OBVIOUS
<1>2. turns \in Nat /\ n \in Nat
  <2>1. Clen(H, to) \in Nat /\ Clen(H, from) \in Nat
    <3>1. \A p \in DOMAIN H : LinkedFrom(H, p, Chain(H, p))
      BY ChainLinks
    <3>2. Chain(H, to) \in Seq(DOMAIN H) /\ Chain(H, from) \in Seq(DOMAIN H)
      BY <3>1 DEF LinkedFrom
    <3>3. QED
      BY <3>2 DEF Clen
  <2>2. H[from].tot_len \in Nat
    BY ConstantsAssumption DEF Structs, IsPbuf, ConstantsAssumption
  <2>3. QED
    BY <1>1, <2>1, <2>2
<1>3. PICK start : start = [H |-> H, to |-> to, from |-> from, left |-> n, offsetTo |-> 0,
                            offsetFrom |-> 0, err |-> "again"]
  OBVIOUS
<1>4. PICK after : after = CHOOSE f : Copying(f, turns, start)
  OBVIOUS
<1>5. Copying(after, turns, start)
  BY <1>2, <1>4, CopyRuns
<1>6. CopyPartialPbuf(H, to, from, n, 0).H \in {H, after[turns].H}
  BY <1>1, <1>3, <1>4 DEF CopyPartialPbuf, Copying, CopyStep
<1>7. CopyState(H, A, after[turns])
  <2> DEFINE P == {i \in 0 .. turns : CopyState(H, A, after[i])}
  <2>1. 0 \in P
    <3>1. after[0] = start
      BY <1>2, <1>5 DEF Copying
    <3>2. SameShape(H, H) /\ H[to].len \in Nat /\ H[from].len \in Nat
      BY SameHeap DEF Structs, IsPbuf
    <3>3. CopyState(H, A, start)
      BY <1>2, <1>3, <3>2 DEF CopyState
    <3>4. QED
      BY <1>2, <3>1, <3>3
  <2>2. ASSUME NEW i \in 0 .. turns - 1, i \in P
        PROVE  i + 1 \in P
    <3>1. i + 1 \in 0 .. turns /\ i + 1 # 0 /\ (i + 1) - 1 = i
      BY <1>2
    <3>2. after[i + 1] = CopyStep(after[i])
      BY <1>5, <3>1 DEF Copying
    <3>3. CopyState(H, A, CopyStep(after[i]))
      BY <2>2, CopyStateKept
    <3>4. QED
      BY <3>1, <3>2, <3>3
  <2>3. turns \in P
    <3> HIDE DEF P
    <3>1. turns \in 0 .. turns
      BY <1>2
    <3>2. QED
      BY <1>2, <2>1, <2>2, <3>1, CountingUp
  <2>4. QED
    BY <2>3
<1>8. QED
  BY <1>1, <1>6, <1>7 DEF CopyState, CopyPbuf

\* pbuf_clone().
LEMMA CloneMemory ==
  ASSUME NEW A, 0 \in A, NEW H, NEW h, HeapOk(H, h), MemoryOf(H, A), NEW p \in DOMAIN H,
         NEW new \in Addresses \ DOMAIN H, NEW layer \in Nat
  PROVE  MemoryOf(Cloned(H, layer, p, new), A)
<1>1. PICK n : n = H[p].tot_len
  OBVIOUS
<1>2. n \in 0 .. Width - 1 /\ n \in Nat /\ Structs(H)
  <2>1. n \in 0 .. Width - 1
    BY <1>1 DEF HeapOk, Linked, IsPbuf
  <2>2. n \in Nat
    BY <2>1, ConstantsAssumption DEF ConstantsAssumption
  <2>3. QED
    BY <2>1, <2>2 DEF HeapOk, Linked, Structs
<1>3. PICK G : G = With(H, new, AllocedRam(layer, n))
  OBVIOUS
<1>4. HeapOk(G, [h EXCEPT ![new] = 1])
  BY <1>2, <1>3, RamOk
<1>5. DOMAIN G = DOMAIN H \cup {new}
  BY <1>3 DEF With
<1>6. Linked(G) /\ Structs(G) /\ new \in DOMAIN G /\ p \in DOMAIN G
  BY <1>4, <1>5 DEF HeapOk, Linked, Structs
<1>7. MemoryOf(G, A)
  <2>1. Plain(H, A)
    BY <1>2, PlainIs
  <2>2. Align(layer) \in Nat
    BY AlignIs
  <2>3. IsPlain(AllocedRam(layer, n), A)
    BY <1>2, <2>2, FreshPlain DEF AllocedRam
  <2>4. QED
    BY <1>3, <2>1, <2>3, WithPlain, PlainMemory
<1>8. QED
  BY <1>1, <1>3, <1>6, <1>7, CopyMemory DEF Cloned

\* pbuf_dechain(), the whole call.
LEMMA DechainStepPlain ==
  ASSUME NEW A, Plain(pbufs, A), NEW p, Dechain(p)
  PROVE  Plain(pbufs', A)
<1>1. PICK y : y = pbufs[p].next
  OBVIOUS
<1>2. PICK G : G = [pbufs EXCEPT ![p].next = NULL, ![p].tot_len = pbufs[p].len,
                                 ![y].tot_len = (pbufs[p].tot_len - pbufs[p].len) % Width]
  OBVIOUS
<1>3. pbufs' = IF y = NULL THEN pbufs ELSE Freed(G, y)
  BY <1>1, <1>2 DEF Dechain
<1>4. Plain(G, A)
  BY <1>2, DechainPlain
<1>5. QED
  BY <1>3, <1>4, FreedPlain

\* No call brings bytes into a heap that are neither written nor referred to.
LEMMA MemoryStep ==
  ASSUME NEW A, 0 \in A, \A d \in Data \cup External : d \in Seq(A),
         HeapInv, MemoryOf(pbufs, A), Next
  PROVE  MemoryOf(pbufs', A)
<1>1. HeapOk(pbufs, held)
  BY DEF HeapInv
<1>2. Linked(pbufs) /\ Structs(pbufs) /\ Plain(pbufs, A) /\ Layers \subseteq Nat
  <2>1. Linked(pbufs) /\ Structs(pbufs)
    BY GuardsAre
  <2>2. QED
    BY <2>1, PlainIs, ConstantsAssumption DEF ConstantsAssumption
<1>3. MaxLen \in Nat /\ \A n \in 0 .. MaxLen : n \in Nat
  BY ConstantsAssumption DEF ConstantsAssumption
<1>4. ASSUME NEW layer \in Layers, NEW n \in 0 .. MaxLen, AllocRam(layer, n)
      PROVE  MemoryOf(pbufs', A)
  <2>1. PICK p : pbufs' = With(pbufs, p, AllocedRam(layer, n))
    BY <1>4 DEF AllocRam
  <2>2. Align(layer) \in Nat
    BY <1>2, AlignIs
  <2>3. IsPlain(AllocedRam(layer, n), A)
    BY <1>3, <2>2, FreshPlain DEF AllocedRam
  <2>4. QED
    BY <1>2, <2>1, <2>3, WithPlain, PlainMemory
<1>5. ASSUME NEW layer \in Layers, NEW n \in 0 .. MaxLen, AllocPool(layer, n)
      PROVE  MemoryOf(pbufs', A)
  BY <1>2, <1>5, AllocPoolPlain, PlainMemory
<1>6. ASSUME NEW mem \in External, AllocReference(mem)
      PROVE  MemoryOf(pbufs', A)
  <2>1. PICK p : pbufs' = With(pbufs, p, Alloced(FALSE, 0, mem, Len(mem)))
    BY <1>6 DEF AllocReference
  <2>2. mem \in Seq(A)
    OBVIOUS
  <2>3. IsPlain(Alloced(FALSE, 0, mem, Len(mem)), A)
    BY <2>2, AllocedPlain
  <2>4. QED
    BY <1>2, <2>1, <2>3, WithPlain, PlainMemory
<1>7. ASSUME NEW p \in DOMAIN pbufs, Drop(p)
      PROVE  MemoryOf(pbufs', A)
  BY <1>2, <1>7, FreedPlain, PlainMemory DEF Drop
<1>8. ASSUME NEW p \in DOMAIN pbufs, Ref(p)
      PROVE  MemoryOf(pbufs', A)
  BY <1>2, <1>8, RefPlain, PlainMemory DEF Ref
<1>9. ASSUME NEW p \in DOMAIN pbufs, NEW n \in Nat, Realloc(p, n)
      PROVE  MemoryOf(pbufs', A)
  <2>1. Plain(Realloced(pbufs, p, n), A)
    BY <1>1, ReallocPlain
  <2>2. QED
    BY <1>9, <2>1, PlainMemory DEF Realloc
<1>10. ASSUME NEW p \in DOMAIN pbufs, NEW n, NEW force, Header(p, n, force)
       PROVE  MemoryOf(pbufs', A)
  <2>1. Plain(HeaderMoved(pbufs, p, n, force), A)
    BY <1>2, HeaderPlain
  <2>2. QED
    BY <1>10, <2>1, PlainMemory DEF Header
<1>11. ASSUME NEW p \in DOMAIN pbufs, NEW bytes \in Data, NEW offset \in Nat,
              Write(p, bytes, offset)
       PROVE  MemoryOf(pbufs', A)
  <2>1. bytes \in Seq(A)
    OBVIOUS
  <2>2. MemoryOf(TakeAt(pbufs, p, bytes, offset).H, A)
    BY <1>1, <2>1, TakeAtMemory
  <2>3. MemoryOf(Take(pbufs, p, bytes).H, A)
    BY <1>1, <2>1, TakeMemory
  <2>4. ASSUME NEW x \in ToSet(bytes)
        PROVE  MemoryOf(PutAt(pbufs, p, offset, x), A)
    <3>1. x \in A
      BY <2>1 DEF ToSet
    <3>2. QED
      BY <1>2, <3>1, PutAtMemory
  <2>5. QED
    BY <1>11, <2>2, <2>3, <2>4 DEF Write
<1>12. ASSUME NEW p \in DOMAIN pbufs, NEW layer \in Layers, NEW new \in Unused
       PROVE  MemoryOf(Cloned(pbufs, layer, p, new), A)
  BY <1>1, <1>2, CloneMemory DEF Unused
<1>13. ASSUME NEW p \in DOMAIN pbufs, NEW layer \in Layers, Clone(layer, p)
       PROVE  MemoryOf(pbufs', A)
  BY <1>12, <1>13 DEF Clone
<1>14. ASSUME NEW p \in DOMAIN pbufs, NEW layer \in Layers, Coalesce(layer, p)
       PROVE  MemoryOf(pbufs', A)
  <2>1. PICK new \in Unused : pbufs' = Freed(Cloned(pbufs, layer, p, new), p)
    BY <1>14 DEF Coalesce
  <2>2. PICK G : G = Cloned(pbufs, layer, p, new)
    OBVIOUS
  <2>3. MemoryOf(G, A)
    BY <1>12, <2>2
  <2>4. Structs(G)
    <3>1. new \in Addresses \ DOMAIN pbufs /\ layer \in Nat
      BY <1>2 DEF Unused
    <3>2. Cloning(pbufs, held, new, G)
      BY <1>1, <2>2, <3>1, CloneOk
    <3>3. QED
      BY <3>2 DEF Cloning, HeapOk, Linked, Structs
  <2>5. Plain(G, A)
    BY <2>3, <2>4, PlainIs
  <2>6. QED
    BY <2>1, <2>2, <2>5, FreedPlain, PlainMemory
<1>15. ASSUME NEW p \in DOMAIN pbufs, NEW q \in DOMAIN pbufs, Cat(p, q)
       PROVE  MemoryOf(pbufs', A)
  BY <1>2, <1>15, CatPlain, PlainMemory DEF Cat
<1>16. ASSUME NEW p \in DOMAIN pbufs, NEW q \in DOMAIN pbufs, ChainUp(p, q)
       PROVE  MemoryOf(pbufs', A)
  <2>1. PICK G : G = Concatenated(pbufs, p, q)
    OBVIOUS
  <2>2. Plain(G, A)
    BY <1>2, <2>1, CatPlain
  <2>3. pbufs' = [G EXCEPT ![q].ref = @ + 1]
    BY <1>16, <2>1 DEF ChainUp
  <2>4. QED
    BY <2>2, <2>3, RefPlain, PlainMemory
<1>17. ASSUME NEW p \in DOMAIN pbufs, Dechain(p)
       PROVE  MemoryOf(pbufs', A)
  BY <1>2, <1>17, DechainStepPlain, PlainMemory
<1>18. ASSUME NEW p \in DOMAIN pbufs, NEW q \in DOMAIN pbufs, Copy(p, q)
       PROVE  MemoryOf(pbufs', A)
  <2>1. MemoryOf(CopyPbuf(pbufs, p, q).H, A)
    BY <1>2, CopyMemory
  <2>2. QED
    BY <1>18, <2>1 DEF Copy
<1>19. ASSUME NEW p \in DOMAIN pbufs, NEW n, FreeHeader(p, n)
       PROVE  MemoryOf(pbufs', A)
  BY <1>2, <1>19, FreeHeaderPlain, PlainMemory
<1>20. \A p \in DOMAIN pbufs : \A n \in 0 .. pbufs[p].tot_len : n \in Nat
  OBVIOUS
<1>21. QED
  BY <1>4, <1>5, <1>6, <1>7, <1>8, <1>9, <1>10, <1>11, <1>13, <1>14, <1>15, <1>16, <1>17, <1>18,
     <1>19, <1>20 DEF Next

-----------------------------------------------------------------------------
(* The streams: where they are, and what writing to them does.             *)

\* A stream that has moved by n bytes.
Onward(S, n) == [S EXCEPT !.offset = @ + n, !.length = @ - n]

\* The end of a stream is within its chain.
InReach(S, H) == IsStream(S, H) /\ S.offset + S.length <= H[S.pbuf].tot_len

\* G is stream S, moved by n bytes.
MovedBy(S, H, n, G) ==
  /\ InReach(G, H)
  /\ G = [pbuf |-> S.pbuf, offset |-> S.offset + n, length |-> S.length - n]

\* Positions and lengths in a chain fit their 16 bits.
LEMMA OnwardIs ==
  ASSUME NEW H, NEW h, HeapOk(H, h), NEW S, InReach(S, H), NEW n \in Int,
         S.offset + n >= 0, n <= S.length
  PROVE  Advanced(S, n) = Onward(S, n) /\ MovedBy(S, H, n, Onward(S, n))
<1>1. PICK o, l, x, p : o = S.offset /\ l = S.length /\ p = S.pbuf /\ x = H[p].tot_len
  OBVIOUS
<1>2. S = [pbuf |-> p, offset |-> o, length |-> l] /\ p \in DOMAIN H
  BY <1>1 DEF InReach, IsStream
<1>3. o \in Nat /\ l \in Nat /\ o + l <= x /\ x \in 0 .. Width - 1 /\ Width \in Nat
      /\ o + n >= 0 /\ n <= l
  <2>1. x \in 0 .. Width - 1
    BY <1>1, <1>2 DEF HeapOk, Linked, IsPbuf
  <2>2. Width \in Nat
    BY ConstantsAssumption DEF ConstantsAssumption
  <2>3. QED
    BY <1>1, <2>1, <2>2 DEF InReach, IsStream
<1>4. PICK o2, l2 : o2 = o + n /\ l2 = l - n
  OBVIOUS
<1>5. o2 \in 0 .. Width - 1 /\ l2 \in 0 .. Width - 1 /\ o2 + l2 <= x /\ o2 \in Nat /\ l2 \in Nat
  BY <1>3, <1>4
<1>6. o2 % Width = o2 /\ l2 % Width = l2
  BY <1>5, FitsWidth
<1>7. Onward(S, n) = [pbuf |-> p, offset |-> o2, length |-> l2]
  <2>1. Onward(S, n) = [S EXCEPT !.offset = o2, !.length = l2]
    BY <1>1, <1>4 DEF Onward
  <2>2. QED
    BY <1>2, <2>1
<1>8. Advanced(S, n) = [pbuf |-> p, offset |-> o2 % Width, length |-> l2 % Width]
  <2>1. PICK x1, x2 : x1 = o2 % Width /\ x2 = l2 % Width
    OBVIOUS
  <2>2. Advanced(S, n) = [S EXCEPT !.offset = x1, !.length = x2]
    BY <1>1, <1>4, <2>1 DEF Advanced
  <2>3. QED
    BY <1>2, <2>1, <2>2
<1>9. InReach(Onward(S, n), H)
  BY <1>1, <1>2, <1>5, <1>7 DEF InReach, IsStream
<1>10. QED
  BY <1>1, <1>4, <1>6, <1>7, <1>8, <1>9 DEF MovedBy

\* The outcome of writing bytes to stream S over a heap H: nothing, or they are
\* in the chain c of S.
Puts(H, A, S, c, bytes, put) ==
  \/ put.err # "OK" /\ put.H = H /\ put.S = S
  \/ /\ put.err = "OK" /\ Len(bytes) <= S.length
     /\ Overwritten(H, put.H, c, bytes, S.offset) /\ MemoryOf(put.H, A)
     /\ put.S = Onward(S, Len(bytes))

\* snmp_pbuf_stream_writebuf().
LEMMA WriteBufPuts ==
  ASSUME NEW A, NEW H, NEW h, HeapOk(H, h), MemoryOf(H, A), NEW S, InReach(S, H),
         NEW c, c = Chain(H, S.pbuf), NEW bytes \in Seq(A)
  PROVE  Puts(H, A, S, c, bytes, WriteBuf(H, S, bytes))
<1>1. PICK taken : taken = TakeAt(H, S.pbuf, bytes, S.offset)
  OBVIOUS
<1>2. S.pbuf \in DOMAIN H /\ S.offset \in Nat /\ S.length \in Nat /\ Len(bytes) \in Nat
  BY DEF InReach, IsStream
<1>3. PICK put : put = WriteBuf(H, S, bytes)
  OBVIOUS
<1>4. CASE S.length < Len(bytes) \/ taken.err # "OK"
  <2>1. put = [err |-> "BUF", H |-> H, S |-> S]
    BY <1>1, <1>3, <1>4 DEF WriteBuf, Result
  <2>2. QED
    BY <1>3, <2>1 DEF Puts
<1>5. CASE ~ (S.length < Len(bytes) \/ taken.err # "OK")
  <2>1. put = [err |-> "OK", H |-> taken.H, S |-> Advanced(S, Len(bytes))]
    BY <1>1, <1>3, <1>5 DEF WriteBuf, Result
  <2>2. Overwritten(H, taken.H, c, bytes, S.offset)
    BY <1>1, <1>2, <1>5, TakeAtPuts
  <2>3. MemoryOf(taken.H, A)
    BY <1>1, <1>2, TakeAtMemory
  <2>4. Len(bytes) <= S.length /\ S.offset + Len(bytes) >= 0
    BY <1>2, <1>5
  <2>5. Advanced(S, Len(bytes)) = Onward(S, Len(bytes))
    BY <1>2, <2>4, OnwardIs
  <2>6. QED
    BY <1>3, <2>1, <2>2, <2>3, <2>4, <2>5 DEF Puts
<1>6. QED
  BY <1>4, <1>5

\* The bytes chains hold after bytes were put into chain c of p.
LEMMA PutContents ==
  ASSUME NEW A, NEW H, NEW h, HeapOk(H, h), MemoryOf(H, A), NEW p \in DOMAIN H,
         NEW c, c = Chain(H, p), NEW bytes \in Seq(A), NEW offset \in Int,
         NEW G, Overwritten(H, G, c, bytes, offset), MemoryOf(G, A)
  PROVE  /\ HeapOk(G, h) /\ SameShape(H, G)
         /\ Content(G, p) = Overlaid(Content(H, p), bytes, offset)
         /\ \A q \in DOMAIN H : ToSet(Chain(H, q)) \cap ToSet(c) = {} =>
              Content(G, q) = Content(H, q)
<1>1. SameShape(H, G)
  BY DEF Overwritten
<1>2. HeapOk(G, h)
  BY <1>1, SameShapeKeeps
<1>3. Content(G, p) = Overlaid(Content(H, p), bytes, offset)
  BY OverwrittenContent
<1>4. ToSet(c) = First(c, Len(c))
  <2>1. Laid(H, p, c)
    BY LaidIs
  <2>2. c \in Seq(DOMAIN H)
    BY <2>1 DEF Laid
  <2>3. DOMAIN c = 1 .. Len(c)
    BY <2>2
  <2>4. QED
    BY <2>3 DEF ToSet, First
<1>5. ASSUME NEW q \in DOMAIN H, ToSet(Chain(H, q)) \cap ToSet(c) = {}
      PROVE  Content(G, q) = Content(H, q)
  <2>1. ToSet(Chain(H, q)) \cap First(c, Len(c)) = {}
    BY <1>4, <1>5
  <2>2. QED
    BY <2>1, OtherContent
<1>6. QED
  BY <1>1, <1>2, <1>3, <1>5

\* Bytes put behind bytes just put are one sequence of bytes put.
LEMMA OverlaidTwice ==
  ASSUME NEW A, NEW s \in Seq(A), NEW a \in Seq(A), NEW b \in Seq(A), NEW offset \in Int
  PROVE  /\ a \o b \in Seq(A) /\ Len(a \o b) = Len(a) + Len(b)
         /\ Overlaid(Overlaid(s, a, offset), b, offset + Len(a)) = Overlaid(s, a \o b, offset)
<1>1. PICK m, n, x, ab : m = Len(a) /\ n = Len(b) /\ x = Len(s) /\ ab = a \o b
  OBVIOUS
<1>2. m \in Nat /\ n \in Nat /\ x \in Nat /\ DOMAIN a = 1 .. m /\ DOMAIN b = 1 .. n
  BY <1>1
<1>3. ab \in Seq(A) /\ Len(ab) = m + n /\ DOMAIN ab = 1 .. m + n
  BY <1>1
<1>4. \A k \in 1 .. m + n : ab[k] = IF k <= m THEN a[k] ELSE b[k - m]
  BY <1>1, <1>2
<1>5. PICK t, u, v, o2 : /\ t = Overlaid(s, a, offset) /\ o2 = offset + m
                         /\ u = Overlaid(t, b, o2) /\ v = Overlaid(s, ab, offset)
  OBVIOUS
<1>6. o2 \in Int
  BY <1>2, <1>5
<1>7. t \in Seq(A) /\ Len(t) = x
      /\ \A k \in 1 .. x : t[k] = IF k - offset \in 1 .. m THEN a[k - offset] ELSE s[k]
  BY <1>1, <1>2, <1>5, OverlaidIs
<1>8. u \in Seq(A) /\ Len(u) = x
      /\ \A k \in 1 .. x : u[k] = IF k - o2 \in 1 .. n THEN b[k - o2] ELSE t[k]
  <2>1. /\ Overlaid(t, b, o2) \in Seq(A) /\ Len(Overlaid(t, b, o2)) = Len(t)
        /\ \A k \in 1 .. Len(t) : Overlaid(t, b, o2)[k] =
             IF k - o2 \in DOMAIN b THEN b[k - o2] ELSE t[k]
    BY <1>6, <1>7, OverlaidIs
  <2>2. QED
    BY <1>2, <1>5, <1>7, <2>1
<1>9. v \in Seq(A) /\ Len(v) = x
      /\ \A k \in 1 .. x : v[k] = IF k - offset \in 1 .. m + n THEN ab[k - offset] ELSE s[k]
  <2>1. /\ Overlaid(s, ab, offset) \in Seq(A) /\ Len(Overlaid(s, ab, offset)) = Len(s)
        /\ \A k \in 1 .. Len(s) : Overlaid(s, ab, offset)[k] =
             IF k - offset \in DOMAIN ab THEN ab[k - offset] ELSE s[k]
    BY <1>3, OverlaidIs
  <2>2. QED
    BY <1>1, <1>3, <1>5, <2>1
<1>10. ASSUME NEW k \in 1 .. x
       PROVE  u[k] = v[k]
  <2>1. PICK j : j = k - offset
    OBVIOUS
  <2>2. j \in Int /\ k - o2 = j - m
    BY <1>2, <1>5, <2>1
  <2>3. t[k] = IF j \in 1 .. m THEN a[j] ELSE s[k]
    BY <1>7, <2>1
  <2>4. u[k] = IF j - m \in 1 .. n THEN b[j - m] ELSE t[k]
    BY <1>8, <2>2
  <2>5. v[k] = IF j \in 1 .. m + n THEN ab[j] ELSE s[k]
    BY <1>9, <2>1
  <2>6. CASE j \in 1 .. m
    <3>1. j \in 1 .. m + n /\ j <= m /\ ~ (j - m \in 1 .. n)
      BY <1>2, <2>6
    <3>2. QED
      BY <1>4, <2>3, <2>4, <2>5, <2>6, <3>1
  <2>7. CASE j - m \in 1 .. n
    <3>1. j \in 1 .. m + n /\ ~ (j <= m)
      BY <1>2, <2>2, <2>7
    <3>2. QED
      BY <1>4, <2>4, <2>5, <2>7, <3>1
  <2>8. CASE ~ (j \in 1 .. m) /\ ~ (j - m \in 1 .. n)
    <3>1. ~ (j \in 1 .. m + n)
      BY <1>2, <2>2, <2>8
    <3>2. QED
      BY <2>3, <2>4, <2>5, <2>8, <3>1
  <2>9. QED
    BY <2>6, <2>7, <2>8
<1>11. u = v
  BY <1>8, <1>9, <1>10
<1>12. QED
  BY <1>1, <1>3, <1>5, <1>11

\* What snmp_pbuf_stream_writeto() reads from a pbuf: its payload, as far as it goes.
LEMMA MemoryRead ==
  ASSUME NEW A, 0 \in A, NEW H, NEW q, IsPbuf(H[q]), Buffered(H[q]), H[q].mem \in Seq(A),
         NEW o \in Nat, NEW n \in Nat
  PROVE  /\ MemoryAt(H, q, o, n) \in Seq(A) /\ Len(MemoryAt(H, q, o, n)) = n
         /\ o + n <= H[q].len =>
              \A k \in 1 .. n : MemoryAt(H, q, o, n)[k] = H[q].mem[H[q].payload + (o + k)]
<1>1. PICK mem, pl, x : mem = H[q].mem /\ pl = H[q].payload /\ x = Len(mem)
  OBVIOUS
<1>2. mem \in Seq(A) /\ x \in Nat /\ pl \in Nat /\ DOMAIN mem = 1 .. x /\ H[q].len \in Nat
      /\ pl + H[q].len <= x
  BY <1>1 DEF IsPbuf, Buffered
<1>3. PICK f : f = MemoryAt(H, q, o, n)
  OBVIOUS
<1>4. f = [i \in 1 .. n |-> IF pl + o + i \in DOMAIN mem THEN mem[pl + o + i] ELSE 0]
  BY <1>1, <1>3 DEF MemoryAt
<1>5. \A i \in 1 .. n : (IF pl + o + i \in DOMAIN mem THEN mem[pl + o + i] ELSE 0) \in A
  BY <1>2
<1>6. f \in [1 .. n -> A]
  BY <1>4, <1>5
<1>7. f \in Seq(A) /\ Len(f) = n
  BY <1>6, FunctionsAreSeqs
<1>8. ASSUME o + n <= H[q].len, NEW k \in 1 .. n
      PROVE  f[k] = mem[pl + (o + k)]
  <2>1. PICK j : j = pl + o + k
    OBVIOUS
  <2>2. j = pl + (o + k) /\ j \in 1 .. x
    BY <1>2, <1>8, <2>1
  <2>3. f[k] = IF j \in DOMAIN mem THEN mem[j] ELSE 0
    BY <1>4, <2>1
  <2>4. QED
    BY <1>2, <2>2, <2>3
<1>9. QED
  BY <1>1, <1>3, <1>7, <1>8

\* From an offset on, copying is exact for a number of bytes: at the start of a
\* pbuf, or within one.
Exact(H, c, offset, left) ==
  left = 0 \/ \A i \in 1 .. Len(c) : Within(H, c, i, offset) =>
                \/ offset = Before(H, c, i)
                \/ offset + left <= Before(H, c, i) + H[c[i]].len

\* A chunk from an offset in the i-th pbuf of a chain: as much as is left, but no
\* more than the whole pbuf has.
Chunk(H, c, i, left) == Smaller(left, H[c[i]].len)

\* An exact copy is so chunk by chunk.
LEMMA ExactOn ==
  ASSUME NEW H, NEW p, NEW c, Laid(H, p, c), NEW offset \in Nat, NEW i, Within(H, c, i, offset),
         NEW left \in Nat \ {0}, Exact(H, c, offset, left),
         NEW n, n = Chunk(H, c, i, left)
  PROVE  /\ offset + n <= Before(H, c, i) + H[c[i]].len
         /\ Exact(H, c, offset + n, left - n)
<1>1. PICK b, l : b = Before(H, c, i) /\ l = H[c[i]].len
  OBVIOUS
<1>2. i \in 1 .. Len(c) /\ b \in Nat /\ l \in Nat /\ b <= offset /\ offset < b + l
      /\ Len(c) \in Nat
  BY <1>1 DEF Within, Laid
<1>3. n = (IF left < l THEN left ELSE l) /\ n \in Nat /\ n <= left /\ n <= l
  <2>1. n = IF left < l THEN left ELSE l
    BY <1>1 DEF Chunk, Smaller
  <2>2. QED
    BY <1>2, <2>1
<1>4. offset = b \/ offset + left <= b + l
  BY <1>1, <1>2 DEF Exact
<1>5. offset + n <= b + l
  BY <1>2, <1>3, <1>4
<1>6. n = left \/ (offset = b /\ n = l)
  BY <1>2, <1>3, <1>4
<1>7. CASE n = left
  BY <1>1, <1>5, <1>7 DEF Exact
<1>8. CASE offset = b /\ n = l
  <2>1. ASSUME NEW j \in 1 .. Len(c), Within(H, c, j, b + l)
        PROVE  b + l = Before(H, c, j)
    <3>1. PICK bj, lj : bj = Before(H, c, j) /\ lj = H[c[j]].len
      OBVIOUS
    <3>2. bj \in Nat /\ lj \in Nat /\ bj <= b + l /\ b + l < bj + lj
      BY <2>1, <3>1 DEF Within, Laid
    <3>3. CASE j < i
      <4>1. bj + lj <= b
        BY <1>1, <1>2, <3>1, <3>3, BeforeOrdered
      <4>2. QED
        BY <1>2, <3>2, <4>1
    <3>4. CASE j = i
      BY <1>1, <1>2, <3>1, <3>2, <3>4
    <3>5. CASE i < j
      <4>1. b + l <= bj
        BY <1>1, <1>2, <3>1, <3>5, BeforeOrdered
      <4>2. b + l = bj
        BY <1>2, <3>2, <4>1
      <4>3. QED
        BY <3>1, <4>2
    <3>6. QED
      BY <1>2, <3>3, <3>4, <3>5
  <2>2. offset + n = b + l
    BY <1>8
  <2>3. Exact(H, c, offset + n, left - n)
    BY <2>1, <2>2 DEF Exact
  <2>4. QED
    BY <1>1, <1>5, <2>3
<1>9. QED
  BY <1>6, <1>7, <1>8

\* A stream stays in reach as long as the shape of the heap stays.
LEMMA ReachStays ==
  ASSUME NEW H, NEW h, HeapOk(H, h), NEW G, SameShape(H, G), NEW S, InReach(S, H)
  PROVE  InReach(S, G)
<1>1. S.pbuf \in DOMAIN H /\ S.pbuf \in DOMAIN G
  BY DEF InReach, IsStream, SameShape
<1>2. G[S.pbuf].tot_len = H[S.pbuf].tot_len
  <2>1. PICK q, b, d : q = S.pbuf /\ b = H[q] /\ d = G[q]
    OBVIOUS
  <2>2. OtherBytes(b, d)
    BY <1>1, <2>1 DEF SameShape, OtherBytes
  <2>3. IsPbuf(b) /\ Buffered(b)
    BY <1>1, <2>1 DEF HeapOk, Linked
  <2>4. d.tot_len = b.tot_len
    BY <2>2, <2>3, OtherBytesKeep
  <2>5. QED
    BY <2>1, <2>4
<1>3. QED
  BY <1>1, <1>2 DEF InReach, IsStream

\* Two moves are one.
LEMMA MovesAdd ==
  ASSUME NEW H, NEW S, InReach(S, H), NEW m \in Int, NEW n \in Int, NEW X, NEW Y,
         MovedBy(S, H, m, X), MovedBy(X, H, n, Y)
  PROVE  MovedBy(S, H, m + n, Y)
<1>1. PICK o, l, k : o = S.offset /\ l = S.length /\ k = m + n
  OBVIOUS
<1>2. o \in Int /\ l \in Int /\ (o + m) + n = o + k /\ (l - m) - n = l - k
  BY <1>1 DEF InReach, IsStream
<1>3. X.pbuf = S.pbuf /\ X.offset = o + m /\ X.length = l - m
  BY <1>1 DEF MovedBy
<1>4. Y = [pbuf |-> S.pbuf, offset |-> (o + m) + n, length |-> (l - m) - n]
  BY <1>3 DEF MovedBy
<1>5. Y = [pbuf |-> S.pbuf, offset |-> o + k, length |-> l - k]
  BY <1>2, <1>4
<1>6. QED
  BY <1>1, <1>5 DEF MovedBy

\* Where the loop of snmp_pbuf_stream_writeto() is: m bytes of all have been put
\* into T's chain, and as long as copying is exact they are those of S.
CopiedTo(H, h, A, S, T, all, st, m, bytes) ==
  /\ st = [err |-> st.err, H |-> st.H, S |-> st.S, T |-> st.T, len |-> all - m]
  /\ HeapOk(st.H, h) /\ SameShape(H, st.H) /\ MemoryOf(st.H, A)
  /\ m \in Nat /\ m <= all
  /\ bytes \in Seq(A) /\ Len(bytes) = m
  /\ MovedBy(S, H, m, st.S) /\ MovedBy(T, H, m, st.T)
  /\ Content(st.H, T.pbuf) = Overlaid(Content(H, T.pbuf), bytes, T.offset)
  /\ \A p \in DOMAIN H : ToSet(Chain(H, p)) \cap ToSet(Chain(H, T.pbuf)) = {} =>
       Content(st.H, p) = Content(H, p)
  /\ Exact(H, Chain(H, S.pbuf), S.offset, all) =>
       /\ Exact(H, Chain(H, S.pbuf), S.offset + m, all - m)
       /\ \A k \in 1 .. m : bytes[k] = Content(H, S.pbuf)[S.offset + k]

\* Two streams over chains of their own, and a number of bytes both have left.
Streaming(H, h, A, S, T, all) ==
  /\ HeapOk(H, h) /\ MemoryOf(H, A) /\ 0 \in A
  /\ InReach(S, H) /\ InReach(T, H)
  /\ ToSet(Chain(H, S.pbuf)) \cap ToSet(Chain(H, T.pbuf)) = {}
  /\ all \in Nat /\ all <= S.length /\ all <= T.length

\* Nothing put changes nothing.
LEMMA NothingPut ==
  ASSUME NEW A, NEW s \in Seq(A), NEW offset \in Int
  PROVE  Overlaid(s, <<>>, offset) = s
<1>1. Overlaid(s, <<>>, offset) = [i \in DOMAIN s |-> s[i]]
  BY DEF Overlaid
<1>2. QED
  BY <1>1

\* The loop begins with nothing copied.
LEMMA CopyBegins ==
  ASSUME NEW H, NEW h, NEW A, NEW S, NEW T, NEW all, Streaming(H, h, A, S, T, all),
         NEW st, st = [err |-> "OK", H |-> H, S |-> S, T |-> T, len |-> all]
  PROVE  CopiedTo(H, h, A, S, T, all, st, 0, <<>>)
<1>1. HeapOk(H, h) /\ MemoryOf(H, A) /\ InReach(S, H) /\ InReach(T, H) /\ all \in Nat
  BY DEF Streaming
<1>2. ASSUME NEW X, InReach(X, H)
      PROVE  MovedBy(X, H, 0, X) /\ X.pbuf \in DOMAIN H /\ X.offset \in Nat
  <2>1. X = [pbuf |-> X.pbuf, offset |-> X.offset, length |-> X.length]
        /\ X.offset \in Nat /\ X.length \in Nat /\ X.pbuf \in DOMAIN H
    BY <1>2 DEF InReach, IsStream
  <2>2. X.offset + 0 = X.offset /\ X.length - 0 = X.length
    BY <2>1
  <2>3. X = [pbuf |-> X.pbuf, offset |-> X.offset + 0, length |-> X.length - 0]
    BY <2>1, <2>2
  <2>4. QED
    BY <1>2, <2>1, <2>3 DEF MovedBy
<1>3. SameShape(H, H)
  BY <1>1, SameHeap DEF HeapOk, Linked, Structs
<1>4. Content(H, T.pbuf) = Overlaid(Content(H, T.pbuf), <<>>, T.offset)
  <2>1. Content(H, T.pbuf) \in Seq(A)
    BY <1>1, <1>2, ContentIs
  <2>2. QED
    BY <1>1, <1>2, <2>1, NothingPut
<1>5. <<>> \in Seq(A) /\ Len(<<>>) = 0 /\ all - 0 = all /\ S.offset + 0 = S.offset /\ 0 <= all
  BY <1>1, <1>2
<1>6. st = [err |-> st.err, H |-> st.H, S |-> st.S, T |-> st.T, len |-> all - 0]
      /\ st.H = H /\ st.S = S /\ st.T = T
  BY <1>5
<1>7. QED
  BY <1>1, <1>2, <1>3, <1>4, <1>5, <1>6 DEF CopiedTo

\* n bytes at an offset in the i-th pbuf of chain c are what the chain holds there, up
\* to the end of the pbuf.
IsChunk(G, A, p, c, i, offset, n, chunk) ==
  /\ chunk \in Seq(A) /\ Len(chunk) = n
  /\ offset + n <= Before(G, c, i) + G[c[i]].len =>
       \A k \in 1 .. n : chunk[k] = Content(G, p)[offset + k]

\* Those are what snmp_pbuf_stream_writeto() reads.
LEMMA ChunkRead ==
  ASSUME NEW A, 0 \in A, NEW G, NEW h, HeapOk(G, h), MemoryOf(G, A), NEW p \in DOMAIN G,
         NEW c, c = Chain(G, p), NEW offset \in Nat, NEW i, Within(G, c, i, offset),
         NEW n \in Nat, NEW chunk, chunk = MemoryAt(G, c[i], offset - Before(G, c, i), n)
  PROVE  IsChunk(G, A, p, c, i, offset, n, chunk)
<1>1. Laid(G, p, c)
  BY LaidIs
<1>2. PICK q, b, l, o, s : /\ q = c[i] /\ b = Before(G, c, i) /\ l = G[q].len /\ o = offset - b
                           /\ s = Content(G, p)
  OBVIOUS
<1>3. i \in 1 .. Len(c) /\ b \in Nat /\ l \in Nat /\ b <= offset /\ offset < b + l /\ q \in DOMAIN G
  BY <1>1, <1>2 DEF Within, Laid
<1>4. o \in Nat /\ b + o = offset
  BY <1>2, <1>3
<1>5. IsPbuf(G[q]) /\ Buffered(G[q]) /\ G[q].mem \in Seq(A)
  BY <1>3 DEF HeapOk, Linked, MemoryOf
<1>6. chunk = MemoryAt(G, q, o, n)
  BY <1>2
<1>7. /\ chunk \in Seq(A) /\ Len(chunk) = n
      /\ o + n <= l => \A k \in 1 .. n : chunk[k] = G[q].mem[G[q].payload + (o + k)]
  <2>1. /\ MemoryAt(G, q, o, n) \in Seq(A) /\ Len(MemoryAt(G, q, o, n)) = n
        /\ o + n <= G[q].len =>
             \A k \in 1 .. n : MemoryAt(G, q, o, n)[k] = G[q].mem[G[q].payload + (o + k)]
    BY <1>4, <1>5, MemoryRead
  <2>2. QED
    BY <1>2, <1>6, <2>1
<1>8. \A x \in 1 .. l : s[b + x] = G[q].mem[G[q].payload + x]
  <2>1. Spells(G, c, s)
    BY <1>2, ContentIs
  <2>2. QED
    BY <1>2, <1>3, <2>1 DEF Spells
<1>9. ASSUME offset + n <= b + l, NEW k \in 1 .. n
      PROVE  chunk[k] = s[offset + k]
  <2>1. o + n <= l /\ o + k \in 1 .. l /\ b + (o + k) = offset + k
    BY <1>3, <1>4, <1>9
  <2>2. chunk[k] = G[q].mem[G[q].payload + (o + k)]
    BY <1>7, <2>1
  <2>3. s[b + (o + k)] = G[q].mem[G[q].payload + (o + k)]
    BY <1>8, <2>1
  <2>4. QED
    BY <2>1, <2>2, <2>3
<1>10. QED
  BY <1>2, <1>7, <1>9 DEF IsChunk

\* A turn of the loop that puts a chunk of n bytes: put is what writing it to T does.
Chunked(H, A, S, T, all, st, m, chunk, n, put) ==
  /\ n \in Nat /\ n <= all - m /\ chunk \in Seq(A) /\ Len(chunk) = n
  /\ Puts(st.H, A, st.T, Chain(st.H, T.pbuf), chunk, put)
  /\ Exact(H, Chain(H, S.pbuf), S.offset + m, all - m) =>
       /\ Exact(H, Chain(H, S.pbuf), (S.offset + m) + n, (all - m) - n)
       /\ \A k \in 1 .. n : chunk[k] = Content(H, S.pbuf)[(S.offset + m) + k]

\* The turn takes the next chunk of S, unless S is at the end of its chain.
LEMMA TurnTakesChunk ==
  ASSUME NEW H, NEW h, NEW A, NEW S, NEW T, NEW all, Streaming(H, h, A, S, T, all),
         NEW st, NEW m, NEW bytes, CopiedTo(H, h, A, S, T, all, st, m, bytes), all - m # 0
  PROVE  \/ WriteToTurn(st) = [st EXCEPT !.err = "BUF"]
         \/ \E chunk, n, put : /\ Chunked(H, A, S, T, all, st, m, chunk, n, put)
                               /\ WriteToTurn(st) = Moved(st, n, put)
<1>1. PICK G, p, c, o, left : /\ G = st.H /\ p = S.pbuf /\ c = Chain(H, p) /\ o = S.offset + m
                              /\ left = all - m
  OBVIOUS
<1>2. HeapOk(H, h) /\ MemoryOf(H, A) /\ 0 \in A /\ InReach(S, H) /\ InReach(T, H)
      /\ ToSet(Chain(H, S.pbuf)) \cap ToSet(Chain(H, T.pbuf)) = {}
      /\ all \in Nat /\ all <= S.length /\ all <= T.length
  BY DEF Streaming
<1>3. HeapOk(G, h) /\ SameShape(H, G) /\ MemoryOf(G, A) /\ m \in Nat /\ m <= all
      /\ MovedBy(S, H, m, st.S) /\ MovedBy(T, H, m, st.T)
  BY <1>1 DEF CopiedTo
<1>4. p \in DOMAIN H /\ S.offset \in Nat /\ T.pbuf \in DOMAIN H
  BY <1>1, <1>2 DEF InReach, IsStream
<1>5. o \in Nat /\ left \in Nat \ {0} /\ st.len = left /\ st.S.pbuf = p /\ st.S.offset = o
      /\ st.T.pbuf = T.pbuf
  <2>1. st.len = left
    BY <1>1 DEF CopiedTo
  <2>2. st.S.pbuf = p /\ st.S.offset = o /\ st.T.pbuf = T.pbuf
    BY <1>1, <1>3 DEF MovedBy
  <2>3. QED
    BY <1>1, <1>2, <1>3, <1>4, <2>1, <2>2
<1>6. /\ p \in DOMAIN G /\ c = Chain(G, p) /\ Laid(H, p, c) /\ Laid(G, p, c)
      /\ \A q \in DOMAIN H : G[q].len = H[q].len
      /\ \A i \in 1 .. Len(c) : Before(G, c, i) = Before(H, c, i)
  BY <1>1, <1>2, <1>3, <1>4, LaidStays
<1>7. PICK at : at = Skip(G, p, o)
  OBVIOUS
<1>8. PICK n, put : /\ n = Smaller(left, G[at.q].len)
                    /\ put = WriteBuf(G, st.T, MemoryAt(G, at.q, at.offset, n))
  OBVIOUS
<1>9. WriteToTurn(st) = IF at.q = NULL THEN [st EXCEPT !.err = "BUF"] ELSE Moved(st, n, put)
  BY <1>1, <1>5, <1>7, <1>8 DEF WriteToTurn
<1>10. CASE at.q = NULL
  BY <1>9, <1>10
<1>11. CASE at.q # NULL
  <2>1. PICK i \in 1 .. Len(c) : /\ Within(G, c, i, o)
                                 /\ at = [q |-> c[i], offset |-> o - Before(G, c, i)]
    BY <1>5, <1>6, <1>7, <1>11, SkipFinds
  <2>2. c[i] \in DOMAIN H /\ H[c[i]].len \in Nat
    BY <1>6 DEF Laid
  <2>3. Before(G, c, i) = Before(H, c, i) /\ G[c[i]].len = H[c[i]].len
    BY <1>6, <2>2
  <2>4. Within(H, c, i, o)
    BY <2>1, <2>3 DEF Within
  <2>5. n = Chunk(H, c, i, left)
    BY <1>8, <2>1, <2>3 DEF Chunk
  <2>6. n \in Nat /\ n <= left
    BY <1>5, <2>2, <2>5 DEF Chunk, Smaller
  <2>7. PICK chunk : chunk = MemoryAt(G, c[i], o - Before(G, c, i), n)
    OBVIOUS
  <2>8. put = WriteBuf(G, st.T, chunk)
    BY <1>8, <2>1, <2>7
  <2>9. /\ chunk \in Seq(A) /\ Len(chunk) = n
        /\ o + n <= Before(G, c, i) + G[c[i]].len =>
             \A k \in 1 .. n : chunk[k] = Content(G, p)[o + k]
    <3>1. 0 \in A /\ HeapOk(G, h) /\ MemoryOf(G, A) /\ p \in DOMAIN G /\ c = Chain(G, p)
          /\ o \in Nat /\ Within(G, c, i, o) /\ n \in Nat
      BY <1>2, <1>3, <1>5, <1>6, <2>1, <2>6
    <3>2. IsChunk(G, A, p, c, i, o, n, chunk)
      BY <2>7, <3>1, ChunkRead, Zenon
    <3>3. QED
      BY <3>2 DEF IsChunk
  <2>10. Puts(G, A, st.T, Chain(G, T.pbuf), chunk, put)
    <3>1. InReach(st.T, G)
      BY <1>2, <1>3, ReachStays DEF MovedBy
    <3>2. QED
      BY <1>3, <1>5, <2>8, <2>9, <3>1, WriteBufPuts
  <2>11. Content(G, p) = Content(H, p)
    BY <1>1, <1>2, <1>4 DEF CopiedTo
  <2>12. ASSUME Exact(H, c, o, left)
         PROVE  /\ Exact(H, c, o + n, left - n)
                /\ \A k \in 1 .. n : chunk[k] = Content(H, p)[o + k]
    <3>1. /\ o + n <= Before(H, c, i) + H[c[i]].len
          /\ Exact(H, c, o + n, left - n)
      BY <1>5, <1>6, <2>4, <2>5, <2>12, ExactOn
    <3>2. QED
      BY <2>3, <2>9, <2>11, <3>1
  <2>13. Chunked(H, A, S, T, all, st, m, chunk, n, put)
    BY <1>1, <2>6, <2>9, <2>10, <2>12 DEF Chunked
  <2>14. QED
    BY <1>9, <1>11, <2>13
<1>12. QED
  BY <1>10, <1>11

\* A turn that fails copies nothing.
LEMMA TurnFails ==
  ASSUME NEW H, NEW h, NEW A, NEW S, NEW T, NEW all, NEW st, NEW m, NEW bytes,
         CopiedTo(H, h, A, S, T, all, st, m, bytes), NEW x, NEW st2, st2 = [st EXCEPT !.err = x]
  PROVE  CopiedTo(H, h, A, S, T, all, st2, m, bytes)
<1>1. st = [err |-> st.err, H |-> st.H, S |-> st.S, T |-> st.T, len |-> all - m]
  BY DEF CopiedTo
<1>2. st2 = [err |-> x, H |-> st.H, S |-> st.S, T |-> st.T, len |-> all - m]
  BY <1>1
<1>3. /\ st2 = [err |-> st2.err, H |-> st2.H, S |-> st2.S, T |-> st2.T, len |-> all - m]
      /\ st2.H = st.H /\ st2.S = st.S /\ st2.T = st.T
  BY <1>2
<1>4. QED
  BY <1>3 DEF CopiedTo

\* A chunk put is copied behind the others.
LEMMA ChunkPut ==
  ASSUME NEW H, NEW h, NEW A, NEW S, NEW T, NEW all, Streaming(H, h, A, S, T, all),
         NEW st, NEW m, NEW bytes, CopiedTo(H, h, A, S, T, all, st, m, bytes),
         NEW chunk, NEW n, NEW put, Chunked(H, A, S, T, all, st, m, chunk, n, put),
         put.err = "OK", NEW st2, st2 = Moved(st, n, put)
  PROVE  CopiedTo(H, h, A, S, T, all, st2, m + n, bytes \o chunk)
<1>1. PICK G, F, p, t, o, k, ab : /\ G = st.H /\ F = put.H /\ p = S.pbuf /\ t = T.pbuf
                                  /\ o = S.offset /\ k = m + n /\ ab = bytes \o chunk
  OBVIOUS
<1>2. HeapOk(H, h) /\ MemoryOf(H, A) /\ InReach(S, H) /\ InReach(T, H)
      /\ ToSet(Chain(H, p)) \cap ToSet(Chain(H, t)) = {}
      /\ all \in Nat /\ all <= S.length /\ all <= T.length
  BY <1>1 DEF Streaming
<1>3. HeapOk(G, h) /\ SameShape(H, G) /\ MemoryOf(G, A) /\ m \in Nat /\ m <= all
      /\ MovedBy(S, H, m, st.S) /\ MovedBy(T, H, m, st.T)
      /\ bytes \in Seq(A) /\ Len(bytes) = m
      /\ Content(G, t) = Overlaid(Content(H, t), bytes, T.offset)
  BY <1>1 DEF CopiedTo
<1>4. n \in Nat /\ n <= all - m /\ chunk \in Seq(A) /\ Len(chunk) = n
  BY DEF Chunked
<1>5. p \in DOMAIN H /\ t \in DOMAIN H /\ S.offset \in Nat /\ S.length \in Nat
      /\ T.offset \in Nat /\ T.length \in Nat
  BY <1>1, <1>2 DEF InReach, IsStream
<1>6. \A q \in DOMAIN H : Chain(G, q) = Chain(H, q) /\ q \in DOMAIN G
  <2>1. DOMAIN G = DOMAIN H
    BY <1>3 DEF SameShape
  <2>2. QED
    BY <1>2, <1>3, <2>1, ChainsStay
<1>7. st.T.pbuf = t /\ st.T.offset = T.offset + m /\ st.S.offset = o + m
      /\ st.S.length = S.length - m
  BY <1>1, <1>3 DEF MovedBy
<1>8. Overwritten(G, F, Chain(G, t), chunk, T.offset + m) /\ MemoryOf(F, A)
      /\ put.S = Onward(st.T, n) /\ n <= st.T.length
  <2>1. Puts(G, A, st.T, Chain(G, t), chunk, put)
    BY <1>1 DEF Chunked
  <2>2. QED
    BY <1>1, <1>4, <1>7, <2>1 DEF Puts
<1>9. /\ HeapOk(F, h) /\ SameShape(G, F)
      /\ Content(F, t) = Overlaid(Content(G, t), chunk, T.offset + m)
      /\ \A q \in DOMAIN G : ToSet(Chain(G, q)) \cap ToSet(Chain(G, t)) = {} =>
           Content(F, q) = Content(G, q)
  <2>1. T.offset + m \in Int /\ t \in DOMAIN G
    BY <1>3, <1>5, <1>6
  <2>2. QED
    BY <1>3, <1>4, <1>8, <2>1, PutContents
<1>10. SameShape(H, F)
  <2>1. Structs(H)
    BY <1>2 DEF HeapOk, Linked, Structs
  <2>2. QED
    BY <1>3, <1>9, <2>1, ShapesFollow
<1>11. Content(H, t) \in Seq(A)
  BY <1>2, <1>5, ContentIs
<1>12. ab \in Seq(A) /\ Len(ab) = k /\ Content(F, t) = Overlaid(Content(H, t), ab, T.offset)
  <2>1. PICK s, x : s = Content(H, t) /\ x = T.offset
    OBVIOUS
  <2>2. s \in Seq(A) /\ bytes \in Seq(A) /\ chunk \in Seq(A) /\ x \in Int
    BY <1>3, <1>4, <1>5, <1>11, <2>1
  <2>3. /\ bytes \o chunk \in Seq(A) /\ Len(bytes \o chunk) = Len(bytes) + Len(chunk)
        /\ Overlaid(Overlaid(s, bytes, x), chunk, x + Len(bytes)) = Overlaid(s, bytes \o chunk, x)
    BY <2>2, OverlaidTwice
  <2>4. QED
    BY <1>1, <1>3, <1>4, <1>9, <2>1, <2>3
<1>13. ASSUME NEW q \in DOMAIN H, ToSet(Chain(H, q)) \cap ToSet(Chain(H, t)) = {}
       PROVE  Content(F, q) = Content(H, q)
  <2>1. Content(F, q) = Content(G, q)
    BY <1>5, <1>6, <1>9, <1>13
  <2>2. Content(G, q) = Content(H, q)
    BY <1>1, <1>13 DEF CopiedTo
  <2>3. QED
    BY <2>1, <2>2
<1>14. k \in Nat /\ k <= all /\ (all - m) - n = all - k /\ (o + m) + n = o + k
  <2>1. o \in Nat /\ k = m + n
    BY <1>1, <1>5
  <2>2. QED
    BY <1>2, <1>3, <1>4, <2>1
<1>15. st2 = [err |-> st.err, H |-> F, S |-> Advanced(st.S, n), T |-> put.S, len |-> all - k]
  <2>1. st = [err |-> st.err, H |-> st.H, S |-> st.S, T |-> st.T, len |-> all - m]
    BY DEF CopiedTo
  <2>2. st2 = [st EXCEPT !.H = F, !.T = put.S, !.S = Advanced(@, n), !.len = @ - n]
    BY <1>1 DEF Moved
  <2>3. PICK x, y, z : x = Advanced(st.S, n) /\ y = put.S /\ z = (all - m) - n
    OBVIOUS
  <2>4. st.len = all - m
    BY <2>1
  <2>5. st2 = [st EXCEPT !.H = F, !.T = y, !.S = x, !.len = z]
    BY <2>2, <2>3, <2>4
  <2>6. st2 = [err |-> st.err, H |-> F, S |-> x, T |-> y, len |-> z]
    BY <2>1, <2>5
  <2>7. QED
    BY <1>14, <2>3, <2>6
<1>16. MovedBy(S, H, k, Advanced(st.S, n))
  <2>1. InReach(st.S, H) /\ n \in Int /\ m \in Int
    BY <1>3, <1>4 DEF MovedBy
  <2>2. st.S.offset + n >= 0 /\ n <= st.S.length
    <3>1. o \in Nat /\ st.S.offset = o + m
      BY <1>1, <1>5, <1>7
    <3>2. PICK l : l = S.length
      OBVIOUS
    <3>3. l \in Nat /\ st.S.length = l - m /\ all <= l
      BY <1>2, <1>5, <1>7, <3>2
    <3>4. QED
      BY <1>2, <1>3, <1>4, <3>1, <3>3
  <2>3. MovedBy(st.S, H, n, Advanced(st.S, n))
    BY <1>2, <2>1, <2>2, OnwardIs
  <2>4. QED
    BY <1>1, <1>2, <1>3, <2>1, <2>3, MovesAdd
<1>17. MovedBy(T, H, k, put.S)
  <2>1. InReach(st.T, H) /\ n \in Int /\ m \in Int
    BY <1>3, <1>4 DEF MovedBy
  <2>2. st.T.offset + n >= 0 /\ n <= st.T.length
    BY <1>3, <1>4, <1>5, <1>7, <1>8
  <2>3. MovedBy(st.T, H, n, put.S)
    BY <1>2, <1>8, <2>1, <2>2, OnwardIs
  <2>4. QED
    BY <1>1, <1>2, <1>3, <2>1, <2>3, MovesAdd
<1>18. ASSUME Exact(H, Chain(H, p), o, all)
       PROVE  /\ Exact(H, Chain(H, p), o + k, all - k)
              /\ \A j \in 1 .. k : ab[j] = Content(H, p)[o + j]
  <2>1. /\ Exact(H, Chain(H, p), o + m, all - m)
        /\ \A j \in 1 .. m : bytes[j] = Content(H, p)[o + j]
    BY <1>1, <1>18 DEF CopiedTo
  <2>2. /\ Exact(H, Chain(H, p), (o + m) + n, (all - m) - n)
        /\ \A j \in 1 .. n : chunk[j] = Content(H, p)[(o + m) + j]
    BY <1>1, <2>1 DEF Chunked
  <2>3. ASSUME NEW j \in 1 .. k
        PROVE  ab[j] = Content(H, p)[o + j]
    <3>1. CASE j <= m
      <4>1. j \in 1 .. m
        BY <1>3, <1>14, <3>1
      <4>2. ab[j] = bytes[j]
        BY <1>1, <1>3, <1>4, <4>1
      <4>3. QED
        BY <2>1, <4>1, <4>2
    <3>2. CASE ~ (j <= m)
      <4>1. PICK i : i = j - m
        OBVIOUS
      <4>2. i \in 1 .. n /\ j = m + i /\ (o + m) + i = o + j
        BY <1>1, <1>3, <1>4, <1>5, <1>14, <3>2, <4>1
      <4>3. ab[j] = chunk[i]
        BY <1>1, <1>3, <1>4, <4>2
      <4>4. chunk[i] = Content(H, p)[(o + m) + i]
        BY <2>2, <4>2
      <4>5. QED
        BY <4>2, <4>3, <4>4
    <3>3. QED
      BY <3>1, <3>2
  <2>4. Exact(H, Chain(H, p), o + k, all - k)
    BY <1>14, <2>2
  <2>5. QED
    BY <2>3, <2>4
<1>19. /\ st2 = [err |-> st2.err, H |-> st2.H, S |-> st2.S, T |-> st2.T, len |-> all - k]
       /\ st2.H = F /\ st2.S = Advanced(st.S, n) /\ st2.T = put.S
  BY <1>15
<1>20. CopiedTo(H, h, A, S, T, all, st2, k, ab)
  <2>1. HeapOk(st2.H, h) /\ SameShape(H, st2.H) /\ MemoryOf(st2.H, A)
    BY <1>8, <1>9, <1>10, <1>19
  <2>2. k \in Nat /\ k <= all /\ ab \in Seq(A) /\ Len(ab) = k
    BY <1>12, <1>14
  <2>3. MovedBy(S, H, k, st2.S) /\ MovedBy(T, H, k, st2.T)
    BY <1>16, <1>17, <1>19
  <2>4. Content(st2.H, T.pbuf) = Overlaid(Content(H, T.pbuf), ab, T.offset)
    BY <1>1, <1>12, <1>19
  <2>5. \A q \in DOMAIN H : ToSet(Chain(H, q)) \cap ToSet(Chain(H, T.pbuf)) = {} =>
          Content(st2.H, q) = Content(H, q)
    BY <1>1, <1>13, <1>19
  <2>6. Exact(H, Chain(H, S.pbuf), S.offset, all) =>
          /\ Exact(H, Chain(H, S.pbuf), S.offset + k, all - k)
          /\ \A j \in 1 .. k : ab[j] = Content(H, S.pbuf)[S.offset + j]
    BY <1>1, <1>18
  <2>7. QED
    BY <1>19, <2>1, <2>2, <2>3, <2>4, <2>5, <2>6 DEF CopiedTo
<1>21. QED
  BY <1>1, <1>20

\* The loop is somewhere.
CopiedSome(H, h, A, S, T, all, st) ==
  \E m, bytes : CopiedTo(H, h, A, S, T, all, st, m, bytes)

\* A turn, whether it copies or fails, leaves it somewhere.
LEMMA TurnCopies ==
  ASSUME NEW H, NEW h, NEW A, NEW S, NEW T, NEW all, Streaming(H, h, A, S, T, all),
         NEW st, CopiedSome(H, h, A, S, T, all, st)
  PROVE  CopiedSome(H, h, A, S, T, all, MoveStep(st))
<1>1. PICK m, bytes : CopiedTo(H, h, A, S, T, all, st, m, bytes)
  BY DEF CopiedSome
<1>2. st.len = all - m
  BY <1>1 DEF CopiedTo
<1>3. CASE st.len = 0 \/ st.err # "OK"
  BY <1>3 DEF MoveStep
<1>4. CASE ~ (st.len = 0 \/ st.err # "OK")
  <2>1. MoveStep(st) = WriteToTurn(st) /\ all - m # 0
    BY <1>2, <1>4 DEF MoveStep
  <2>2. CASE WriteToTurn(st) = [st EXCEPT !.err = "BUF"]
    <3>1. CopiedTo(H, h, A, S, T, all, MoveStep(st), m, bytes)
      BY <1>1, <2>1, <2>2, TurnFails
    <3>2. QED
      BY <3>1 DEF CopiedSome
  <2>3. ASSUME NEW chunk, NEW n, NEW put, Chunked(H, A, S, T, all, st, m, chunk, n, put),
               WriteToTurn(st) = Moved(st, n, put)
        PROVE  CopiedSome(H, h, A, S, T, all, MoveStep(st))
    <3>1. CASE put.err # "OK"
      <4>1. PICK x : x = put.err
        OBVIOUS
      <4>2. MoveStep(st) = [st EXCEPT !.err = x]
        BY <2>1, <2>3, <3>1, <4>1 DEF Moved
      <4>3. CopiedTo(H, h, A, S, T, all, MoveStep(st), m, bytes)
        BY <1>1, <4>2, TurnFails
      <4>4. QED
        BY <4>3 DEF CopiedSome
    <3>2. CASE put.err = "OK"
      <4>1. CopiedTo(H, h, A, S, T, all, MoveStep(st), m + n, bytes \o chunk)
        BY <1>1, <2>1, <2>3, <3>2, ChunkPut
      <4>2. QED
        BY <4>1 DEF CopiedSome
    <3>3. QED
      BY <3>1, <3>2
  <2>4. QED
    BY <1>1, <2>1, <2>2, <2>3, TurnTakesChunk
<1>5. QED
  BY <1>3, <1>4

\* The outcome of snmp_pbuf_stream_writeto(): nothing, or some of the bytes asked for
\* are copied.
CopyResult(H, h, A, S, T, put) ==
  \/ put.H = H /\ put.S = S /\ put.T = T
  \/ \E all : Streaming(H, h, A, S, T, all) /\ CopiedSome(H, h, A, S, T, all, put)

\* snmp_pbuf_stream_writeto().
LEMMA WriteToCopies ==
  ASSUME NEW H, NEW h, NEW A, NEW S, NEW T, Streaming(H, h, A, S, T, 0), NEW len \in Nat
  PROVE  CopyResult(H, h, A, S, T, WriteTo(H, S, T, len))
<1>1. PICK all : all = IF len = 0 THEN Smaller(S.length, T.length) ELSE len
  OBVIOUS
<1>2. all \in Nat /\ S.length \in Nat /\ T.length \in Nat
  BY <1>1 DEF Streaming, InReach, IsStream, Smaller
<1>3. PICK start, none : start = [err |-> "OK", H |-> H, S |-> S, T |-> T, len |-> all]
                         /\ none = [err |-> "ARG", H |-> H, S |-> S, T |-> T, len |-> len]
  OBVIOUS
<1>4. PICK after : after = CHOOSE f : MovingOn(f, all, start)
  OBVIOUS
<1>5. MovingOn(after, all, start)
  BY <1>2, <1>4, MoveRuns
<1>6. WriteTo(H, S, T, len) = IF len > S.length \/ len > T.length THEN none ELSE after[all]
  BY <1>1, <1>3, <1>4 DEF WriteTo, MovingOn, MoveStep
<1>7. CASE len > S.length \/ len > T.length
  BY <1>3, <1>6, <1>7 DEF CopyResult
<1>8. CASE ~ (len > S.length \/ len > T.length)
  <2>1. all <= S.length /\ all <= T.length
    BY <1>1, <1>2, <1>8 DEF Smaller
  <2>2. Streaming(H, h, A, S, T, all)
    BY <1>2, <2>1 DEF Streaming
  <2>3. CopiedSome(H, h, A, S, T, all, after[all])
    <3> DEFINE P == {i \in 0 .. all : CopiedSome(H, h, A, S, T, all, after[i])}
    <3>1. 0 \in P
      <4>1. after[0] = start
        BY <1>2, <1>5 DEF MovingOn
      <4>2. CopiedTo(H, h, A, S, T, all, start, 0, <<>>)
        BY <1>3, <2>2, CopyBegins
      <4>3. CopiedSome(H, h, A, S, T, all, after[0])
        BY <4>1, <4>2 DEF CopiedSome
      <4>4. QED
        BY <1>2, <4>3
    <3>2. ASSUME NEW i \in 0 .. all - 1, i \in P
          PROVE  i + 1 \in P
      <4>1. i + 1 \in 0 .. all /\ i + 1 # 0 /\ (i + 1) - 1 = i
        BY <1>2
      <4>2. after[i + 1] = MoveStep(after[i])
        BY <1>5, <4>1 DEF MovingOn
      <4>3. CopiedSome(H, h, A, S, T, all, after[i])
        BY <3>2
      <4>4. CopiedSome(H, h, A, S, T, all, MoveStep(after[i]))
        BY <2>2, <4>3, TurnCopies
      <4>5. QED
        BY <4>1, <4>2, <4>4
    <3>3. all \in P
      <4> HIDE DEF P
      <4>1. all \in 0 .. all
        BY <1>2
      <4>2. QED
        BY <1>2, <3>1, <3>2, <4>1, CountingUp
    <3>4. QED
      BY <3>3
  <2>4. WriteTo(H, S, T, len) = after[all]
    BY <1>6, <1>8
  <2>5. QED
    BY <2>2, <2>3, <2>4 DEF CopyResult
<1>9. QED
  BY <1>7, <1>8

-----------------------------------------------------------------------------
(* The streams implement streams over one sequence of bytes.               *)

\* One pbuf has the byte at an offset.
LEMMA WithinOnce ==
  ASSUME NEW H, NEW p, NEW c, Laid(H, p, c), NEW n \in Nat, NEW i, Within(H, c, i, n),
         NEW j, Within(H, c, j, n)
  PROVE  i = j
<1>1. ASSUME NEW x, Within(H, c, x, n), NEW y, Within(H, c, y, n), x < y
      PROVE  FALSE
  <2>1. PICK bx, lx, by : bx = Before(H, c, x) /\ lx = H[c[x]].len /\ by = Before(H, c, y)
    OBVIOUS
  <2>2. x \in 1 .. Len(c) /\ y \in 1 .. Len(c) /\ n < bx + lx /\ by <= n
        /\ bx \in Nat /\ lx \in Nat /\ by \in Nat
    BY <1>1, <2>1 DEF Within, Laid
  <2>3. bx + lx <= by
    BY <1>1, <2>1, <2>2, BeforeOrdered
  <2>4. QED
    BY <2>2, <2>3
<1>2. i \in Int /\ j \in Int
  BY DEF Within
<1>3. ~ (i < j) /\ ~ (j < i)
  BY <1>1
<1>4. QED
  BY <1>2, <1>3

\* What stream S is in reach of, it can be copied from as the run's property says.
LEMMA ExactFrom ==
  ASSUME HeapInv, NEW s, NEW S, S = streams[s], InReach(S, pbufs), CopiesExactly(s),
         NEW all \in Nat, all <= S.length, NEW c, c = Chain(pbufs, S.pbuf)
  PROVE  Exact(pbufs, c, S.offset, all)
<1>1. CASE all = 0
  BY <1>1 DEF Exact
<1>2. CASE all # 0
  <2>1. PICK p, o, l, e : /\ p = S.pbuf /\ o = S.offset /\ l = S.length /\ e = o + l - 1
    OBVIOUS
  <2>2. PICK x : x = pbufs[p].tot_len
    OBVIOUS
  <2>3. p \in DOMAIN pbufs /\ o \in Nat /\ l \in Nat /\ o + l <= x
    BY <2>1, <2>2 DEF InReach, IsStream
  <2>4. HeapOk(pbufs, held)
    BY DEF HeapInv
  <2>5. Laid(pbufs, p, c) /\ IsChain(pbufs, p, c)
    BY <2>1, <2>3, <2>4, LaidIs
  <2>6. x \in Nat
    BY <2>2, <2>5, ConstantsAssumption DEF Laid, ConstantsAssumption
  <2>7. l # 0 /\ o < x /\ e \in Nat /\ e < x /\ e = (o + l) - 1 /\ all <= l
    BY <1>2, <2>1, <2>3, <2>6
  <2>8. PICK i \in 1 .. Len(c) : /\ Within(pbufs, c, i, o)
                                 /\ Skip(pbufs, p, o) = [q |-> c[i], offset |-> o - Before(pbufs, c, i)]
    BY <2>2, <2>3, <2>5, <2>7, SkipFinds
  <2>9. PICK j \in 1 .. Len(c) : /\ Within(pbufs, c, j, e)
                                 /\ Skip(pbufs, p, e) = [q |-> c[j], offset |-> e - Before(pbufs, c, j)]
    BY <2>2, <2>5, <2>7, SkipFinds
  <2>10. Skip(pbufs, p, o).offset = 0 \/ Skip(pbufs, p, o).q = Skip(pbufs, p, e).q
    BY <2>1, <2>7 DEF CopiesExactly
  <2>11. o - Before(pbufs, c, i) = 0 \/ c[i] = c[j]
    BY <2>8, <2>9, <2>10
  <2>12. PICK b, n : b = Before(pbufs, c, i) /\ n = pbufs[c[i]].len
    OBVIOUS
  <2>13. b \in Nat /\ n \in Nat
    BY <2>5, <2>12 DEF Laid
  <2>14. o = b \/ o + all <= b + n
    <3>1. CASE o - Before(pbufs, c, i) = 0
      BY <2>3, <2>12, <2>13, <3>1
    <3>2. CASE c[i] = c[j]
      <4>1. i = j
        BY <2>5, <3>2 DEF IsChain
      <4>2. e < b + n
        BY <2>9, <2>12, <4>1 DEF Within
      <4>3. o \in Nat /\ l \in Nat /\ e = (o + l) - 1 /\ all <= l
        BY <2>3, <2>7
      <4>4. o + all <= b + n
        BY <2>13, <4>2, <4>3
      <4>5. QED
        BY <4>4
    <3>3. QED
      BY <2>11, <3>1, <3>2
  <2>15. ASSUME NEW k \in 1 .. Len(c), Within(pbufs, c, k, o)
         PROVE  o = Before(pbufs, c, k) \/ o + all <= Before(pbufs, c, k) + pbufs[c[k]].len
    <3>1. k = i
      BY <2>3, <2>5, <2>8, <2>15, WithinOnce
    <3>2. QED
      BY <2>12, <2>14, <3>1
  <2>16. QED
    BY <2>1, <2>15 DEF Exact
<1>3. QED
  BY <1>1, <1>2

\* Chains that nothing else leads into do not meet, unless they are the same.
LEMMA ChainsApart ==
  ASSUME HeapInv, NEW p \in DOMAIN pbufs, NEW q \in DOMAIN pbufs, p # q,
         Exclusive(p), Exclusive(q)
  PROVE  ToSet(Chain(pbufs, p)) \cap ToSet(Chain(pbufs, q)) = {}
<1>1. PICK c, d, m, n : c = Chain(pbufs, p) /\ d = Chain(pbufs, q) /\ m = Len(c) /\ n = Len(d)
  OBVIOUS
<1>2. Alone(pbufs, c) /\ Alone(pbufs, d) /\ IsChain(pbufs, p, c) /\ IsChain(pbufs, q, d)
  BY <1>1, GuardsAre
<1>3. c \in Seq(DOMAIN pbufs) /\ d \in Seq(DOMAIN pbufs) /\ c[1] = p /\ d[1] = q
      /\ m \in Nat /\ n \in Nat /\ DOMAIN c = 1 .. m /\ DOMAIN d = 1 .. n
  BY <1>1, <1>2 DEF IsChain, LinkedFrom
<1>4. \A i \in 1 .. m : LinksTo(pbufs, c[i]) = IF i = 1 THEN {} ELSE {c[i - 1]}
  BY <1>1, <1>2 DEF Alone
<1>5. \A j \in 1 .. n : LinksTo(pbufs, d[j]) = IF j = 1 THEN {} ELSE {d[j - 1]}
  BY <1>1, <1>2 DEF Alone
<1> DEFINE P == {i \in Nat : i \in 1 .. m => \A j \in 1 .. n : c[i] # d[j]}
<1>6. 0 \in P
  OBVIOUS
<1>7. ASSUME NEW i \in 0 .. m - 1, i \in P
      PROVE  i + 1 \in P
  <2>1. SUFFICES ASSUME NEW j \in 1 .. n, c[i + 1] = d[j]
                 PROVE  FALSE
    BY <1>3
  <2>2. i + 1 \in 1 .. m /\ (i + 1) - 1 = i /\ i \in Nat
    BY <1>3
  <2>3. LinksTo(pbufs, c[i + 1]) = IF i + 1 = 1 THEN {} ELSE {c[i]}
    BY <1>4, <2>2
  <2>4. LinksTo(pbufs, c[i + 1]) = IF j = 1 THEN {} ELSE {d[j - 1]}
    BY <1>5, <2>1
  <2>5. CASE i = 0
    <3>1. j = 1
      BY <2>3, <2>4, <2>5
    <3>2. QED
      BY <1>3, <2>1, <2>5, <3>1
  <2>6. CASE i # 0
    <3>1. i \in 1 .. m /\ i + 1 # 1
      BY <1>3, <2>2, <2>6
    <3>2. j # 1 /\ d[j - 1] = c[i]
      BY <2>3, <2>4, <3>1
    <3>3. j - 1 \in 1 .. n
      BY <1>3, <3>2
    <3>4. QED
      BY <1>7, <3>1, <3>2, <3>3
  <2>7. QED
    BY <2>5, <2>6
<1>8. \A i \in 0 .. m : i \in P
  <2> HIDE DEF P
  <2>1. QED
    BY <1>3, <1>6, <1>7, CountingUp
<1>9. \A i \in 1 .. m, j \in 1 .. n : c[i] # d[j]
  BY <1>3, <1>8
<1>10. QED
  BY <1>1, <1>3, <1>9 DEF ToSet

\* The streams ss are open over parts of chains of their own.
Reaching(H, ss) ==
  /\ DOMAIN ss = Streams /\ ss = [s \in Streams |-> ss[s]]
  /\ \A s \in Streams : InReach(ss[s], H)
  /\ \A s, t \in Streams : s # t =>
       ToSet(Chain(H, ss[s].pbuf)) \cap ToSet(Chain(H, ss[t].pbuf)) = {}

\* What they are over, where they are, and what is left of them.
DataOf(H, ss) == [s \in Streams |-> IF s \in DOMAIN ss THEN Content(H, ss[s].pbuf) ELSE <<>>]
AtOf(ss) == [s \in Streams |-> IF s \in DOMAIN ss THEN ss[s].offset ELSE 0]
LeftOf(ss) == [s \in Streams |-> IF s \in DOMAIN ss THEN ss[s].length ELSE 0]

\* Of a stream that is open.
LEMMA OpenValues ==
  ASSUME NEW H, NEW ss, DOMAIN ss = Streams, NEW s \in Streams
  PROVE  /\ DataOf(H, ss)[s] = Content(H, ss[s].pbuf)
         /\ AtOf(ss)[s] = ss[s].offset /\ LeftOf(ss)[s] = ss[s].length
BY DEF DataOf, AtOf, LeftOf

\* Bytes have been put into the chain of a stream t, and all of the others hold what they held.
PutInto(H, G, A, h, ss, t, bytes) ==
  /\ HeapOk(G, h) /\ SameShape(H, G) /\ MemoryOf(G, A)
  /\ Content(G, ss[t].pbuf) = Overlaid(Content(H, ss[t].pbuf), bytes, ss[t].offset)
  /\ \A p \in DOMAIN H : ToSet(Chain(H, p)) \cap ToSet(Chain(H, ss[t].pbuf)) = {} =>
       Content(G, p) = Content(H, p)

\* The streams are those over the same chains, moved.
Follow(H, ss, tt) ==
  /\ DOMAIN tt = Streams /\ tt = [s \in Streams |-> tt[s]]
  /\ \A s \in Streams : tt[s].pbuf = ss[s].pbuf /\ InReach(tt[s], H)

\* The stream t has been put bytes into, and its streams are tt then.
PutThere(H, G, A, h, ss, t, bytes, tt) ==
  /\ HeapOk(H, h) /\ Reaching(H, ss) /\ t \in Streams
  /\ PutInto(H, G, A, h, ss, t, bytes) /\ Follow(H, ss, tt)
OnlyPut(H, G, ss, t, bytes, tt) ==
  DataOf(G, tt) = [DataOf(H, ss) EXCEPT ![t] = Overlaid(@, bytes, ss[t].offset)]

\* The streams stay in reach, and only t is over other bytes.
LEMMA StreamsPut ==
  ASSUME NEW H, NEW G, NEW A, NEW h, NEW ss, NEW t, NEW bytes, NEW tt,
         PutThere(H, G, A, h, ss, t, bytes, tt)
  PROVE  Reaching(G, tt) /\ OnlyPut(H, G, ss, t, bytes, tt)
<1>0. /\ HeapOk(H, h) /\ Reaching(H, ss) /\ t \in Streams
      /\ PutInto(H, G, A, h, ss, t, bytes) /\ Follow(H, ss, tt)
  BY DEF PutThere
<1>1. SameShape(H, G)
  BY <1>0 DEF PutInto
<1>2. \A p \in DOMAIN H : Chain(G, p) = Chain(H, p)
  BY <1>0, <1>1, ChainsStay
<1>3. DOMAIN ss = Streams /\ DOMAIN tt = Streams
      /\ \A s \in Streams : /\ tt[s].pbuf = ss[s].pbuf /\ InReach(tt[s], H)
                            /\ ss[s].pbuf \in DOMAIN H
  BY <1>0 DEF Follow, Reaching, InReach, IsStream
<1>4. \A s \in Streams : InReach(tt[s], G)
  BY <1>0, <1>1, <1>3, ReachStays
<1>5. Reaching(G, tt)
  <2>1. tt = [s \in Streams |-> tt[s]]
    BY <1>0 DEF Follow
  <2>2. \A s, t1 \in Streams : s # t1 =>
          ToSet(Chain(G, tt[s].pbuf)) \cap ToSet(Chain(G, tt[t1].pbuf)) = {}
    BY <1>0, <1>2, <1>3 DEF Reaching
  <2>3. QED
    BY <1>3, <1>4, <2>1, <2>2 DEF Reaching
<1>6. PICK f, g : f = DataOf(H, ss) /\ g = DataOf(G, tt)
  OBVIOUS
<1>7. f = [s \in Streams |-> Content(H, ss[s].pbuf)] /\ g = [s \in Streams |-> Content(G, ss[s].pbuf)]
  BY <1>3, <1>6 DEF DataOf
<1>8. PICK new : new = Overlaid(f[t], bytes, ss[t].offset)
  OBVIOUS
<1>9. Content(G, ss[t].pbuf) = new
  BY <1>0, <1>7, <1>8 DEF PutInto
<1>10. \A s \in Streams : s # t => Content(G, ss[s].pbuf) = f[s]
  BY <1>0, <1>3, <1>7 DEF PutInto, Reaching
<1>11. g = [f EXCEPT ![t] = new]
  BY <1>0, <1>7, <1>9, <1>10
<1>12. QED
  BY <1>5, <1>6, <1>8, <1>11 DEF OnlyPut

\* The bytes a write has put.
LEMMA WritePuts ==
  ASSUME NEW H, NEW h, HeapOk(H, h), NEW A, MemoryOf(H, A), NEW ss, Reaching(H, ss),
         NEW s \in Streams, NEW bytes \in Seq(A), NEW put,
         Puts(H, A, ss[s], Chain(H, ss[s].pbuf), bytes, put), put.err = "OK"
  PROVE  PutInto(H, put.H, A, h, ss, s, bytes) /\ put.S = Onward(ss[s], Len(bytes))
         /\ Len(bytes) <= ss[s].length
<1>1. PICK p, o, c : p = ss[s].pbuf /\ o = ss[s].offset /\ c = Chain(H, p)
  OBVIOUS
<1>2. p \in DOMAIN H /\ o \in Int
  BY <1>1 DEF Reaching, InReach, IsStream
<1>3. Overwritten(H, put.H, c, bytes, o) /\ MemoryOf(put.H, A)
      /\ put.S = Onward(ss[s], Len(bytes)) /\ Len(bytes) <= ss[s].length
  BY <1>1 DEF Puts
<1>4. /\ HeapOk(put.H, h) /\ SameShape(H, put.H)
      /\ Content(put.H, p) = Overlaid(Content(H, p), bytes, o)
      /\ \A q \in DOMAIN H : ToSet(Chain(H, q)) \cap ToSet(c) = {} =>
           Content(put.H, q) = Content(H, q)
  BY <1>1, <1>2, <1>3, PutContents
<1>5. QED
  BY <1>1, <1>3, <1>4 DEF PutInto

\* And those a copy has put.
LEMMA CopyPuts ==
  ASSUME NEW H, NEW h, NEW A, NEW ss, NEW s, NEW t, NEW all, NEW put, NEW m, NEW bytes,
         CopiedTo(H, h, A, ss[s], ss[t], all, put, m, bytes)
  PROVE  PutInto(H, put.H, A, h, ss, t, bytes)
BY DEF CopiedTo, PutInto

\* The invariant of the refinement: the heap is in order and holds bytes only, and the
\* streams, once they are open, are in reach of chains of their own.
RefInv ==
  /\ HeapInv /\ MemoryOf(pbufs, Bytes)
  /\ IF Closed THEN byte = NoByte ELSE Reaching(pbufs, streams)

\* The bytes that are written are some.
LEMMA BytesAre ==
  /\ 0 \in Bytes /\ \A d \in Data \cup External : d \in Seq(Bytes)
  /\ \A d \in StreamData : d \in Seq(Bytes)
<1>1. ASSUME NEW d \in StreamData \cup Data \cup External, d \in Seq(ToSet(d))
      PROVE  d \in Seq(Bytes)
  <2>1. \A x \in ToSet(d) : x \in Bytes
    BY DEF Bytes
  <2>2. QED
    BY <1>1, <2>1
<1>2. \A d \in Data : d \in Seq(ToSet(d))
  BY DataAssumption DEF DataAssumption
<1>3. \A d \in External : d \in Seq(ToSet(d))
  BY ConstantsAssumption DEF ConstantsAssumption
<1>4. \A d \in StreamData : d \in Seq(ToSet(d))
  BY StreamDataAssumption DEF StreamDataAssumption
<1>5. QED
  BY <1>1, <1>2, <1>3, <1>4 DEF Bytes

\* A call of pbuf.c while no stream is open is none of the streams'.
LEMMA ClosedStep ==
  ASSUME RefInv, Closed, Next, UNCHANGED <<streams, byte>>
  PROVE  RefInv' /\ UNCHANGED Abstract!vars
<1>1. HeapInv'
  BY HeapStep DEF RefInv
<1>2. MemoryOf(pbufs', Bytes)
  BY BytesAre, MemoryStep DEF RefInv
<1>3. DOMAIN streams = {}
  BY DEF Closed
<1>4. UNCHANGED Abstract!vars
  BY <1>3 DEF Abstract!vars, IsOpen, Closed
<1>5. QED
  BY <1>1, <1>2, <1>4 DEF RefInv, Closed

\* A call that fails changes nothing but the byte that is delivered.
LEMMA FailedStep ==
  ASSUME RefInv, ~ Closed, pbufs' = pbufs, held' = held, streams' = streams, byte' = NoByte
  PROVE  RefInv' /\ Abstract!Fail
<1>1. RefInv'
  BY DEF RefInv, Closed, HeapInv
<1>2. Abstract!Fail
  BY DEF Abstract!Fail, IsOpen
<1>3. QED
  BY <1>1, <1>2

\* What the invariant says of streams that are open.
LEMMA WhileOpen ==
  ASSUME RefInv, NEW s \in DOMAIN streams
  PROVE  /\ ~ Closed /\ Reaching(pbufs, streams) /\ DOMAIN streams = Streams /\ s \in Streams
         /\ HeapOk(pbufs, held) /\ MemoryOf(pbufs, Bytes)
         /\ InReach(streams[s], pbufs) /\ streams[s].pbuf \in DOMAIN pbufs
         /\ streams[s].offset \in Nat /\ streams[s].length \in Nat
         /\ streams[s].offset + streams[s].length <= pbufs[streams[s].pbuf].tot_len
<1>1. ~ Closed
  BY DEF Closed
<1>2. Reaching(pbufs, streams) /\ HeapOk(pbufs, held) /\ MemoryOf(pbufs, Bytes)
  BY <1>1 DEF RefInv, HeapInv
<1>3. DOMAIN streams = Streams /\ InReach(streams[s], pbufs)
  BY <1>2 DEF Reaching
<1>4. QED
  BY <1>1, <1>2, <1>3 DEF InReach, IsStream

\* The heap and the streams after a step in which streams move.
LEMMA StillOpen ==
  ASSUME RefInv, NEW s \in DOMAIN streams, HeapOk(pbufs', held'), MemoryOf(pbufs', Bytes),
         Reaching(pbufs', streams')
  PROVE  RefInv'
<1>1. ~ (streams' = <<>>)
  <2>1. DOMAIN streams' = Streams /\ s \in Streams
    BY WhileOpen DEF Reaching
  <2>2. QED
    BY <2>1
<1>2. QED
  BY <1>1 DEF RefInv, HeapInv, Closed

\* The stream s has moved by n, and none else.
OneMoved(H, ss, s, n, tt) ==
  /\ Reaching(H, ss) /\ s \in Streams
  /\ tt = [ss EXCEPT ![s] = tt[s]] /\ MovedBy(ss[s], H, n, tt[s])
Shifted(ss, s, n, tt) ==
  /\ AtOf(tt) = [AtOf(ss) EXCEPT ![s] = @ + n]
  /\ LeftOf(tt) = [LeftOf(ss) EXCEPT ![s] = @ - n]

\* Streams that only move stay in reach.
LEMMA MovesStay ==
  ASSUME NEW H, NEW ss, NEW s, NEW n, NEW tt, OneMoved(H, ss, s, n, tt)
  PROVE  /\ Follow(H, ss, tt) /\ Reaching(H, tt) /\ Shifted(ss, s, n, tt)
         /\ DataOf(H, tt) = DataOf(H, ss)
<1>0. PICK X : X = tt[s]
  OBVIOUS
<1>1. /\ DOMAIN ss = Streams /\ \A r \in Streams : InReach(ss[r], H)
      /\ s \in Streams /\ tt = [ss EXCEPT ![s] = X] /\ MovedBy(ss[s], H, n, X)
      /\ Reaching(H, ss)
  BY <1>0 DEF Reaching, OneMoved
<1>2. X.pbuf = ss[s].pbuf /\ InReach(X, H)
      /\ X.offset = ss[s].offset + n /\ X.length = ss[s].length - n
  BY <1>1 DEF MovedBy
<1>3. DOMAIN tt = Streams /\ \A r \in Streams : tt[r] = IF r = s THEN X ELSE ss[r]
  BY <1>1
<1>4. Follow(H, ss, tt)
  <2>1. tt = [r \in Streams |-> tt[r]]
    BY <1>1, <1>3
  <2>2. \A r \in Streams : tt[r].pbuf = ss[r].pbuf /\ InReach(tt[r], H)
    BY <1>1, <1>2, <1>3
  <2>3. QED
    BY <1>3, <2>1, <2>2 DEF Follow
<1>5. Reaching(H, tt)
  BY <1>1, <1>4 DEF Follow, Reaching
<1>6. DataOf(H, tt) = DataOf(H, ss)
  BY <1>1, <1>4 DEF Follow, DataOf
<1>7. Shifted(ss, s, n, tt)
  <2>1. PICK f, g : f = AtOf(ss) /\ g = LeftOf(ss)
    OBVIOUS
  <2>2. f = [r \in Streams |-> ss[r].offset] /\ g = [r \in Streams |-> ss[r].length]
    BY <1>1, <2>1 DEF AtOf, LeftOf
  <2>3. AtOf(tt) = [r \in Streams |-> tt[r].offset] /\ LeftOf(tt) = [r \in Streams |-> tt[r].length]
    BY <1>3 DEF AtOf, LeftOf
  <2>4. \A r \in Streams : tt[r].offset = IF r = s THEN f[s] + n ELSE f[r]
    BY <1>1, <1>2, <1>3, <2>2
  <2>5. \A r \in Streams : tt[r].length = IF r = s THEN g[s] - n ELSE g[r]
    BY <1>1, <1>2, <1>3, <2>2
  <2>6. AtOf(tt) = [f EXCEPT ![s] = f[s] + n]
    BY <2>2, <2>3, <2>4
  <2>7. LeftOf(tt) = [g EXCEPT ![s] = g[s] - n]
    BY <2>2, <2>3, <2>5
  <2>8. QED
    BY <2>1, <2>6, <2>7 DEF Shifted
<1>8. QED
  BY <1>4, <1>5, <1>6, <1>7

\* snmp_pbuf_stream_write() and snmp_pbuf_stream_writebuf().
LEMMA WriteRefines ==
  ASSUME RefInv, NEW s \in DOMAIN streams, NEW bytes \in StreamData, StreamWrite(s, bytes)
  PROVE  /\ RefInv' /\ bytes \in Seq(Bytes)
         /\ Abstract!Fail \/ Abstract!Write(s, bytes)
<1>1. PICK H, ss, S, put : /\ H = pbufs /\ ss = streams /\ S = ss[s] /\ put = WriteBuf(H, S, bytes)
  OBVIOUS
<1>2. /\ ~ Closed /\ Reaching(H, ss) /\ DOMAIN ss = Streams /\ s \in Streams
      /\ HeapOk(H, held) /\ MemoryOf(H, Bytes) /\ InReach(S, H) /\ S.offset \in Nat
      /\ S.length \in Nat
  BY <1>1, WhileOpen
<1>3. pbufs' = put.H /\ streams' = [ss EXCEPT ![s] = put.S] /\ byte' = NoByte /\ held' = held
  BY <1>1 DEF StreamWrite
<1>4. bytes \in Seq(Bytes)
  BY BytesAre
<1>5. Puts(H, Bytes, S, Chain(H, S.pbuf), bytes, put)
  BY <1>1, <1>2, <1>4, WriteBufPuts
<1>6. CASE put.err # "OK"
  <2>1. put.H = H /\ put.S = S
    BY <1>5, <1>6 DEF Puts
  <2>2. pbufs' = pbufs
    BY <1>1, <1>3, <2>1
  <2>3. streams' = [ss EXCEPT ![s] = ss[s]] /\ ss = [r \in Streams |-> ss[r]]
    BY <1>1, <1>2, <1>3, <2>1 DEF Reaching
  <2>4. streams' = streams
    BY <1>1, <1>2, <2>3
  <2>5. pbufs' = pbufs /\ held' = held /\ streams' = streams /\ byte' = NoByte
    BY <1>3, <2>2, <2>4
  <2>6. RefInv' /\ Abstract!Fail
    BY <1>2, <2>5, FailedStep
  <2>7. QED
    BY <1>4, <2>6
<1>7. CASE put.err = "OK"
  <2>1. PICK n, X, G, tt : n = Len(bytes) /\ X = put.S /\ G = put.H /\ tt = streams'
    OBVIOUS
  <2>2. PutInto(H, G, Bytes, held, ss, s, bytes) /\ X = Onward(S, n) /\ n <= S.length
    BY <1>1, <1>2, <1>4, <1>5, <1>7, <2>1, WritePuts
  <2>3. n \in Nat
    BY <1>4, <2>1
  <2>4. MovedBy(S, H, n, X)
    BY <1>2, <2>2, <2>3, OnwardIs
  <2>5. OneMoved(H, ss, s, n, tt)
    <3>1. tt = [ss EXCEPT ![s] = X]
      BY <1>3, <2>1
    <3>2. tt[s] = X
      BY <1>2, <3>1
    <3>3. QED
      BY <1>1, <1>2, <2>4, <3>1, <3>2 DEF OneMoved
  <2>6. Follow(H, ss, tt) /\ Shifted(ss, s, n, tt)
    BY <2>5, MovesStay
  <2>7. Reaching(G, tt) /\ OnlyPut(H, G, ss, s, bytes, tt)
    <3>1. PutThere(H, G, Bytes, held, ss, s, bytes, tt)
      BY <1>2, <2>2, <2>6 DEF PutThere
    <3>2. QED
      BY <3>1, StreamsPut
  <2>8. AtOf(ss)[s] = ss[s].offset /\ LeftOf(ss)[s] = S.length
    BY <1>1, <1>2, OpenValues
  <2>9. RefInv'
    <3>1. HeapOk(G, held) /\ MemoryOf(G, Bytes)
      BY <2>2 DEF PutInto
    <3>2. HeapOk(pbufs', held') /\ MemoryOf(pbufs', Bytes) /\ Reaching(pbufs', streams')
      BY <1>3, <2>1, <2>7, <3>1
    <3>3. QED
      BY <3>2, StillOpen
  <2>10. Abstract!Write(s, bytes)
    <3>1. Len(bytes) <= LeftOf(streams)[s]
      BY <1>1, <2>1, <2>2, <2>8
    <3>2. DataOf(pbufs', streams') = [DataOf(pbufs, streams) EXCEPT ![s] =
             Overlaid(@, bytes, AtOf(streams)[s])]
      BY <1>1, <1>3, <2>1, <2>7, <2>8 DEF OnlyPut
    <3>3. /\ AtOf(streams') = [AtOf(streams) EXCEPT ![s] = @ + Len(bytes)]
          /\ LeftOf(streams') = [LeftOf(streams) EXCEPT ![s] = @ - Len(bytes)]
      BY <1>1, <2>1, <2>6 DEF Shifted
    <3>4. QED
      BY <1>3, <3>1, <3>2, <3>3
         DEF Abstract!Write, Abstract!Put, Abstract!Passed, DataOf, AtOf, LeftOf, IsOpen, Overlaid
  <2>11. QED
    BY <1>4, <2>9, <2>10
<1>8. QED
  BY <1>6, <1>7

\* A stream that moves over the heap as it is.
LEMMA StreamMoves ==
  ASSUME RefInv, NEW s \in DOMAIN streams, NEW n \in Int, streams[s].offset + n >= 0,
         n <= streams[s].length, pbufs' = pbufs, held' = held,
         streams' = [streams EXCEPT ![s] = Advanced(@, n)]
  PROVE  /\ RefInv' /\ Abstract!Passed(s, n)
         /\ DataOf(pbufs', streams') = DataOf(pbufs, streams)
<1>1. PICK H, ss, S, X, tt : /\ H = pbufs /\ ss = streams /\ S = ss[s] /\ X = Advanced(S, n)
                             /\ tt = streams'
  OBVIOUS
<1>2. /\ Reaching(H, ss) /\ DOMAIN ss = Streams /\ s \in Streams
      /\ HeapOk(H, held) /\ MemoryOf(H, Bytes) /\ InReach(S, H)
  BY <1>1, WhileOpen
<1>3. X = Onward(S, n) /\ MovedBy(S, H, n, X)
  <2>1. S.offset + n >= 0 /\ n <= S.length
    BY <1>1
  <2>2. Advanced(S, n) = Onward(S, n) /\ MovedBy(S, H, n, Onward(S, n))
    BY <1>2, <2>1, OnwardIs
  <2>3. QED
    BY <1>1, <2>2
<1>4. OneMoved(H, ss, s, n, tt)
  <2>1. tt = [ss EXCEPT ![s] = X]
    BY <1>1
  <2>2. tt[s] = X
    BY <1>2, <2>1
  <2>3. QED
    BY <1>1, <1>2, <1>3, <2>1, <2>2 DEF OneMoved
<1>5. Reaching(H, tt) /\ Shifted(ss, s, n, tt) /\ DataOf(H, tt) = DataOf(H, ss)
  BY <1>4, MovesStay
<1>6. RefInv'
  <2>1. HeapOk(pbufs', held') /\ MemoryOf(pbufs', Bytes) /\ Reaching(pbufs', streams')
    BY <1>1, <1>2, <1>5
  <2>2. QED
    BY <2>1, StillOpen
<1>7. Abstract!Passed(s, n)
  <2>1. /\ AtOf(streams') = [AtOf(streams) EXCEPT ![s] = @ + n]
        /\ LeftOf(streams') = [LeftOf(streams) EXCEPT ![s] = @ - n]
    BY <1>1, <1>5 DEF Shifted
  <2>2. QED
    BY <2>1 DEF Abstract!Passed, AtOf, LeftOf, IsOpen
<1>8. QED
  BY <1>1, <1>5, <1>6, <1>7

\* snmp_pbuf_stream_seek().
LEMMA SeekRefines ==
  ASSUME RefInv, NEW s \in DOMAIN streams, NEW n \in Int, StreamSeek(s, n)
  PROVE  /\ RefInv'
         /\ \/ Abstract!Fail
            \/ Abstract!Seek(s, n) /\ -AtOf(streams)[s] <= n /\ n <= LeftOf(streams)[s]
<1>1. PICK S, o, l : S = streams[s] /\ o = S.offset /\ l = S.length
  OBVIOUS
<1>2. /\ ~ Closed /\ DOMAIN streams = Streams /\ s \in Streams /\ o \in Nat /\ l \in Nat
      /\ Reaching(pbufs, streams)
  BY <1>1, WhileOpen
<1>3. streams' = [streams EXCEPT ![s] = Seek(S, n)] /\ byte' = NoByte
      /\ pbufs' = pbufs /\ held' = held
  BY <1>1 DEF StreamSeek, pbufVars
<1>4. CASE o + n < 0 \/ n > l
  <2>1. Seek(S, n) = S
    BY <1>1, <1>4 DEF Seek
  <2>2. streams' = [streams EXCEPT ![s] = streams[s]] /\ streams = [r \in Streams |-> streams[r]]
    BY <1>1, <1>2, <1>3, <2>1 DEF Reaching
  <2>3. streams' = streams
    BY <1>2, <2>2
  <2>4. QED
    BY <1>2, <1>3, <2>3, FailedStep
<1>5. CASE ~ (o + n < 0 \/ n > l)
  <2>1. Seek(S, n) = Advanced(S, n)
    BY <1>1, <1>5 DEF Seek
  <2>2. o + n >= 0 /\ n <= l
    BY <1>2, <1>5
  <2>3. streams' = [streams EXCEPT ![s] = Advanced(@, n)]
    BY <1>1, <1>3, <2>1
  <2>4. /\ RefInv' /\ Abstract!Passed(s, n)
        /\ DataOf(pbufs', streams') = DataOf(pbufs, streams)
    BY <1>1, <1>3, <2>2, <2>3, StreamMoves
  <2>5. AtOf(streams)[s] = o /\ LeftOf(streams)[s] = l
    BY <1>1, <1>2, OpenValues
  <2>6. -AtOf(streams)[s] <= n /\ n <= LeftOf(streams)[s] /\ AtOf(streams)[s] + n >= 0
    BY <1>2, <2>2, <2>5
  <2>7. Abstract!Seek(s, n)
    BY <1>3, <2>4, <2>6 DEF Abstract!Seek, DataOf, AtOf, LeftOf, IsOpen
  <2>8. QED
    BY <2>4, <2>6, <2>7
<1>6. QED
  BY <1>4, <1>5

\* snmp_pbuf_stream_read().
LEMMA ReadRefines ==
  ASSUME RefInv, NEW s \in DOMAIN streams, StreamRead(s)
  PROVE  /\ RefInv'
         /\ Abstract!Fail \/ Abstract!Read(s)
<1>1. PICK S, o, l, got, H : /\ H = pbufs /\ S = streams[s] /\ o = S.offset /\ l = S.length
                             /\ got = CopyPartial(H, S.pbuf, 1, o)
  OBVIOUS
<1>2. /\ ~ Closed /\ DOMAIN streams = Streams /\ s \in Streams /\ o \in Nat /\ l \in Nat
      /\ S.pbuf \in DOMAIN H /\ HeapOk(H, held) /\ MemoryOf(H, Bytes)
      /\ o + l <= H[S.pbuf].tot_len
  BY <1>1, WhileOpen
<1>3. pbufs' = pbufs /\ held' = held
  BY DEF StreamRead, pbufVars
<1>4. CASE l = 0 \/ got = <<>>
  <2>1. streams' = streams /\ byte' = NoByte
    BY <1>1, <1>4 DEF StreamRead
  <2>2. QED
    BY <1>2, <1>3, <2>1, FailedStep
<1>5. CASE ~ (l = 0 \/ got = <<>>)
  <2>1. streams' = [streams EXCEPT ![s] = Advanced(@, 1)] /\ byte' = got[1]
    BY <1>1, <1>5 DEF StreamRead
  <2>2. PICK x : x = H[S.pbuf].tot_len
    OBVIOUS
  <2>3. x \in Nat
    <3>1. IsPbuf(H[S.pbuf])
      BY <1>2 DEF HeapOk, Linked
    <3>2. QED
      BY <2>2, <3>1, ConstantsAssumption DEF IsPbuf, ConstantsAssumption
  <2>4. o < x /\ o + 1 >= 0 /\ 1 <= l
    BY <1>2, <1>5, <2>2, <2>3
  <2>5. got = <<Content(H, S.pbuf)[o + 1]>>
    BY <1>1, <1>2, <2>2, <2>4, CopyByte
  <2>6. byte' = Content(H, S.pbuf)[o + 1]
    BY <2>1, <2>5
  <2>7. /\ RefInv' /\ Abstract!Passed(s, 1)
        /\ DataOf(pbufs', streams') = DataOf(pbufs, streams)
    <3>1. 1 \in Int /\ streams[s].offset + 1 >= 0 /\ 1 <= streams[s].length
      BY <1>1, <2>4
    <3>2. QED
      BY <1>3, <2>1, <3>1, StreamMoves, Zenon
  <2>8. /\ DataOf(pbufs, streams)[s] = Content(H, S.pbuf)
        /\ AtOf(streams)[s] = o /\ LeftOf(streams)[s] = l
    BY <1>1, <1>2, OpenValues
  <2>9. LeftOf(streams)[s] > 0 /\ byte' = DataOf(pbufs, streams)[s][AtOf(streams)[s] + 1]
    BY <1>2, <2>4, <2>6, <2>8
  <2>10. Abstract!Read(s)
    BY <2>7, <2>9 DEF Abstract!Read, DataOf, AtOf, LeftOf, IsOpen
  <2>11. QED
    BY <2>7, <2>10
<1>6. QED
  BY <1>4, <1>5

\* What has been copied where copying is exact.
LEMMA CopiedPart ==
  ASSUME RefInv, NEW s \in DOMAIN streams, CopiesExactly(s), NEW S, S = streams[s],
         NEW T, NEW all, Streaming(pbufs, held, Bytes, S, T, all),
         NEW st, NEW m, NEW bytes, CopiedTo(pbufs, held, Bytes, S, T, all, st, m, bytes)
  PROVE  bytes = SubSeq(Content(pbufs, S.pbuf), S.offset + 1, S.offset + m)
<1>1. PICK d, o, c, x : /\ d = Content(pbufs, S.pbuf) /\ o = S.offset /\ c = Chain(pbufs, S.pbuf)
                        /\ x = pbufs[S.pbuf].tot_len
  OBVIOUS
<1>2. /\ HeapOk(pbufs, held) /\ MemoryOf(pbufs, Bytes) /\ InReach(S, pbufs)
      /\ S.pbuf \in DOMAIN pbufs /\ o \in Nat /\ S.length \in Nat /\ o + S.length <= x
  BY <1>1, WhileOpen
<1>3. m \in Nat /\ all \in Nat /\ m <= all /\ all <= S.length
      /\ bytes \in Seq(Bytes) /\ Len(bytes) = m
  BY DEF CopiedTo, Streaming
<1>4. Exact(pbufs, c, o, all)
  <2>1. HeapInv
    BY DEF RefInv
  <2>2. QED
    BY <1>1, <1>2, <1>3, <2>1, ExactFrom
<1>5. \A k \in 1 .. m : bytes[k] = d[o + k]
  BY <1>1, <1>4 DEF CopiedTo
<1>6. d \in Seq(Bytes) /\ Len(d) = x
  BY <1>1, <1>2, ContentIs
<1>7. o + m <= Len(d)
  <2>1. Len(d) \in Nat
    BY <1>6
  <2>2. QED
    BY <1>2, <1>3, <1>6, <2>1
<1>8. PICK e : e = SubSeq(d, o + 1, o + m)
  OBVIOUS
<1>9. e \in Seq(Bytes) /\ Len(e) = m /\ \A k \in 1 .. m : e[k] = d[o + k]
  BY <1>2, <1>3, <1>6, <1>7, <1>8, PartIs
<1>10. bytes = e
  BY <1>3, <1>5, <1>9
<1>11. QED
  BY <1>1, <1>8, <1>10

\* Two streams have moved.
BothMoved(ss, s, t, m, tt) ==
  /\ AtOf(tt) = [AtOf(ss) EXCEPT ![s] = @ + m, ![t] = @ + m]
  /\ LeftOf(tt) = [LeftOf(ss) EXCEPT ![s] = @ - m, ![t] = @ - m]

\* Stream s has been copied to stream t, and the streams are tt then.
CopyDone(H, h, A, ss, s, t, all, st, m, bytes, tt) ==
  /\ HeapOk(H, h) /\ Reaching(H, ss) /\ s \in Streams /\ t \in Streams /\ s # t
  /\ CopiedTo(H, h, A, ss[s], ss[t], all, st, m, bytes)
  /\ tt = [ss EXCEPT ![s] = st.S, ![t] = st.T]

\* The streams after a copy.
LEMMA CopyMoves ==
  ASSUME NEW H, NEW h, NEW A, NEW ss, NEW s, NEW t, NEW all, NEW st, NEW m, NEW bytes,
         NEW tt, CopyDone(H, h, A, ss, s, t, all, st, m, bytes, tt)
  PROVE  /\ Reaching(st.H, tt) /\ OnlyPut(H, st.H, ss, t, bytes, tt)
         /\ BothMoved(ss, s, t, m, tt)
<1>0. /\ HeapOk(H, h) /\ Reaching(H, ss) /\ s \in Streams /\ t \in Streams /\ s # t
      /\ CopiedTo(H, h, A, ss[s], ss[t], all, st, m, bytes)
      /\ tt = [ss EXCEPT ![s] = st.S, ![t] = st.T]
  BY DEF CopyDone
<1>1. PICK X, Y, uu : X = st.S /\ Y = st.T /\ uu = [ss EXCEPT ![s] = X]
  OBVIOUS
<1>2. MovedBy(ss[s], H, m, X) /\ MovedBy(ss[t], H, m, Y)
  BY <1>0, <1>1 DEF CopiedTo
<1>3. DOMAIN ss = Streams
  BY <1>0 DEF Reaching
<1>4. /\ uu[s] = X /\ uu[t] = ss[t] /\ DOMAIN uu = Streams
      /\ tt = [uu EXCEPT ![t] = Y]
  BY <1>0, <1>1, <1>3
<1>5. tt[t] = Y
  BY <1>0, <1>4
<1>6. OneMoved(H, ss, s, m, uu)
  BY <1>0, <1>1, <1>2, <1>4 DEF OneMoved
<1>7. Follow(H, ss, uu) /\ Reaching(H, uu) /\ Shifted(ss, s, m, uu)
  BY <1>6, MovesStay
<1>8. OneMoved(H, uu, t, m, tt)
  BY <1>0, <1>2, <1>4, <1>5, <1>7 DEF OneMoved
<1>9. Follow(H, uu, tt) /\ Shifted(uu, t, m, tt)
  BY <1>8, MovesStay
<1>10. Follow(H, ss, tt)
  <2>1. \A r \in Streams : tt[r].pbuf = uu[r].pbuf /\ InReach(tt[r], H)
    BY <1>9 DEF Follow
  <2>2. \A r \in Streams : uu[r].pbuf = ss[r].pbuf
    BY <1>7 DEF Follow
  <2>3. DOMAIN tt = Streams /\ tt = [r \in Streams |-> tt[r]]
    BY <1>9 DEF Follow
  <2>4. QED
    BY <2>1, <2>2, <2>3 DEF Follow
<1>11. Reaching(st.H, tt) /\ OnlyPut(H, st.H, ss, t, bytes, tt)
  <2>1. PutInto(H, st.H, A, h, ss, t, bytes)
    BY <1>0, CopyPuts
  <2>2. PutThere(H, st.H, A, h, ss, t, bytes, tt)
    BY <1>0, <1>10, <2>1 DEF PutThere
  <2>3. QED
    BY <2>2, StreamsPut
<1>12. BothMoved(ss, s, t, m, tt)
  <2>1. PICK f, g, x, y : /\ f = AtOf(ss) /\ g = LeftOf(ss) /\ x = AtOf(uu) /\ y = LeftOf(uu)
    OBVIOUS
  <2>2. x = [f EXCEPT ![s] = @ + m] /\ y = [g EXCEPT ![s] = @ - m]
    BY <1>7, <2>1 DEF Shifted
  <2>3. AtOf(tt) = [x EXCEPT ![t] = @ + m] /\ LeftOf(tt) = [y EXCEPT ![t] = @ - m]
    BY <1>9, <2>1 DEF Shifted
  <2>4. AtOf(tt) = [f EXCEPT ![s] = @ + m, ![t] = @ + m]
        /\ LeftOf(tt) = [g EXCEPT ![s] = @ - m, ![t] = @ - m]
    BY <1>0, <2>2, <2>3
  <2>5. QED
    BY <2>1, <2>4 DEF BothMoved
<1>13. QED
  BY <1>11, <1>12

\* snmp_pbuf_stream_writeto().
LEMMA CopyRefines ==
  ASSUME RefInv, NEW s \in DOMAIN streams, NEW t \in DOMAIN streams \ {s}, NEW len \in Nat,
         StreamWriteTo(s, t, len)
  PROVE  /\ RefInv'
         /\ \/ Abstract!Fail
            \/ \E m \in Nat : m <= LeftOf(streams)[s] /\ Abstract!Copy(s, t, m)
<1>1. PICK H, ss, S, T, put : /\ H = pbufs /\ ss = streams /\ S = ss[s] /\ T = ss[t]
                              /\ put = WriteTo(H, S, T, len)
  OBVIOUS
<1>2. /\ ~ Closed /\ DOMAIN ss = Streams /\ s \in Streams /\ t \in Streams /\ s # t
      /\ Reaching(H, ss) /\ HeapOk(H, held) /\ MemoryOf(H, Bytes)
      /\ InReach(S, H) /\ InReach(T, H) /\ S.length \in Nat /\ T.length \in Nat
  BY <1>1, WhileOpen
<1>3. /\ pbufs' = put.H /\ streams' = [ss EXCEPT ![s] = put.S, ![t] = put.T]
      /\ byte' = NoByte /\ held' = held
  BY <1>1 DEF StreamWriteTo
<1>4. Streaming(H, held, Bytes, S, T, 0)
  <2>1. ToSet(Chain(H, S.pbuf)) \cap ToSet(Chain(H, T.pbuf)) = {}
    BY <1>1, <1>2 DEF Reaching
  <2>2. QED
    BY <1>2, <2>1, BytesAre DEF Streaming
<1>5. CopyResult(H, held, Bytes, S, T, put)
  BY <1>1, <1>4, WriteToCopies
<1>6. CASE put.H = H /\ put.S = S /\ put.T = T
  <2>1. /\ streams' = [ss EXCEPT ![s] = ss[s], ![t] = ss[t]] /\ ss = [r \in Streams |-> ss[r]]
        /\ pbufs' = pbufs
    BY <1>1, <1>2, <1>3, <1>6 DEF Reaching
  <2>2. streams' = streams
    BY <1>1, <1>2, <2>1
  <2>3. QED
    BY <1>2, <1>3, <2>1, <2>2, FailedStep
<1>7. CASE ~ (put.H = H /\ put.S = S /\ put.T = T)
  <2>1. PICK all : Streaming(H, held, Bytes, S, T, all) /\ CopiedSome(H, held, Bytes, S, T, all, put)
    BY <1>5, <1>7 DEF CopyResult
  <2>2. PICK m, bytes : CopiedTo(H, held, Bytes, S, T, all, put, m, bytes)
    BY <2>1 DEF CopiedSome
  <2>3. /\ m \in Nat /\ all \in Nat /\ m <= all /\ all <= S.length /\ all <= T.length
        /\ bytes \in Seq(Bytes) /\ Len(bytes) = m
        /\ HeapOk(put.H, held) /\ MemoryOf(put.H, Bytes)
    BY <2>1, <2>2 DEF CopiedTo, Streaming
  <2>4. PICK G, tt : G = put.H /\ tt = streams'
    OBVIOUS
  <2>5. Reaching(G, tt) /\ OnlyPut(H, G, ss, t, bytes, tt) /\ BothMoved(ss, s, t, m, tt)
    <3>1. CopyDone(H, held, Bytes, ss, s, t, all, put, m, bytes, tt)
      BY <1>1, <1>2, <1>3, <2>2, <2>4 DEF CopyDone
    <3>2. QED
      BY <2>4, <3>1, CopyMoves
  <2>6. RefInv'
    <3>1. HeapOk(pbufs', held') /\ MemoryOf(pbufs', Bytes) /\ Reaching(pbufs', streams')
      BY <1>3, <2>3, <2>4, <2>5
    <3>2. QED
      BY <3>1, StillOpen
  <2>7. /\ DataOf(H, ss)[s] = Content(H, S.pbuf)
        /\ AtOf(ss)[s] = S.offset /\ LeftOf(ss)[s] = S.length
        /\ AtOf(ss)[t] = T.offset /\ LeftOf(ss)[t] = T.length
    BY <1>1, <1>2, OpenValues
  <2>8. m <= LeftOf(streams)[s] /\ m <= LeftOf(streams)[t] /\ m \in 0 .. LeftOf(streams)[s]
    BY <1>1, <1>2, <2>3, <2>7
  <2>9. bytes \in [1 .. m -> Bytes]
    BY <2>3
  <2>10. CopiesExactly(s) =>
           bytes = SubSeq(DataOf(pbufs, streams)[s], AtOf(streams)[s] + 1, AtOf(streams)[s] + m)
    <3>1. QED
      BY <1>1, <2>1, <2>2, <2>7, CopiedPart
  <2>11. DataOf(pbufs', streams') = [DataOf(pbufs, streams) EXCEPT ![t] =
            Overlaid(@, bytes, AtOf(streams)[t])]
    BY <1>1, <1>3, <2>4, <2>5, <2>7 DEF OnlyPut
  <2>12. /\ AtOf(streams') = [AtOf(streams) EXCEPT ![s] = @ + m, ![t] = @ + m]
         /\ LeftOf(streams') = [LeftOf(streams) EXCEPT ![s] = @ - m, ![t] = @ - m]
    BY <1>1, <2>4, <2>5 DEF BothMoved
  <2>13. Abstract!Put(t, bytes)
    BY <2>11 DEF Abstract!Put, DataOf, AtOf, IsOpen, Overlaid
  <2>14. \E b \in [1 .. m -> Bytes] :
           /\ CopiesExactly(s) => b = SubSeq(DataOf(pbufs, streams)[s], AtOf(streams)[s] + 1,
                                             AtOf(streams)[s] + m)
           /\ Abstract!Put(t, b)
    BY <2>9, <2>10, <2>13
  <2>15. Abstract!Copy(s, t, m)
    BY <1>1, <1>2, <1>3, <2>8, <2>12, <2>14 DEF Abstract!Copy, DataOf, AtOf, LeftOf, IsOpen
  <2>16. QED
    BY <2>3, <2>6, <2>8, <2>15
<1>8. QED
  BY <1>6, <1>7

\* snmp_pbuf_stream_init() of each stream.
LEMMA OpenRefines ==
  ASSUME RefInv, Open
  PROVE  RefInv' /\ Abstract!Open
<1>1. Closed /\ byte = NoByte /\ pbufs' = pbufs /\ held' = held /\ byte' = byte
  BY DEF Open, RefInv, pbufVars
<1>2. HeapInv /\ HeapOk(pbufs, held) /\ MemoryOf(pbufs, Bytes)
  BY DEF RefInv, HeapInv
<1>3. PICK over \in Injection(Streams, {p \in DOMAIN pbufs : Held(p) /\ Exclusive(p)}),
           offset \in [Streams -> 0 .. Width], length \in [Streams -> 0 .. Width] :
        /\ \A s \in Streams : offset[s] + length[s] <= Total(over[s])
        /\ streams' = [s \in Streams |->
             [pbuf |-> over[s], offset |-> offset[s], length |-> length[s]]]
  BY DEF Open
<1>4. /\ \A s \in Streams : over[s] \in DOMAIN pbufs /\ Exclusive(over[s])
      /\ \A s, t \in Streams : s # t => over[s] # over[t]
  BY DEF Injection, IsInjective
<1>5. PICK tt : tt = streams'
  OBVIOUS
<1>6. /\ DOMAIN tt = Streams /\ tt = [s \in Streams |-> tt[s]]
      /\ \A s \in Streams : tt[s] = [pbuf |-> over[s], offset |-> offset[s], length |-> length[s]]
  BY <1>3, <1>5
<1>7. Width \in Nat
  BY ConstantsAssumption DEF ConstantsAssumption
<1>8. ASSUME NEW s \in Streams
      PROVE  /\ InReach(tt[s], pbufs) /\ Content(pbufs, over[s]) \in Seq(Bytes)
             /\ tt[s].offset \in Nat
             /\ tt[s].length \in 0 .. Len(Content(pbufs, over[s])) - tt[s].offset
  <2>1. PICK o, l, p, x : /\ o = offset[s] /\ l = length[s] /\ p = over[s] /\ x = pbufs[p].tot_len
    OBVIOUS
  <2>2. o \in Nat /\ l \in Nat /\ p \in DOMAIN pbufs
    BY <1>4, <1>7, <2>1
  <2>3. Content(pbufs, p) \in Seq(Bytes) /\ Len(Content(pbufs, p)) = x
    BY <1>2, <2>1, <2>2, ContentIs
  <2>4. o + l <= x
    BY <1>3, <2>1, <2>3 DEF Total
  <2>5. tt[s] = [pbuf |-> p, offset |-> o, length |-> l]
    BY <1>6, <2>1
  <2>6. InReach(tt[s], pbufs)
    BY <2>1, <2>2, <2>4, <2>5 DEF InReach, IsStream
  <2>7. x \in Nat
    BY <2>3
  <2>8. l \in 0 .. x - o
    BY <2>2, <2>4, <2>7
  <2>9. QED
    BY <2>1, <2>2, <2>3, <2>5, <2>6, <2>8
<1>9. ASSUME NEW s \in Streams, NEW t \in Streams, s # t
      PROVE  ToSet(Chain(pbufs, tt[s].pbuf)) \cap ToSet(Chain(pbufs, tt[t].pbuf)) = {}
  <2>1. tt[s].pbuf = over[s] /\ tt[t].pbuf = over[t]
    BY <1>6
  <2>2. QED
    BY <1>2, <1>4, <1>9, <2>1, ChainsApart
<1>10. Reaching(pbufs, tt)
  BY <1>6, <1>8, <1>9 DEF Reaching
<1>11. RefInv'
  BY <1>1, <1>2, <1>5, <1>10 DEF RefInv, HeapInv
<1>12. /\ DataOf(pbufs', streams') \in [Streams -> Seq(Bytes)]
       /\ \A s \in Streams : /\ AtOf(streams')[s] \in Nat
                             /\ LeftOf(streams')[s] \in
                                  0 .. Len(DataOf(pbufs', streams')[s]) - AtOf(streams')[s]
  <2>1. PICK f, g, h : f = DataOf(pbufs, tt) /\ g = AtOf(tt) /\ h = LeftOf(tt)
    OBVIOUS
  <2>2. /\ f = [s \in Streams |-> Content(pbufs, over[s])]
        /\ g = [s \in Streams |-> tt[s].offset] /\ h = [s \in Streams |-> tt[s].length]
    BY <1>6, <2>1 DEF DataOf, AtOf, LeftOf
  <2>3. f \in [Streams -> Seq(Bytes)]
    BY <1>8, <2>2
  <2>4. \A s \in Streams : g[s] \in Nat /\ h[s] \in 0 .. Len(f[s]) - g[s]
    BY <1>8, <2>2
  <2>5. QED
    BY <1>1, <1>5, <2>1, <2>3, <2>4
<1>13. ~ (streams' = <<>>)
  BY <1>5, <1>6, StreamsAssumption DEF StreamsAssumption
<1>14. Closed /\ ~ Closed'
  BY <1>1, <1>13 DEF Closed
<1>15. Abstract!Open
  BY <1>1, <1>12, <1>14 DEF Abstract!Open, DataOf, AtOf, LeftOf, IsOpen
<1>16. QED
  BY <1>11, <1>15

\* The bytes of a sequence.
LEMMA SequenceOf ==
  ASSUME NEW A, NEW bytes \in Seq(A)
  PROVE  Len(bytes) \in Nat /\ bytes \in [1 .. Len(bytes) -> A]
OBVIOUS

\* In the beginning no stream is open.
LEMMA RefinedInit ==
  ASSUME StreamInit
  PROVE  RefInv /\ Abstract!Init
<1>1. pbufs = <<>> /\ streams = <<>> /\ byte = NoByte /\ Init
  BY DEF StreamInit, Init
<1>2. HeapInv
  BY <1>1, HeapInit
<1>3. DOMAIN pbufs = {} /\ DOMAIN streams = {}
  BY <1>1
<1>4. MemoryOf(pbufs, Bytes)
  BY <1>3 DEF MemoryOf
<1>5. RefInv
  BY <1>1, <1>2, <1>4 DEF RefInv, Closed
<1>6. Abstract!Init
  BY <1>1, <1>3 DEF Abstract!Init, IsOpen, Closed
<1>7. QED
  BY <1>5, <1>6

\* Once open, streams stay so.
LEMMA StaysOpen ==
  ASSUME NEW s \in DOMAIN streams,
         \/ StreamRead(s)
         \/ \E bytes : StreamWrite(s, bytes)
         \/ \E t, len : StreamWriteTo(s, t, len)
         \/ \E n : StreamSeek(s, n)
  PROVE  ~ Closed /\ ~ Closed'
<1>1. DOMAIN streams' = DOMAIN streams
  BY DEF StreamRead, StreamWrite, StreamWriteTo, StreamSeek
<1>2. QED
  BY <1>1 DEF Closed

\* Every step is one of the streams over one sequence of bytes, or changes none of them.
LEMMA StepRefined ==
  ASSUME RefInv, [StreamNext]_vars
  PROVE  RefInv' /\ [Abstract!Next]_Abstract!vars
<1>1. CASE UNCHANGED vars
  <2>1. pbufs' = pbufs /\ held' = held /\ streams' = streams /\ byte' = byte
    BY <1>1 DEF vars, pbufVars
  <2>2. RefInv'
    BY <2>1 DEF RefInv, HeapInv, Closed
  <2>3. UNCHANGED Abstract!vars
    BY <2>1 DEF Abstract!vars, IsOpen, CopiesExactly, Closed
  <2>4. QED
    BY <2>2, <2>3
<1>2. CASE Closed /\ Next /\ UNCHANGED <<streams, byte>>
  BY <1>2, ClosedStep
<1>3. CASE Open
  BY <1>3, OpenRefines DEF Abstract!Next
<1>4. ASSUME NEW s \in DOMAIN streams, StreamRead(s)
      PROVE  RefInv' /\ Abstract!Next
  <2>1. s \in Streams
    BY WhileOpen
  <2>2. RefInv' /\ (Abstract!Fail \/ Abstract!Read(s))
    BY <1>4, ReadRefines
  <2>3. ~ Closed /\ ~ Closed'
    BY <1>4, StaysOpen
  <2>4. QED
    BY <2>1, <2>2, <2>3 DEF Abstract!Next
<1>5. ASSUME NEW s \in DOMAIN streams, NEW bytes \in StreamData, StreamWrite(s, bytes)
      PROVE  RefInv' /\ Abstract!Next
  <2>1. /\ RefInv' /\ bytes \in Seq(Bytes) /\ s \in Streams
        /\ Abstract!Fail \/ Abstract!Write(s, bytes)
    BY <1>5, WriteRefines, WhileOpen
  <2>0. ~ Closed /\ ~ Closed'
    BY <1>5, StaysOpen
  <2>2. CASE Abstract!Fail
    BY <2>0, <2>1, <2>2 DEF Abstract!Next
  <2>3. CASE Abstract!Write(s, bytes)
    <3>1. Len(bytes) \in Nat /\ bytes \in [1 .. Len(bytes) -> Bytes]
      BY <2>1, SequenceOf
    <3>2. Len(bytes) <= LeftOf(streams)[s]
      BY <2>3 DEF Abstract!Write, LeftOf, IsOpen
    <3>3. LeftOf(streams)[s] \in Nat
      BY <2>1, WhileOpen, OpenValues
    <3>4. Len(bytes) \in 0 .. LeftOf(streams)[s]
      BY <3>1, <3>2, <3>3
    <3>5. \E n \in 0 .. LeftOf(streams)[s] : \E b \in [1 .. n -> Bytes] : Abstract!Write(s, b)
      BY <2>3, <3>1, <3>4
    <3>6. QED
      BY <2>0, <2>1, <3>5 DEF Abstract!Next, LeftOf, IsOpen
  <2>4. QED
    BY <2>1, <2>2, <2>3
<1>6. ASSUME NEW s \in DOMAIN streams, NEW t \in DOMAIN streams \ {s}, NEW len \in 0 .. MaxLen,
             StreamWriteTo(s, t, len)
      PROVE  RefInv' /\ Abstract!Next
  <2>1. s \in Streams /\ t \in Streams \ {s} /\ len \in Nat /\ LeftOf(streams)[s] \in Nat
    BY WhileOpen, OpenValues
  <2>2. /\ RefInv'
        /\ \/ Abstract!Fail
           \/ \E m \in Nat : m <= LeftOf(streams)[s] /\ Abstract!Copy(s, t, m)
    BY <1>6, <2>1, CopyRefines
  <2>0. ~ Closed /\ ~ Closed'
    BY <1>6, StaysOpen
  <2>3. CASE Abstract!Fail
    BY <2>0, <2>2, <2>3 DEF Abstract!Next
  <2>4. CASE \E m \in Nat : m <= LeftOf(streams)[s] /\ Abstract!Copy(s, t, m)
    <3>1. PICK m \in Nat : m <= LeftOf(streams)[s] /\ Abstract!Copy(s, t, m)
      BY <2>4
    <3>2. m \in 0 .. LeftOf(streams)[s]
      BY <2>1, <3>1
    <3>3. \E n \in 0 .. LeftOf(streams)[s] : Abstract!Copy(s, t, n)
      BY <3>1, <3>2
    <3>4. QED
      BY <2>0, <2>1, <2>2, <3>3 DEF Abstract!Next, LeftOf, IsOpen
  <2>5. QED
    BY <2>2, <2>3, <2>4
<1>7. ASSUME NEW s \in DOMAIN streams, NEW n \in Int, StreamSeek(s, n)
      PROVE  RefInv' /\ Abstract!Next
  <2>1. s \in Streams /\ LeftOf(streams)[s] \in Nat /\ AtOf(streams)[s] \in Nat
    BY WhileOpen, OpenValues
  <2>2. /\ RefInv'
        /\ \/ Abstract!Fail
           \/ Abstract!Seek(s, n) /\ -AtOf(streams)[s] <= n /\ n <= LeftOf(streams)[s]
    BY <1>7, SeekRefines
  <2>0. ~ Closed /\ ~ Closed'
    BY <1>7, StaysOpen
  <2>3. CASE Abstract!Fail
    BY <2>0, <2>2, <2>3 DEF Abstract!Next
  <2>4. CASE Abstract!Seek(s, n) /\ -AtOf(streams)[s] <= n /\ n <= LeftOf(streams)[s]
    <3>1. n \in -AtOf(streams)[s] .. LeftOf(streams)[s]
      BY <2>1, <2>4
    <3>2. QED
      BY <2>0, <2>1, <2>2, <2>4, <3>1 DEF Abstract!Next, LeftOf, AtOf, IsOpen
  <2>5. QED
    BY <2>2, <2>3, <2>4
<1>8. ASSUME NEW s \in DOMAIN streams, NEW offset \in 0 .. MaxLen, StreamSeekAbs(s, offset)
      PROVE  RefInv' /\ Abstract!Next
  <2>1. streams[s].offset \in Nat
    BY WhileOpen
  <2>2. PICK n : n = offset - streams[s].offset
    OBVIOUS
  <2>3. n \in Int
    BY <2>1, <2>2
  <2>4. StreamSeek(s, n)
    BY <1>8, <2>2 DEF StreamSeek, StreamSeekAbs, SeekAbs
  <2>5. QED
    BY <1>7, <2>3, <2>4
<1>9. MaxLen \in Nat
  BY ConstantsAssumption DEF ConstantsAssumption
<1>10. QED
  BY <1>1, <1>2, <1>3, <1>4, <1>5, <1>6, <1>7, <1>8, <1>9 DEF StreamNext

\* The streams are streams over one sequence of bytes each.  From when they are opened on,
\* a read delivers the next byte of the chain, a write puts all its bytes where the
\* stream is, a copy puts those of the other stream there and a seek moves, or the call
\* fails and changes nothing; no byte, position or end of the streams changes otherwise.
THEOREM StreamsRefine == StreamSpec => ImplementsByteStream
<1>1. StreamInit => RefInv /\ Abstract!Init
  BY RefinedInit
<1>2. RefInv /\ [StreamNext]_vars => RefInv' /\ [Abstract!Next]_Abstract!vars
  BY StepRefined
<1>3. QED
  BY <1>1, <1>2, PTL DEF StreamSpec, ImplementsByteStream, Abstract!Spec

-----------------------------------------------------------------------------
(* Reading a chain is reading the one sequence of bytes it holds.          *)

\* The i-th pbuf of the chain of p holds what p holds from there on.
RestIn(H, p, c, i) ==
  \A k \in 1 .. H[c[i]].tot_len : Content(H, c[i])[k] = Content(H, p)[Before(H, c, i) + k]

\* The chain of a pbuf within a chain holds the rest of the bytes.
LEMMA RestContent ==
  ASSUME NEW A, NEW H, NEW h, HeapOk(H, h), MemoryOf(H, A), NEW p \in DOMAIN H,
         NEW c, c = Chain(H, p), NEW i \in 1 .. Len(c)
  PROVE  RestIn(H, p, c, i)
<1>1. PICK m : m = Len(c)
  OBVIOUS
<1>2. Laid(H, p, c) /\ IsChain(H, p, c) /\ m \in Nat \ {0}
  <2>1. Laid(H, p, c) /\ IsChain(H, p, c)
    BY LaidIs
  <2>2. QED
    BY <1>1, <2>1 DEF Laid
<1> DEFINE P == {n \in Nat : n + 1 \in 1 .. m => RestIn(H, p, c, n + 1)}
<1>3. 0 \in P
  <2>1. c[1] = p /\ Before(H, c, 1) = 0
    BY <1>2 DEF Laid
  <2>2. \A k \in 1 .. H[p].tot_len : 0 + k = k
    BY <1>2 DEF Laid
  <2>3. RestIn(H, p, c, 1)
    BY <2>1, <2>2 DEF RestIn
  <2>4. QED
    BY <2>3
<1>4. ASSUME NEW n \in 0 .. m - 1, n \in P
      PROVE  n + 1 \in P
  <2>1. PICK a : a = n + 1
    OBVIOUS
  <2>2. CASE a + 1 \in 1 .. m
    <3>1. a \in 1 .. m - 1 /\ a \in 1 .. m /\ a # m /\ a \in Nat
      BY <1>2, <2>1, <2>2
    <3>2. PICK x, y, b, l : x = c[a] /\ y = c[a + 1] /\ b = Before(H, c, a) /\ l = H[c[a]].len
      OBVIOUS
    <3>3. x \in DOMAIN H /\ b \in Nat /\ l \in Nat /\ y # NULL /\ Before(H, c, a + 1) = b + l
      BY <1>1, <1>2, <2>2, <3>1, <3>2 DEF Laid
    <3>4. H[x].next = y
      BY <1>1, <1>2, <3>1, <3>2 DEF IsChain, LinkedFrom
    <3>5. PICK s, t, u : s = Content(H, x) /\ t = Content(H, y) /\ u = H[y].tot_len
      OBVIOUS
    <3>6. H[x].tot_len = l + u /\ \A k \in 1 .. u : t[k] = s[l + k]
      <4>1. Continues(H, x, s, t)
        BY <3>3, <3>4, <3>5, ContentContinues
      <4>2. QED
        BY <3>2, <3>3, <3>4, <3>5, <4>1 DEF Continues
    <3>7. u \in Nat
      <4>1. y \in DOMAIN H
        BY <1>1, <1>2, <2>2, <3>2 DEF Laid
      <4>2. Laid(H, y, Chain(H, y))
        BY <4>1, LaidIs
      <4>3. QED
        BY <3>5, <4>2 DEF Laid
    <3>8. \A k \in 1 .. l + u : s[k] = Content(H, p)[b + k]
      BY <1>4, <2>1, <3>1, <3>2, <3>5, <3>6 DEF RestIn
    <3>9. ASSUME NEW k \in 1 .. u
          PROVE  t[k] = Content(H, p)[(b + l) + k]
      <4>1. l + k \in 1 .. l + u /\ b + (l + k) = (b + l) + k
        BY <3>3, <3>7
      <4>2. s[l + k] = Content(H, p)[b + (l + k)]
        BY <3>8, <4>1
      <4>3. QED
        BY <3>6, <4>1, <4>2
    <3>10. RestIn(H, p, c, a + 1)
      <4>1. PICK d, e : d = a + 1 /\ e = b + l
        OBVIOUS
      <4>2. Before(H, c, d) = e /\ c[d] = y
        BY <3>2, <3>3, <4>1
      <4>3. \A k \in 1 .. H[c[d]].tot_len : Content(H, c[d])[k] = Content(H, p)[Before(H, c, d) + k]
        BY <3>5, <3>9, <4>1, <4>2
      <4>4. QED
        BY <4>1, <4>3 DEF RestIn
    <3>11. QED
      BY <2>1, <3>10
  <2>3. CASE a + 1 \notin 1 .. m
    BY <2>1, <2>3
  <2>4. QED
    BY <2>2, <2>3
<1>5. i - 1 \in 0 .. m /\ (i - 1) + 1 = i /\ i \in 1 .. m
  BY <1>1, <1>2
<1>6. i - 1 \in P
  <2> HIDE DEF P
  <2>1. QED
    BY <1>2, <1>3, <1>4, <1>5, CountingUp
<1>7. RestIn(H, p, c, (i - 1) + 1)
  BY <1>5, <1>6
<1>8. QED
  BY <1>5, <1>7

\* Reading on in the pbuf that has the byte at an offset is reading on from there.
LEMMA PartFromThere ==
  ASSUME NEW A, NEW H, NEW h, HeapOk(H, h), MemoryOf(H, A), NEW p \in DOMAIN H,
         NEW c, c = Chain(H, p), NEW i, NEW offset \in Nat, Within(H, c, i, offset), NEW n \in Nat
  PROVE  PartOf(H, c[i], offset - Before(H, c, i), n) = PartOf(H, p, offset, n)
<1>1. PICK q, b, l, o, t : /\ q = c[i] /\ b = Before(H, c, i) /\ l = H[c[i]].len
                           /\ o = offset - b /\ t = H[p].tot_len
  OBVIOUS
<1>2. Laid(H, p, c)
  BY LaidIs
<1>3. /\ i \in 1 .. Len(c) /\ b \in Nat /\ t \in Nat /\ b <= offset /\ q # NULL /\ p # NULL
      /\ H[q].tot_len = t - b
  <2>1. i \in 1 .. Len(c) /\ b <= offset
    BY <1>1 DEF Within
  <2>2. b \in Nat /\ t \in Nat /\ q # NULL /\ H[q].tot_len = t - b
    BY <1>1, <1>2, <2>1 DEF Laid
  <2>3. p # NULL
    <3>1. 1 \in 1 .. Len(c) /\ c[1] = p
      BY <1>2 DEF Laid
    <3>2. QED
      BY <1>2, <3>1 DEF Laid
  <2>4. QED
    BY <2>1, <2>2, <2>3
<1>4. o \in Nat /\ b + o = offset /\ (t - b) - o = t - offset
  <2>1. o = offset - b
    BY <1>1
  <2>2. QED
    BY <1>3, <2>1
<1>5. PICK k : k = Smaller(n, t - offset)
  OBVIOUS
<1>6. k \in Int /\ k <= t - offset
  BY <1>3, <1>5 DEF Smaller
<1>7. PICK s, f : s = Content(H, p) /\ f = Content(H, q)
  OBVIOUS
<1>8. \A j \in 1 .. t - b : f[j] = s[b + j]
  <2>1. RestIn(H, p, c, i)
    BY <1>3, RestContent
  <2>2. QED
    BY <1>1, <1>3, <1>7, <2>1 DEF RestIn
<1>9. ASSUME NEW j \in 1 .. k
      PROVE  f[o + j] = s[offset + j]
  <2>1. o + j \in 1 .. t - b /\ b + (o + j) = offset + j
    BY <1>3, <1>4, <1>6
  <2>2. QED
    BY <1>8, <2>1
<1>10. PartOf(H, q, o, n) = [j \in 1 .. k |-> f[o + j]]
  BY <1>3, <1>4, <1>5, <1>7 DEF PartOf
<1>11. PartOf(H, p, offset, n) = [j \in 1 .. k |-> s[offset + j]]
  BY <1>1, <1>3, <1>5, <1>7 DEF PartOf
<1>12. QED
  BY <1>1, <1>9, <1>10, <1>11

\* A part of a sequence, element by element.
LEMMA PartMade ==
  ASSUME NEW A, NEW s \in Seq(A), NEW a \in Nat, NEW m \in Nat, a + m <= Len(s)
  PROVE  /\ [k \in 1 .. m |-> s[a + k]] = SubSeq(s, a + 1, a + m)
         /\ Len(SubSeq(s, a + 1, a + m)) = m
<1>1. /\ SubSeq(s, a + 1, a + m) \in Seq(A) /\ Len(SubSeq(s, a + 1, a + m)) = m
      /\ \A k \in 1 .. m : a + k \in 1 .. Len(s) /\ SubSeq(s, a + 1, a + m)[k] = s[a + k]
  BY PartIs, Zenon
<1>2. PICK e : e = SubSeq(s, a + 1, a + m)
  OBVIOUS
<1>3. e \in Seq(A) /\ Len(e) = m /\ \A k \in 1 .. m : e[k] = s[a + k]
  BY <1>1, <1>2
<1>4. [k \in 1 .. m |-> s[a + k]] = e
  BY <1>3
<1>5. QED
  BY <1>2, <1>3, <1>4

\* What is copied of a sequence is the part asked for, as far as it goes.
PartRead(s, offset, n) ==
  LET m == Smaller(n, Len(s) - offset)
      part == SubSeq(s, offset + 1, Smaller(offset + n, Len(s)))
  IN  [k \in 1 .. m |-> s[offset + k]] = part /\ (offset <= Len(s) => Len(part) = m)

\* The bytes of a part.
LEMMA PartOfIs ==
  ASSUME NEW A, NEW s \in Seq(A), NEW offset \in Nat, offset <= Len(s) + 1, NEW n \in Nat
  PROVE  PartRead(s, offset, n)
<1>1. PICK t, m, u : t = Len(s) /\ m = Smaller(n, t - offset) /\ u = Smaller(offset + n, t)
  OBVIOUS
<1>2. t \in Nat /\ m \in Int /\ offset <= t + 1
  BY <1>1 DEF Smaller
<1>3. CASE offset <= t
  <2>1. m \in Nat /\ offset + m <= t /\ u = offset + m
    BY <1>1, <1>2, <1>3 DEF Smaller
  <2>2. offset + m <= Len(s)
    BY <1>1, <2>1
  <2>3. /\ [k \in 1 .. m |-> s[offset + k]] = SubSeq(s, offset + 1, offset + m)
        /\ Len(SubSeq(s, offset + 1, offset + m)) = m
    BY <2>1, <2>2, PartMade
  <2>4. QED
    BY <1>1, <2>1, <2>3 DEF PartRead
<1>4. CASE ~ (offset <= t)
  <2>1. offset = t + 1 /\ u = t
    BY <1>1, <1>2, <1>4 DEF Smaller
  <2>2. m < 0
    BY <1>1, <1>2, <2>1 DEF Smaller
  <2>3. 1 .. m = {}
    BY <1>2, <2>2
  <2>4. [k \in 1 .. m |-> s[offset + k]] = <<>>
    BY <2>3
  <2>5. SubSeq(s, (t + 1) + 1, t) = <<>>
    BY <1>2
  <2>6. QED
    BY <1>1, <1>4, <2>1, <2>4, <2>5 DEF PartRead
<1>5. QED
  BY <1>3, <1>4

\* The part of what p holds that is asked for.
Asked(H, p, n, offset) ==
  SubSeq(Content(H, p), offset + 1, Smaller(offset + n, Len(Content(H, p))))

\* pbuf_copy_partial().
LEMMA CopiesPart ==
  ASSUME NEW A, NEW H, NEW h, HeapOk(H, h), MemoryOf(H, A), NEW p \in DOMAIN H,
         NEW offset \in Nat, offset <= H[p].tot_len + 1, NEW n \in Nat
  PROVE  /\ CopyPartial(H, p, n, offset) = Asked(H, p, n, offset)
         /\ PartOf(H, p, offset, n) = Asked(H, p, n, offset)
         /\ offset <= H[p].tot_len =>
              Len(Asked(H, p, n, offset)) = Smaller(n, H[p].tot_len - offset)
<1>1. PICK s, t, m : s = Content(H, p) /\ t = H[p].tot_len /\ m = Smaller(n, t - offset)
  OBVIOUS
<1>2. s \in Seq(A) /\ t = Len(s)
  BY <1>1, ContentIs
<1>3. p # NULL
  <2>1. Laid(H, p, Chain(H, p))
    BY LaidIs
  <2>2. 1 \in 1 .. Len(Chain(H, p)) /\ Chain(H, p)[1] = p
    BY <2>1 DEF Laid
  <2>3. QED
    BY <2>1, <2>2 DEF Laid
<1>4. PartOf(H, p, offset, n) = [k \in 1 .. m |-> s[offset + k]]
  BY <1>1, <1>3 DEF PartOf
<1>5. /\ [k \in 1 .. m |-> s[offset + k]] = SubSeq(s, offset + 1, Smaller(offset + n, t))
      /\ offset <= t => Len(SubSeq(s, offset + 1, Smaller(offset + n, t))) = m
  <2>1. s \in Seq(A) /\ offset <= Len(s) + 1
    BY <1>1, <1>2
  <2>2. PartRead(s, offset, n)
    BY <2>1, PartOfIs
  <2>3. QED
    BY <1>1, <1>2, <2>2 DEF PartRead
<1>6. Asked(H, p, n, offset) = SubSeq(s, offset + 1, Smaller(offset + n, t))
  BY <1>1, <1>2 DEF Asked
<1>7. CopyPartial(H, p, n, offset) = PartOf(H, p, offset, n)
  BY CopyPartialIs
<1>8. QED
  BY <1>1, <1>4, <1>5, <1>6, <1>7

\* A pbuf has what the chain holds.
HoldsThere(H, p, c, i, o, n) ==
  /\ SubSeq(Payload(H, c[i]), o + 1, o + n) =
       SubSeq(Content(H, p), (Before(H, c, i) + o) + 1, (Before(H, c, i) + o) + n)
  /\ (Before(H, c, i) + o) + n <= H[p].tot_len

\* They are in the payload of that pbuf.
LEMMA PayloadThere ==
  ASSUME NEW A, NEW H, NEW h, HeapOk(H, h), MemoryOf(H, A), NEW p \in DOMAIN H,
         NEW c, c = Chain(H, p), NEW i \in 1 .. Len(c), NEW o \in Nat, NEW n \in Nat,
         o + n <= H[c[i]].len
  PROVE  HoldsThere(H, p, c, i, o, n)
<1>1. PICK q, b, l, t : q = c[i] /\ b = Before(H, c, i) /\ l = H[c[i]].len /\ t = H[p].tot_len
  OBVIOUS
<1>2. Laid(H, p, c)
  BY LaidIs
<1>3. q \in DOMAIN H /\ b \in Nat /\ l \in Nat /\ t \in Nat /\ o + n <= l
  BY <1>1, <1>2 DEF Laid
<1>4. b + l <= t
  BY <1>1, <1>2, BeforeEnds
<1>5. PICK s, u : s = Content(H, p) /\ u = Payload(H, q)
  OBVIOUS
<1>6. s \in Seq(A) /\ Len(s) = t /\ Spells(H, c, s)
  BY <1>1, <1>5, ContentIs
<1>7. /\ u \in Seq(A) /\ Len(u) = l
      /\ \A k \in 1 .. l : u[k] = H[q].mem[H[q].payload + k]
  <2>1. IsPbuf(H[q]) /\ Buffered(H[q]) /\ H[q].mem \in Seq(A)
    BY <1>3 DEF HeapOk, Linked, MemoryOf
  <2>2. /\ Payload(H, q) \in Seq(A) /\ Len(Payload(H, q)) = H[q].len
        /\ \A k \in 1 .. H[q].len : /\ H[q].payload + k \in 1 .. Len(H[q].mem)
                                    /\ Payload(H, q)[k] = H[q].mem[H[q].payload + k]
    BY <2>1, PayloadBytes
  <2>3. H[q].len = l
    BY <1>1
  <2>4. QED
    BY <1>5, <2>2, <2>3
<1>8. \A k \in 1 .. l : u[k] = s[b + k]
  BY <1>1, <1>6, <1>7 DEF Spells
<1>9. PICK d, e, x : d = SubSeq(u, o + 1, o + n) /\ x = b + o /\ e = SubSeq(s, x + 1, x + n)
  OBVIOUS
<1>10. x \in Nat /\ x + n <= t
  BY <1>3, <1>4, <1>9
<1>11. d \in Seq(A) /\ Len(d) = n /\ \A k \in 1 .. n : d[k] = u[o + k]
  <2>1. u \in Seq(A) /\ o + n <= Len(u)
    BY <1>3, <1>7
  <2>2. /\ SubSeq(u, o + 1, o + n) \in Seq(A) /\ Len(SubSeq(u, o + 1, o + n)) = n
        /\ \A k \in 1 .. n : o + k \in 1 .. Len(u) /\ SubSeq(u, o + 1, o + n)[k] = u[o + k]
    BY <2>1, PartIs, Zenon
  <2>3. QED
    BY <1>9, <2>2
<1>12. e \in Seq(A) /\ Len(e) = n /\ \A k \in 1 .. n : e[k] = s[x + k]
  <2>1. s \in Seq(A) /\ x \in Nat /\ x + n <= Len(s)
    BY <1>6, <1>10
  <2>2. /\ SubSeq(s, x + 1, x + n) \in Seq(A) /\ Len(SubSeq(s, x + 1, x + n)) = n
        /\ \A k \in 1 .. n : x + k \in 1 .. Len(s) /\ SubSeq(s, x + 1, x + n)[k] = s[x + k]
    BY <2>1, PartIs, Zenon
  <2>3. QED
    BY <1>9, <2>2
<1>13. ASSUME NEW k \in 1 .. n
       PROVE  d[k] = e[k]
  <2>1. o + k \in 1 .. l /\ b + (o + k) = x + k
    <3>1. x = b + o /\ k \in Nat /\ k >= 1 /\ k <= n
      BY <1>9
    <3>2. QED
      BY <1>3, <3>1
  <2>2. u[o + k] = s[b + (o + k)]
    BY <1>8, <2>1
  <2>3. QED
    BY <1>11, <1>12, <2>1, <2>2
<1>14. d = e
  <2>1. d = [k \in 1 .. n |-> d[k]] /\ e = [k \in 1 .. n |-> e[k]]
    BY <1>11, <1>12
  <2>2. QED
    BY <1>13, <2>1
<1>15. QED
  BY <1>1, <1>5, <1>9, <1>10, <1>14 DEF HoldsThere

\* pbuf_get_contiguous(): all of the part or nothing.
ReadsWhole(H, p, n, offset, whole) ==
  /\ GetContiguous(H, p, TRUE, n, offset) = whole
  /\ GetContiguous(H, p, FALSE, n, offset) \in {<<>>, whole}

\* pbuf_get_contiguous() finds the part, or copies it.
LEMMA ContiguousPart ==
  ASSUME NEW A, NEW H, NEW h, HeapOk(H, h), MemoryOf(H, A), NEW p \in DOMAIN H,
         NEW offset \in Nat, offset <= H[p].tot_len + 1, NEW n \in Nat,
         NEW whole, whole = IF offset < H[p].tot_len /\ offset + n <= H[p].tot_len
                            THEN Asked(H, p, n, offset) ELSE <<>>
  PROVE  ReadsWhole(H, p, n, offset, whole)
<1>1. PICK c, t, s : c = Chain(H, p) /\ t = H[p].tot_len /\ s = Content(H, p)
  OBVIOUS
<1>2. Laid(H, p, c) /\ t \in Nat
  <2>1. Laid(H, p, c)
    BY <1>1, LaidIs
  <2>2. QED
    BY <1>1, <2>1 DEF Laid
<1>3. Len(s) = t
  BY <1>1, ContentIs
<1>4. CASE ~ (offset < t)
  <2>1. Skip(H, p, offset).q = NULL
    BY <1>1, <1>2, <1>4, SkipFinds
  <2>2. \A buffered \in BOOLEAN : GetContiguous(H, p, buffered, n, offset) = <<>>
    BY <2>1 DEF GetContiguous
  <2>3. QED
    BY <1>1, <1>4, <2>2 DEF ReadsWhole
<1>5. CASE offset < t
  <2>1. PICK i \in 1 .. Len(c) : /\ Within(H, c, i, offset)
                                 /\ Skip(H, p, offset) = [q |-> c[i], offset |-> offset - Before(H, c, i)]
    BY <1>1, <1>2, <1>5, SkipFinds
  <2>2. PICK q, b, l, o : q = c[i] /\ b = Before(H, c, i) /\ l = H[q].len /\ o = offset - b
    OBVIOUS
  <2>3. q \in DOMAIN H /\ q # NULL /\ b \in Nat /\ l \in Nat /\ b <= offset /\ H[q].tot_len = t - b
    BY <1>1, <1>2, <2>1, <2>2 DEF Laid, Within
  <2>4. o \in Nat /\ b + o = offset /\ o <= t - b
    BY <1>2, <1>5, <2>2, <2>3
  <2>5. PICK part, copied : part = Asked(H, p, n, offset) /\ copied = CopyPartial(H, q, n, o)
    OBVIOUS
  <2>6. copied = part
    <3>1. copied = PartOf(H, q, o, n)
      BY <2>3, <2>4, <2>5, CopyPartialIs
    <3>2. PartOf(H, q, o, n) = PartOf(H, p, offset, n)
      BY <1>1, <2>1, <2>2, PartFromThere
    <3>3. PartOf(H, p, offset, n) = part
      BY <2>5, CopiesPart
    <3>4. QED
      BY <3>1, <3>2, <3>3
  <2>7. Len(part) = Smaller(n, t - offset)
    <3>1. offset <= H[p].tot_len
      BY <1>1, <1>2, <1>5
    <3>2. Len(Asked(H, p, n, offset)) = Smaller(n, H[p].tot_len - offset)
      BY <3>1, CopiesPart
    <3>3. QED
      BY <1>1, <2>5, <3>2
  <2>8. (Len(part) = n) = (offset + n <= t)
    BY <1>2, <1>5, <2>7 DEF Smaller
  <2>9. \A buffered \in BOOLEAN :
          GetContiguous(H, p, buffered, n, offset) =
            IF l >= o + n THEN SubSeq(Payload(H, q), o + 1, o + n)
            ELSE IF ~ buffered \/ Len(part) # n THEN <<>>
            ELSE part
    <3>1. PICK at : at = Skip(H, p, offset)
      OBVIOUS
    <3>2. at.q = q /\ at.offset = o
      BY <2>1, <2>2, <3>1
    <3>3. \A buffered \in BOOLEAN :
            GetContiguous(H, p, buffered, n, offset) =
              IF at.q = NULL THEN <<>>
              ELSE IF H[at.q].len >= at.offset + n
                   THEN SubSeq(Payload(H, at.q), at.offset + 1, at.offset + n)
              ELSE IF ~ buffered \/ Len(CopyPartial(H, at.q, n, at.offset)) # n THEN <<>>
              ELSE CopyPartial(H, at.q, n, at.offset)
      BY <3>1, Zenon DEF GetContiguous
    <3>4. QED
      BY <2>2, <2>3, <2>5, <2>6, <3>2, <3>3
  <2>10. CASE l >= o + n
    <3>1. o + n <= l
      BY <2>3, <2>4, <2>10
    <3>2. SubSeq(Payload(H, q), o + 1, o + n) = SubSeq(s, (b + o) + 1, (b + o) + n)
          /\ (b + o) + n <= t
      <4>1. i \in 1 .. Len(c) /\ o \in Nat /\ o + n <= H[c[i]].len /\ c = Chain(H, p)
        BY <1>1, <2>2, <2>4, <3>1
      <4>2. HoldsThere(H, p, c, i, o, n)
        BY <4>1, PayloadThere
      <4>3. QED
        BY <1>1, <2>2, <4>2 DEF HoldsThere
    <3>3. SubSeq(Payload(H, q), o + 1, o + n) = SubSeq(s, offset + 1, offset + n)
          /\ offset + n <= t
      BY <2>4, <3>2
    <3>4. Smaller(offset + n, t) = offset + n
      <4>1. offset + n <= t /\ offset + n \in Nat
        BY <3>3
      <4>2. QED
        BY <1>2, <4>1 DEF Smaller
    <3>5. part = SubSeq(s, offset + 1, offset + n)
      BY <1>1, <1>3, <2>5, <3>4 DEF Asked
    <3>6. whole = part
      BY <1>1, <1>5, <2>5, <3>3
    <3>7. QED
      BY <2>9, <2>10, <3>3, <3>5, <3>6 DEF ReadsWhole
  <2>11. CASE ~ (l >= o + n)
    BY <1>1, <1>5, <2>5, <2>8, <2>9, <2>11 DEF ReadsWhole
  <2>12. QED
    BY <2>10, <2>11
<1>6. QED
  BY <1>4, <1>5

\* pbuf_try_get_at().
LEMMA ByteThere ==
  ASSUME NEW A, NEW H, NEW h, HeapOk(H, h), MemoryOf(H, A), NEW p \in DOMAIN H,
         NEW offset \in Nat, offset <= H[p].tot_len + 1
  PROVE  TryGetAt(H, p, offset) = ToSet(Asked(H, p, 1, offset))
<1>1. PICK c, t, s : c = Chain(H, p) /\ t = H[p].tot_len /\ s = Content(H, p)
  OBVIOUS
<1>2. Laid(H, p, c) /\ t \in Nat
  <2>1. Laid(H, p, c)
    BY <1>1, LaidIs
  <2>2. QED
    BY <1>1, <2>1 DEF Laid
<1>3. Len(s) = t /\ s \in Seq(A)
  BY <1>1, ContentIs
<1>4. PICK m : m = Smaller(1, t - offset)
  OBVIOUS
<1>5. Asked(H, p, 1, offset) = [k \in 1 .. m |-> s[offset + k]]
  <2>1. offset <= Len(s) + 1 /\ 1 \in Nat
    BY <1>1, <1>3
  <2>2. PartRead(s, offset, 1)
    BY <1>3, <2>1, PartOfIs
  <2>3. [k \in 1 .. m |-> s[offset + k]] = SubSeq(s, offset + 1, Smaller(offset + 1, t))
    BY <1>3, <1>4, <2>2 DEF PartRead
  <2>4. QED
    BY <1>1, <1>3, <2>3 DEF Asked
<1>6. CASE ~ (offset < t)
  <2>1. Skip(H, p, offset).q = NULL
    BY <1>1, <1>2, <1>6, SkipFinds
  <2>2. TryGetAt(H, p, offset) = {}
    BY <2>1 DEF TryGetAt, ByteAt
  <2>3. m \in Int /\ m <= 0
    BY <1>2, <1>4, <1>6 DEF Smaller
  <2>4. 1 .. m = {}
    BY <2>3
  <2>5. PICK f : f = Asked(H, p, 1, offset)
    OBVIOUS
  <2>6. DOMAIN f = {}
    BY <1>5, <2>4, <2>5
  <2>7. ToSet(f) = {}
    BY <2>6 DEF ToSet
  <2>8. QED
    BY <2>2, <2>5, <2>7
<1>7. CASE offset < t
  <2>1. PICK i \in 1 .. Len(c) : /\ Within(H, c, i, offset)
                                 /\ Skip(H, p, offset) = [q |-> c[i], offset |-> offset - Before(H, c, i)]
    BY <1>1, <1>2, <1>7, SkipFinds
  <2>2. PICK q, b, l, o : q = c[i] /\ b = Before(H, c, i) /\ l = H[q].len /\ o = offset - b
    OBVIOUS
  <2>3. q \in DOMAIN H /\ q # NULL /\ b \in Nat /\ l \in Nat /\ b <= offset /\ offset < b + l
    BY <1>1, <1>2, <2>1, <2>2 DEF Laid, Within
  <2>4. o + 1 \in 1 .. l /\ b + (o + 1) = offset + 1
    <3>1. o = offset - b
      BY <2>2
    <3>2. QED
      BY <2>3, <3>1
  <2>5. TryGetAt(H, p, offset) = {Payload(H, q)[o + 1]}
    BY <2>1, <2>2, <2>3 DEF TryGetAt, ByteAt
  <2>6. Payload(H, q)[o + 1] = H[q].mem[H[q].payload + (o + 1)]
    <3>1. IsPbuf(H[q]) /\ Buffered(H[q]) /\ H[q].mem \in Seq(A)
      BY <2>3 DEF HeapOk, Linked, MemoryOf
    <3>2. /\ Payload(H, q) \in Seq(A) /\ Len(Payload(H, q)) = H[q].len
          /\ \A k \in 1 .. H[q].len : /\ H[q].payload + k \in 1 .. Len(H[q].mem)
                                      /\ Payload(H, q)[k] = H[q].mem[H[q].payload + k]
      BY <3>1, PayloadBytes
    <3>3. o + 1 \in 1 .. H[q].len
      BY <2>2, <2>4
    <3>4. QED
      BY <3>2, <3>3
  <2>7. s[b + (o + 1)] = H[q].mem[H[q].payload + (o + 1)]
    <3>1. Spells(H, c, s)
      BY <1>1, ContentIs
    <3>2. QED
      BY <2>2, <2>4, <3>1 DEF Spells
  <2>8. TryGetAt(H, p, offset) = {s[offset + 1]}
    BY <2>4, <2>5, <2>6, <2>7
  <2>9. m = 1
    BY <1>2, <1>4, <1>7 DEF Smaller
  <2>10. Asked(H, p, 1, offset) = <<s[offset + 1]>>
    BY <1>5, <2>9
  <2>11. QED
    BY <2>8, <2>10 DEF ToSet
<1>8. QED
  BY <1>6, <1>7

\* All of these are the flat reads of Pbuf.
LEMMA ReadsFlat ==
  ASSUME NEW A, NEW H, NEW h, HeapOk(H, h), MemoryOf(H, A), NEW p \in DOMAIN H
  PROVE  ReadsAreFlat(H, p)
<1>1. PICK s, t : s = Content(H, p) /\ t = H[p].tot_len
  OBVIOUS
<1>2. Len(s) = t /\ t \in Nat
  BY <1>1, ContentIs
<1>3. ASSUME NEW offset \in 0 .. t + 1, NEW n \in 0 .. t,
             NEW part, part = SubSeq(s, offset + 1, Smaller(offset + n, t)),
             NEW whole, whole = IF offset < t /\ offset + n <= t THEN part ELSE <<>>
      PROVE  /\ CopyPartial(H, p, n, offset) = part
             /\ GetContiguous(H, p, TRUE, n, offset) = whole
             /\ GetContiguous(H, p, FALSE, n, offset) \in {<<>>, whole}
             /\ TryGetAt(H, p, offset) = ToSet(SubSeq(s, offset + 1, Smaller(offset + 1, t)))
  <2>1. offset \in Nat /\ n \in Nat /\ offset <= H[p].tot_len + 1
    BY <1>1, <1>2
  <2>2. part = Asked(H, p, n, offset)
        /\ Asked(H, p, 1, offset) = SubSeq(s, offset + 1, Smaller(offset + 1, t))
    BY <1>1, <1>2, <1>3 DEF Asked
  <2>3. CopyPartial(H, p, n, offset) = part
    BY <2>1, <2>2, CopiesPart
  <2>4. whole = IF offset < H[p].tot_len /\ offset + n <= H[p].tot_len
                THEN Asked(H, p, n, offset) ELSE <<>>
    BY <1>1, <1>3, <2>2
  <2>5. ReadsWhole(H, p, n, offset, whole)
    BY <2>1, <2>4, ContiguousPart
  <2>6. TryGetAt(H, p, offset) = ToSet(Asked(H, p, 1, offset))
    BY <2>1, ByteThere
  <2>7. QED
    BY <2>2, <2>3, <2>5, <2>6 DEF ReadsWhole
<1>4. QED
  BY <1>1, <1>2, <1>3 DEF ReadsAreFlat

\* pbuf_get_at() has the byte of what p holds, where it has one.
LEMMA ByteIs ==
  ASSUME NEW A, NEW H, NEW h, HeapOk(H, h), MemoryOf(H, A), NEW p \in DOMAIN H,
         NEW offset \in Nat, offset < H[p].tot_len
  PROVE  GetAt(H, p, offset) = Content(H, p)[offset + 1]
<1>1. PICK s, t : s = Content(H, p) /\ t = H[p].tot_len
  OBVIOUS
<1>2. s \in Seq(A) /\ Len(s) = t /\ t \in Nat
  BY <1>1, ContentIs
<1>3. Smaller(offset + 1, t) = offset + 1
  BY <1>1, <1>2 DEF Smaller
<1>4. Asked(H, p, 1, offset) = SubSeq(s, offset + 1, offset + 1)
  BY <1>1, <1>2, <1>3 DEF Asked
<1>5. PICK e : e = SubSeq(s, offset + 1, offset + 1)
  OBVIOUS
<1>6. Len(e) = 1 /\ e[1] = s[offset + 1] /\ DOMAIN e = {1}
  <2>1. offset + 1 \in 1 .. Len(s)
    BY <1>1, <1>2
  <2>2. QED
    BY <1>2, <1>5, <2>1
<1>7. ToSet(e) = {s[offset + 1]}
  BY <1>6 DEF ToSet
<1>8. TryGetAt(H, p, offset) = {s[offset + 1]}
  <2>1. offset <= H[p].tot_len + 1
    BY <1>1, <1>2
  <2>2. TryGetAt(H, p, offset) = ToSet(Asked(H, p, 1, offset))
    BY <2>1, ByteThere
  <2>3. QED
    BY <1>4, <1>5, <1>7, <2>2
<1>9. OrZero({s[offset + 1]}) = s[offset + 1]
  BY DEF OrZero
<1>10. QED
  BY <1>1, <1>8, <1>9 DEF GetAt

\* The bytes are at an offset of what p holds.
Occurs(H, p, bytes, offset) == \A k \in DOMAIN bytes : Content(H, p)[offset + k] = bytes[k]

\* pbuf_memcmp() finds no difference where they are.
LEMMA ComparesThere ==
  ASSUME NEW A, NEW H, NEW h, HeapOk(H, h), MemoryOf(H, A), NEW p \in DOMAIN H,
         NEW B, NEW bytes \in Seq(B), NEW offset \in Nat, offset + Len(bytes) <= H[p].tot_len
  PROVE  Memcmp(H, p, offset, bytes) = 0 <=> Occurs(H, p, bytes, offset)
<1>1. PICK c, t, s, l : /\ c = Chain(H, p) /\ t = H[p].tot_len /\ s = Content(H, p)
                        /\ l = Len(bytes)
  OBVIOUS
<1>2. Laid(H, p, c) /\ t \in Nat /\ l \in Nat /\ DOMAIN bytes = 1 .. l
  <2>1. Laid(H, p, c)
    BY <1>1, LaidIs
  <2>2. t \in Nat
    BY <1>1, <2>1 DEF Laid
  <2>3. QED
    BY <1>1, <2>1, <2>2
<1>3. PICK at : at = Skip(H, p, offset)
  OBVIOUS
<1>4. ASSUME NEW k \in 1 .. l
      PROVE  GetAt(H, at.q, at.offset + k - 1) = s[offset + k]
  <2>1. offset < t
    BY <1>1, <1>2
  <2>2. PICK i \in 1 .. Len(c) : /\ Within(H, c, i, offset)
                                 /\ at = [q |-> c[i], offset |-> offset - Before(H, c, i)]
    BY <1>1, <1>2, <1>3, <2>1, SkipFinds
  <2>3. PICK q, b, u : q = c[i] /\ b = Before(H, c, i) /\ u = H[c[i]].tot_len
    OBVIOUS
  <2>4. q \in DOMAIN H /\ b \in Nat /\ u = t - b /\ b <= offset
    BY <1>1, <1>2, <2>2, <2>3 DEF Laid, Within
  <2>5. PICK o : o = (offset - b) + k - 1
    OBVIOUS
  <2>6. o \in Nat /\ o < u /\ o + 1 \in 1 .. u /\ b + (o + 1) = offset + k
    <3>1. offset + l <= t
      BY <1>1
    <3>2. QED
      BY <1>2, <2>4, <2>5, <3>1
  <2>7. GetAt(H, q, o) = Content(H, q)[o + 1]
    BY <2>3, <2>4, <2>6, ByteIs
  <2>8. Content(H, q)[o + 1] = s[b + (o + 1)]
    <3>1. RestIn(H, p, c, i)
      BY <1>1, RestContent
    <3>2. QED
      BY <1>1, <2>3, <2>6, <3>1 DEF RestIn
  <2>9. at.q = q /\ at.offset + k - 1 = o
    BY <2>2, <2>3, <2>5
  <2>10. QED
    BY <2>6, <2>7, <2>8, <2>9
<1>5. PICK S : S = {i \in DOMAIN bytes : GetAt(H, at.q, at.offset + i - 1) # bytes[i]}
  OBVIOUS
<1>6. Memcmp(H, p, offset, bytes) = LeastOf(S, 0)
  <2>1. ~ (H[p].tot_len < offset + Len(bytes))
    BY <1>1, <1>2
  <2>2. QED
    BY <1>3, <1>5, <2>1 DEF Memcmp
<1>7. S = {} <=> Occurs(H, p, bytes, offset)
  <2>1. S = {k \in 1 .. l : s[offset + k] # bytes[k]}
    BY <1>2, <1>4, <1>5
  <2>2. QED
    BY <1>1, <1>2, <2>1 DEF Occurs
<1>8. LeastOf(S, 0) = 0 <=> S = {}
  <2>1. S \in SUBSET Nat /\ 0 \notin S
    BY <1>2, <1>5
  <2>2. QED
    BY <2>1, LeastOfIs
<1>9. QED
  BY <1>6, <1>7, <1>8

\* They are where the part that begins there is the same.
LEMMA OccursIs ==
  ASSUME NEW A, NEW H, NEW h, HeapOk(H, h), MemoryOf(H, A), NEW p \in DOMAIN H,
         NEW bytes \in Seq(A), NEW offset \in Nat, offset + Len(bytes) <= H[p].tot_len
  PROVE  Occurs(H, p, bytes, offset) <=>
           SubSeq(Content(H, p), offset + 1, offset + Len(bytes)) = bytes
<1>1. PICK s, l : s = Content(H, p) /\ l = Len(bytes)
  OBVIOUS
<1>2. s \in Seq(A) /\ Len(s) = H[p].tot_len /\ l \in Nat /\ DOMAIN bytes = 1 .. l
  BY <1>1, ContentIs
<1>3. PICK e : e = SubSeq(s, offset + 1, offset + l)
  OBVIOUS
<1>4. e \in Seq(A) /\ Len(e) = l /\ \A k \in 1 .. l : e[k] = s[offset + k]
  <2>1. offset + l <= Len(s)
    BY <1>1, <1>2
  <2>2. s \in Seq(A) /\ offset \in Nat /\ l \in Nat
    BY <1>2
  <2>3. /\ SubSeq(s, offset + 1, offset + l) \in Seq(A)
        /\ Len(SubSeq(s, offset + 1, offset + l)) = l
        /\ \A k \in 1 .. l : /\ offset + k \in 1 .. Len(s)
                             /\ SubSeq(s, offset + 1, offset + l)[k] = s[offset + k]
    BY <2>1, <2>2, PartIs, Zenon
  <2>4. QED
    BY <1>3, <2>3
<1>5. ASSUME \A k \in 1 .. l : e[k] = bytes[k]
      PROVE  e = bytes
  BY <1>1, <1>2, <1>4, <1>5, SeqEqual
<1>6. Occurs(H, p, bytes, offset) <=> \A k \in 1 .. l : e[k] = bytes[k]
  BY <1>1, <1>2, <1>4 DEF Occurs
<1>7. QED
  BY <1>1, <1>3, <1>5, <1>6, <1>2

\* pbuf_memfind() and pbuf_strstr() find the first place where the bytes are.
LEMMA FindsFirst ==
  ASSUME NEW A, NEW H, NEW h, HeapOk(H, h), MemoryOf(H, A), NEW p \in DOMAIN H,
         NEW bytes \in Seq(A), NEW start \in Nat
  PROVE  Memfind(H, p, bytes, start) = LeastOf(PlacesOf(Content(H, p), bytes, start), NotFound)
<1>1. PICK s : s = Content(H, p)
  OBVIOUS
<1>2. Len(s) = H[p].tot_len /\ Len(s) \in Nat /\ Len(bytes) \in Nat
  <2>1. s \in Seq(A) /\ Len(s) = H[p].tot_len
    BY <1>1, ContentIs
  <2>2. QED
    BY <2>1
<1>3. ASSUME NEW i \in start .. H[p].tot_len - Len(bytes)
      PROVE  Memcmp(H, p, i, bytes) = 0 <=> SubSeq(s, i + 1, i + Len(bytes)) = bytes
  <2>1. i \in Nat /\ i + Len(bytes) <= H[p].tot_len
    BY <1>2
  <2>2. Memcmp(H, p, i, bytes) = 0 <=> Occurs(H, p, bytes, i)
    BY <2>1, ComparesThere
  <2>3. Occurs(H, p, bytes, i) <=> SubSeq(s, i + 1, i + Len(bytes)) = bytes
    BY <1>1, <2>1, OccursIs
  <2>4. QED
    BY <2>2, <2>3
<1>4. {i \in start .. H[p].tot_len - Len(bytes) : Memcmp(H, p, i, bytes) = 0} =
        PlacesOf(s, bytes, start)
  BY <1>2, <1>3 DEF PlacesOf
<1>5. QED
  BY <1>1, <1>4 DEF Memfind

\* The parts of a sequence and the sequence backwards are sequences of its elements.
LEMMA PartsOfIt ==
  ASSUME NEW A, NEW s \in Seq(A), NEW bytes \in SubSeqs(s) \cup {Reverse(s)}
  PROVE  bytes \in Seq(A)
<1>1. CASE bytes \in SubSeqs(s)
  <2>1. PICK i \in 0 .. Len(s), j \in 0 .. Len(s) : bytes = SubSeq(s, i + 1, j)
    BY <1>1 DEF SubSeqs
  <2>2. CASE i <= j
    <3>1. PICK n : n = j - i
      OBVIOUS
    <3>2. n \in Nat /\ i + n = j /\ i \in Nat /\ i + n <= Len(s)
      BY <2>2, <3>1
    <3>3. SubSeq(s, i + 1, i + n) \in Seq(A)
      BY <3>2, PartIs, Zenon
    <3>4. QED
      BY <2>1, <3>2, <3>3
  <2>3. CASE ~ (i <= j)
    <3>1. bytes = <<>>
      BY <2>1, <2>3
    <3>2. QED
      BY <3>1
  <2>4. QED
    BY <2>2, <2>3
<1>2. CASE bytes = Reverse(s)
  <2>1. PICK n : n = Len(s)
    OBVIOUS
  <2>2. n \in Nat /\ \A i \in 1 .. n : s[(n - i) + 1] \in A
    BY <2>1
  <2>3. bytes = [i \in 1 .. n |-> s[(n - i) + 1]]
    BY <1>2, <2>1 DEF Reverse
  <2>4. QED
    BY <2>2, <2>3
<1>3. QED
  BY <1>1, <1>2

\* All of these are the flat searches of Pbuf.
LEMMA SearchesFlat ==
  ASSUME NEW A, NEW H, NEW h, HeapOk(H, h), MemoryOf(H, A), NEW p \in DOMAIN H
  PROVE  SearchesAreFlat(H, p)
<1>1. PICK s : s = Content(H, p)
  OBVIOUS
<1>2. s \in Seq(A) /\ Len(s) = H[p].tot_len /\ Len(s) \in Nat
  <2>1. s \in Seq(A) /\ Len(s) = H[p].tot_len
    BY <1>1, ContentIs
  <2>2. QED
    BY <2>1
<1>3. ASSUME NEW bytes \in SubSeqs(s) \cup {Reverse(s)}, NEW start \in 0 .. Len(s)
      PROVE  /\ Memfind(H, p, bytes, start) = LeastOf(PlacesOf(s, bytes, start), NotFound)
             /\ start = 0 /\ bytes # <<>> /\ Len(s) # NotFound =>
                  Strstr(H, p, bytes) = LeastOf(PlacesOf(s, bytes, start), NotFound)
  <2>1. bytes \in Seq(A) /\ start \in Nat
    BY <1>2, PartsOfIt
  <2>2. Memfind(H, p, bytes, start) = LeastOf(PlacesOf(Content(H, p), bytes, start), NotFound)
    BY <2>1, FindsFirst
  <2>3. Memfind(H, p, bytes, start) = LeastOf(PlacesOf(s, bytes, start), NotFound)
    BY <1>1, <2>2
  <2>4. ASSUME start = 0, bytes # <<>>, Len(s) # NotFound
        PROVE  Strstr(H, p, bytes) = Memfind(H, p, bytes, start)
    BY <1>2, <2>4 DEF Strstr
  <2>5. QED
    BY <2>3, <2>4
<1>4. QED
  BY <1>1, <1>3 DEF SearchesAreFlat

-----------------------------------------------------------------------------
(* Writing changes payload and nothing else.                               *)

\* What is not payload of buffer b is the same in d.
Around(b, d) ==
  \A i \in 1 .. Len(b.mem) : i \notin b.payload + 1 .. b.payload + b.len => d.mem[i] = b.mem[i]
PayloadOnly(H, G) == \A q \in DOMAIN H : Around(H[q], G[q])

\* One write after another.
LEMMA AroundsFollow ==
  ASSUME NEW H, NEW G, NEW F, Structs(H), SameShape(H, G), PayloadOnly(H, G), PayloadOnly(G, F)
  PROVE  PayloadOnly(H, F)
<1>1. ASSUME NEW q \in DOMAIN H
      PROVE  Around(H[q], F[q])
  <2>1. IsPbuf(H[q]) /\ Buffered(H[q]) /\ OtherBytes(H[q], G[q]) /\ DOMAIN G = DOMAIN H
    BY DEF Structs, SameShape, OtherBytes
  <2>2. G[q].len = H[q].len /\ G[q].payload = H[q].payload /\ Len(G[q].mem) = Len(H[q].mem)
    BY <2>1, OtherBytesKeep DEF OtherBytes
  <2>3. Around(H[q], G[q]) /\ Around(G[q], F[q])
    BY <2>1 DEF PayloadOnly
  <2>4. QED
    BY <2>2, <2>3 DEF Around
<1>2. QED
  BY <1>1 DEF PayloadOnly

\* Bytes that fit into the payload of a buffer.
LEMMA FilledAround ==
  ASSUME NEW b, IsPbuf(b), Buffered(b), NEW B, NEW bytes \in Seq(B), NEW offset \in Nat,
         offset + Len(bytes) <= b.len
  PROVE  Around(b, Filled(b, offset, bytes))
<1>1. PICK m, o, l, L : m = b.mem /\ o = b.payload /\ l = b.len /\ L = Len(bytes)
  OBVIOUS
<1>2. /\ o \in Nat /\ l \in Nat /\ L \in Nat /\ DOMAIN bytes = 1 .. L /\ offset + L <= l
      /\ DOMAIN m = 1 .. Len(m)
  BY <1>1 DEF IsPbuf, Buffered
<1>3. PICK d : d = [i \in DOMAIN m |-> LET j == i - o - offset
                                      IN  IF j \in DOMAIN bytes THEN bytes[j] ELSE m[i]]
  OBVIOUS
<1>4. Filled(b, offset, bytes).mem = d
  BY <1>1, <1>3 DEF Filled, IsPbuf
<1>5. ASSUME NEW i \in 1 .. Len(m), i \notin o + 1 .. o + l
      PROVE  d[i] = m[i]
  <2>1. i \in DOMAIN m /\ i \in Int
    BY <1>2
  <2>2. i - o - offset \notin 1 .. L
    BY <1>2, <1>5, <2>1
  <2>3. QED
    BY <1>2, <1>3, <2>1, <2>2
<1>6. QED
  BY <1>1, <1>4, <1>5 DEF Around

\* A heap, and a buffer, written to nowhere.
LEMMA AroundItself ==
  ASSUME NEW H
  PROVE  PayloadOnly(H, H)
BY DEF PayloadOnly, Around

\* Bytes put into one pbuf.
LEMMA PutAround ==
  ASSUME NEW H, Structs(H), NEW q \in DOMAIN H, NEW B, NEW bytes \in Seq(B), NEW offset \in Nat,
         offset + Len(bytes) <= H[q].len
  PROVE  PayloadOnly(H, Put(H, q, offset, bytes))
<1>1. \A x \in DOMAIN H : Put(H, q, offset, bytes)[x] =
                            IF x = q THEN Filled(H[x], offset, bytes) ELSE H[x]
  BY DEF Put
<1>2. Around(H[q], Filled(H[q], offset, bytes))
  BY FilledAround DEF Structs
<1>3. \A x \in DOMAIN H : Around(H[x], H[x])
  BY AroundItself DEF PayloadOnly
<1>4. QED
  BY <1>1, <1>2, <1>3 DEF PayloadOnly

\* pbuf_take().
LEMMA TakeAround ==
  ASSUME NEW A, NEW H, NEW h, HeapOk(H, h), NEW p \in DOMAIN H, NEW bytes \in Seq(A)
  PROVE  PayloadOnly(H, Take(H, p, bytes).H)
<1>1. PICK c : c = Chain(H, p)
  OBVIOUS
<1>2. Laid(H, p, c) /\ IsChain(H, p, c) /\ Structs(H) /\ p # NULL
  BY <1>1, LaidIs, ConstantsAssumption DEF HeapOk, Linked, Structs, ConstantsAssumption
<1> DEFINE done(i) == Smaller(Before(H, c, i), Len(bytes))
           n(i) == Smaller(Len(bytes) - done(i), H[c[i]].len)
           part(i) == SubSeq(bytes, done(i) + 1, done(i) + n(i))
           fill(i) == Filled(H[c[i]], 0, part(i))
           G == [q \in DOMAIN H |->
                   IF q \in ToSet(c) THEN fill(CHOOSE i \in DOMAIN c : c[i] = q) ELSE H[q]]
<1>3. Take(H, p, bytes).H = H \/ Take(H, p, bytes).H = G
  BY <1>1, <1>2 DEF Take
<1>4. ASSUME NEW i \in 1 .. Len(c)
      PROVE  Around(H[c[i]], fill(i))
  <2>1. PICK L, d, m, l, b : L = Len(bytes) /\ d = done(i) /\ m = n(i) /\ l = H[c[i]].len /\ b = Before(H, c, i)
    OBVIOUS
  <2>2. L \in Nat /\ l \in Nat /\ b \in Nat /\ c[i] \in DOMAIN H
    BY <1>2, <2>1 DEF Laid
  <2>3. d = (IF b < L THEN b ELSE L) /\ m = (IF L - d < l THEN L - d ELSE l)
    BY <2>1 DEF Smaller
  <2>4. d \in Nat /\ m \in Nat /\ d + m <= L /\ m <= l
    BY <2>2, <2>3
  <2>5. d + m <= Len(bytes) /\ d \in Nat /\ m \in Nat
    BY <2>1, <2>4
  <2>6. /\ SubSeq(bytes, d + 1, d + m) \in Seq(A) /\ Len(SubSeq(bytes, d + 1, d + m)) = m
        /\ \A k \in 1 .. m : d + k \in 1 .. Len(bytes) /\ SubSeq(bytes, d + 1, d + m)[k] = bytes[d + k]
    BY <2>5, PartIs, ZenonT(60)
  <2>7. part(i) \in Seq(A) /\ Len(part(i)) = m
    BY <2>1, <2>6
  <2>8. PICK x, q : x = part(i) /\ q = H[c[i]]
    OBVIOUS
  <2>9. x \in Seq(A) /\ IsPbuf(q) /\ Buffered(q) /\ 0 \in Nat
    BY <1>2, <2>2, <2>7, <2>8 DEF Structs
  <2>10. 0 + Len(x) <= q.len
    BY <2>1, <2>4, <2>7, <2>8
  <2>11. Around(q, Filled(q, 0, x))
    BY <2>9, <2>10, FilledAround
  <2>12. QED
    BY <2>8, <2>11
<1>5. PayloadOnly(H, G)
  <2>1. \A q \in ToSet(c) : /\ (CHOOSE i \in DOMAIN c : c[i] = q) \in 1 .. Len(c)
                            /\ c[CHOOSE i \in DOMAIN c : c[i] = q] = q
    BY <1>2 DEF Laid, ToSet
  <2>2. \A q \in DOMAIN H : Around(H[q], H[q])
    BY AroundItself DEF PayloadOnly
  <2> HIDE DEF fill
  <2>3. QED
    BY <1>4, <2>1, <2>2 DEF PayloadOnly
<1> HIDE DEF G
<1>6. QED
  BY <1>3, <1>5, AroundItself

\* pbuf_take_at().
LEMMA TakeAtAround ==
  ASSUME NEW A, NEW H, NEW h, HeapOk(H, h), NEW p \in DOMAIN H,
         NEW bytes \in Seq(A), NEW offset \in Nat
  PROVE  PayloadOnly(H, TakeAt(H, p, bytes, offset).H)
<1>1. PICK c : c = Chain(H, p)
  OBVIOUS
<1>2. Laid(H, p, c) /\ IsChain(H, p, c) /\ Structs(H)
  BY <1>1, LaidIs DEF HeapOk, Linked, Structs
<1>3. PICK L : L = Len(bytes)
  OBVIOUS
<1>4. PICK at : at = Skip(H, p, offset)
  OBVIOUS
<1>5. PICK n : n = Smaller(H[at.q].len - at.offset, L)
  OBVIOUS
<1>6. PICK begun : begun = Put(H, at.q, at.offset, SubSeq(bytes, 1, n))
  OBVIOUS
<1>7. CASE at.q = NULL
  <2>1. TakeAt(H, p, bytes, offset).H = H
    BY <1>4, <1>7 DEF TakeAt
  <2>2. QED
    BY <2>1, AroundItself
<1>8. CASE at.q # NULL
  <2>1. L \in Nat
    BY <1>3
  <2>2. n \in Nat /\ n <= L /\ at.offset \in Nat /\ at.offset + n <= H[at.q].len /\ at.q \in DOMAIN H
    <3>1. offset < H[p].tot_len
      BY <1>2, <1>4, <1>8, SkipFinds
    <3>2. PICK i \in 1 .. Len(c) : Within(H, c, i, offset) /\ at = [q |-> c[i], offset |-> offset - Before(H, c, i)]
      BY <1>2, <1>4, <3>1, SkipFinds
    <3>3. PICK l, b : l = H[c[i]].len /\ b = Before(H, c, i)
      OBVIOUS
    <3>4. l \in Nat /\ b \in Nat /\ b <= offset /\ offset < b + l /\ c[i] \in DOMAIN H
      BY <1>2, <3>2, <3>3 DEF Laid, Within
    <3>5. n = (IF l - (offset - b) < L THEN l - (offset - b) ELSE L)
      BY <1>5, <3>2, <3>3 DEF Smaller
    <3>6. at.q = c[i] /\ at.offset = offset - b
      BY <3>2, <3>3
    <3>7. n \in Nat /\ n <= L /\ (offset - b) \in Nat /\ (offset - b) + n <= l
      BY <2>1, <3>4, <3>5
    <3>8. QED
      BY <3>3, <3>4, <3>6, <3>7
  <2>3. SubSeq(bytes, 1, n) \in Seq(A) /\ Len(SubSeq(bytes, 1, n)) = n
    <3>1. 0 + n <= Len(bytes) /\ n \in Nat /\ 0 \in Nat
      BY <1>3, <2>2
    <3>2. /\ SubSeq(bytes, 0 + 1, 0 + n) \in Seq(A) /\ Len(SubSeq(bytes, 0 + 1, 0 + n)) = n
          /\ \A k \in 1 .. n : 0 + k \in 1 .. Len(bytes) /\ SubSeq(bytes, 0 + 1, 0 + n)[k] = bytes[0 + k]
      BY <3>1, PartIs, ZenonT(60)
    <3>3. 0 + 1 = 1 /\ 0 + n = n
      BY <3>1
    <3>4. QED
      BY <3>2, <3>3
  <2>4. PICK e : e = L - n
    OBVIOUS
  <2>5. SubSeq(bytes, n + 1, L) \in Seq(A)
    <3>1. e \in Nat /\ n + e = L
      BY <2>1, <2>2, <2>4
    <3>2. n + e <= Len(bytes) /\ n \in Nat /\ e \in Nat
      BY <1>3, <2>1, <2>2, <3>1
    <3>3. /\ SubSeq(bytes, n + 1, n + e) \in Seq(A) /\ Len(SubSeq(bytes, n + 1, n + e)) = e
          /\ \A k \in 1 .. e : n + k \in 1 .. Len(bytes) /\ SubSeq(bytes, n + 1, n + e)[k] = bytes[n + k]
      BY <3>2, PartIs, ZenonT(60)
    <3>4. QED
      BY <3>1, <3>3
  <2>6. PayloadOnly(H, begun)
    <3>1. PICK s, q, o : s = SubSeq(bytes, 1, n) /\ q = at.q /\ o = at.offset
      OBVIOUS
    <3>2. s \in Seq(A) /\ q \in DOMAIN H /\ o \in Nat /\ o + Len(s) <= H[q].len
      BY <2>2, <2>3, <3>1
    <3>3. PayloadOnly(H, Put(H, q, o, s))
      BY <1>2, <3>2, PutAround
    <3>4. QED
      BY <1>6, <3>1, <3>3
  <2>7. SameShape(H, begun)
    BY <1>2, <1>6, PutKeepsShape
  <2>8. HeapOk(begun, h)
    BY <2>7, SameShapeKeeps
  <2>9. PICK y, r : y = H[at.q].next /\ r = SubSeq(bytes, n + 1, L)
    OBVIOUS
  <2>10. \/ TakeAt(H, p, bytes, offset).H = H
         \/ TakeAt(H, p, bytes, offset).H = begun
         \/ TakeAt(H, p, bytes, offset).H = Take(begun, y, r).H
    BY <1>3, <1>4, <1>5, <1>6, <2>9 DEF TakeAt
  <2>11. PayloadOnly(begun, Take(begun, y, r).H)
    <3>1. CASE y = NULL
      <4>1. Take(begun, y, r) = [err |-> "ARG", H |-> begun]
        BY <3>1 DEF Take
      <4>2. QED
        BY <4>1, AroundItself
    <3>2. CASE y # NULL
      <4>1. y \in DOMAIN begun
        BY <2>2, <2>7, <2>9, <3>2 DEF HeapOk, Linked, SameShape
      <4>2. r \in Seq(A)
        BY <2>5, <2>9
      <4>3. QED
        BY <2>8, <4>1, <4>2, TakeAround
    <3>3. QED
      BY <3>1, <3>2
  <2>12. PayloadOnly(H, Take(begun, y, r).H)
    BY <1>2, <2>6, <2>7, <2>11, AroundsFollow
  <2>13. QED
    BY <2>6, <2>10, <2>12, AroundItself
<1>9. QED
  BY <1>7, <1>8

\* A heap is a function.
IsHeap(H) == H = [q \in DOMAIN H |-> H[q]]

\* Writing leaves it one.
LEMMA PutIsHeap ==
  ASSUME NEW H, IsHeap(H), NEW q, NEW offset, NEW bytes
  PROVE  IsHeap(Put(H, q, offset, bytes))
BY DEF IsHeap, Put

\* The same of pbuf_take(),
LEMMA TakeIsHeap ==
  ASSUME NEW H, IsHeap(H), NEW p, NEW bytes
  PROVE  IsHeap(Take(H, p, bytes).H)
<1> DEFINE c == Chain(H, p)
           done(i) == Smaller(Before(H, c, i), Len(bytes))
           n(i) == Smaller(Len(bytes) - done(i), H[c[i]].len)
           fill(i) == Filled(H[c[i]], 0, SubSeq(bytes, done(i) + 1, done(i) + n(i)))
           f(q) == IF q \in ToSet(c) THEN fill(CHOOSE i \in DOMAIN c : c[i] = q) ELSE H[q]
           G == [q \in DOMAIN H |-> f(q)]
<1>1. Take(H, p, bytes).H = H \/ Take(H, p, bytes).H = G
  BY DEF Take
<1>2. IsHeap(G)
  <2> HIDE DEF f
  <2>1. QED
    BY DEF IsHeap
<1> HIDE DEF G
<1>3. QED
  BY <1>1, <1>2

\* and of pbuf_take_at().
LEMMA TakeAtIsHeap ==
  ASSUME NEW H, IsHeap(H), NEW p, NEW bytes, NEW offset
  PROVE  IsHeap(TakeAt(H, p, bytes, offset).H)
<1>1. PICK at, n, begun : /\ at = Skip(H, p, offset) /\ n = Smaller(H[at.q].len - at.offset, Len(bytes))
                          /\ begun = Put(H, at.q, at.offset, SubSeq(bytes, 1, n))
  OBVIOUS
<1>2. PICK y, r : y = H[at.q].next /\ r = SubSeq(bytes, n + 1, Len(bytes))
  OBVIOUS
<1>3. IsHeap(begun)
  BY <1>1, PutIsHeap
<1>4. IsHeap(Take(begun, y, r).H)
  BY <1>3, TakeIsHeap
<1>5. TakeAt(H, p, bytes, offset).H \in {H, begun, Take(begun, y, r).H}
  BY <1>1, <1>2 DEF TakeAt
<1>6. QED
  BY <1>3, <1>4, <1>5

\* What was put where, and nothing else, is all there is to a heap.
LEMMA WrittenOnce ==
  ASSUME NEW H, NEW p, NEW c, Laid(H, p, c), NEW bytes, NEW offset,
         NEW G, IsHeap(G), Overwritten(H, G, c, bytes, offset), PayloadOnly(H, G),
         NEW F, IsHeap(F), Overwritten(H, F, c, bytes, offset), PayloadOnly(H, F)
  PROVE  G = F
<1>1. ASSUME NEW q \in DOMAIN H
      PROVE  G[q] = F[q]
  <2>1. CASE q \notin First(c, Len(c))
    BY <2>1 DEF Overwritten
  <2>2. CASE q \in First(c, Len(c))
    <3>1. PICK i \in 1 .. Len(c) : c[i] = q
      BY <2>2 DEF First
    <3>2. PICK b, m, g, f : b = H[q] /\ m = b.mem /\ g = G[q].mem /\ f = F[q].mem
      OBVIOUS
    <3>3. G[q] = [b EXCEPT !.mem = g] /\ F[q] = [b EXCEPT !.mem = f]
      BY <3>2 DEF Overwritten, SameShape
    <3>4. PICK n, o, l : n = Len(m) /\ o = b.payload /\ l = b.len
      OBVIOUS
    <3>5. o \in Nat /\ l \in Nat
      BY <3>1, <3>2, <3>4 DEF Laid
    <3>6. PICK S : S = ToSet(g) \cup ToSet(f)
      OBVIOUS
    <3>7. g \in Seq(S) /\ f \in Seq(S) /\ Len(g) = n /\ Len(f) = n
      <4>1. /\ g \in Seq(ToSet(g)) /\ Len(g) = n /\ f \in Seq(ToSet(f)) /\ Len(f) = n
        BY <3>2, <3>4 DEF Overwritten, SameShape
      <4>2. ToSet(g) \subseteq S /\ ToSet(f) \subseteq S
        BY <3>6
      <4>3. QED
        BY <4>1, <4>2, SeqMonotonic
    <3>8. ASSUME NEW x \in 1 .. n
          PROVE  g[x] = f[x]
      <4>1. CASE x \in o + 1 .. o + l
        <5>1. PICK k : k = x - o
          OBVIOUS
        <5>2. k \in 1 .. l /\ o + k = x
          BY <3>5, <4>1, <5>1
        <5>3. PICK j : j = Before(H, c, i) + k - offset
          OBVIOUS
        <5>4. k \in 1 .. H[c[i]].len /\ H[c[i]].payload + k = x
          BY <3>1, <3>2, <3>4, <5>2
        <5>5. g[x] = (IF j \in DOMAIN bytes THEN bytes[j] ELSE m[x])
          <6>1. G[c[i]].mem[H[c[i]].payload + k] =
                  (IF Before(H, c, i) + k - offset \in DOMAIN bytes
                   THEN bytes[Before(H, c, i) + k - offset] ELSE H[c[i]].mem[H[c[i]].payload + k])
            BY <5>4, Zenon DEF Overwritten
          <6>2. QED
            BY <3>1, <3>2, <5>3, <5>4, <6>1, Zenon
        <5>6. f[x] = (IF j \in DOMAIN bytes THEN bytes[j] ELSE m[x])
          <6>1. F[c[i]].mem[H[c[i]].payload + k] =
                  (IF Before(H, c, i) + k - offset \in DOMAIN bytes
                   THEN bytes[Before(H, c, i) + k - offset] ELSE H[c[i]].mem[H[c[i]].payload + k])
            BY <5>4, Zenon DEF Overwritten
          <6>2. QED
            BY <3>1, <3>2, <5>3, <5>4, <6>1, Zenon
        <5>7. QED
          BY <5>5, <5>6
      <4>2. CASE x \notin o + 1 .. o + l
        BY <3>2, <3>4, <4>2 DEF PayloadOnly, Around
      <4>3. QED
        BY <4>1, <4>2
    <3>9. g = f
      BY <3>7, <3>8, SeqEqual
    <3>10. QED
      BY <3>3, <3>9
  <2>3. QED
    BY <2>1, <2>2
<1>2. DOMAIN G = DOMAIN H /\ DOMAIN F = DOMAIN H
  BY DEF Overwritten, SameShape
<1>3. G = [q \in DOMAIN H |-> G[q]] /\ F = [q \in DOMAIN H |-> F[q]]
  BY <1>2 DEF IsHeap
<1>4. QED
  BY <1>1, <1>2, <1>3

\* The bytes put by pbuf_put_at().
LEMMA PutAtContent ==
  ASSUME NEW A, NEW H, NEW h, HeapOk(H, h), MemoryOf(H, A), NEW p \in DOMAIN H,
         NEW x \in A, NEW offset \in 0 .. H[p].tot_len
  PROVE  Content(PutAt(H, p, offset, x), p) = Overlaid(Content(H, p), <<x>>, offset)
<1>1. PICK c, t, s : c = Chain(H, p) /\ t = H[p].tot_len /\ s = Content(H, p)
  OBVIOUS
<1>2. Laid(H, p, c) /\ t \in Nat /\ Structs(H)
  <2>1. Laid(H, p, c)
    BY <1>1, LaidIs
  <2>2. t \in Nat /\ Structs(H)
    BY <1>1, <2>1 DEF Laid, HeapOk, Linked, Structs
  <2>3. QED
    BY <2>1, <2>2
<1>3. PICK b : b = <<x>>
  OBVIOUS
<1>4. b \in Seq(A) /\ Len(b) = 1 /\ DOMAIN b = {1} /\ offset \in Nat
  BY <1>1, <1>2, <1>3
<1>5. CASE ~ (offset < t)
  <2>1. Skip(H, p, offset).q = NULL
    BY <1>1, <1>2, <1>4, <1>5, SkipFinds
  <2>2. PutAt(H, p, offset, x) = H
    BY <2>1 DEF PutAt
  <2>3. s \in Seq(A) /\ Len(s) = t
    BY <1>1, ContentIs
  <2>4. DOMAIN s = 1 .. t /\ s = [i \in 1 .. t |-> s[i]]
    BY <2>3
  <2>5. \A i \in 1 .. t : i - offset \notin DOMAIN b
    BY <1>1, <1>2, <1>4, <1>5
  <2>6. Overlaid(s, b, offset) = s
    BY <2>4, <2>5 DEF Overlaid
  <2>7. QED
    BY <1>1, <1>3, <2>2, <2>6
<1>6. CASE offset < t
  <2>1. PICK i \in 1 .. Len(c) : /\ Within(H, c, i, offset)
                                 /\ Skip(H, p, offset) = [q |-> c[i], offset |-> offset - Before(H, c, i)]
    BY <1>1, <1>2, <1>4, <1>6, SkipFinds
  <2>2. PICK o, l, d : o = offset - Before(H, c, i) /\ l = H[c[i]].len /\ d = Before(H, c, i)
    OBVIOUS
  <2>3. o \in Nat /\ o + Len(b) <= l /\ Before(H, c, i) + o = offset /\ c[i] # NULL
    <3>1. d \in Nat /\ l \in Nat /\ c[i] # NULL
      BY <1>2, <2>2 DEF Laid
    <3>2. d <= offset /\ offset < d + l /\ o = offset - d
      BY <2>1, <2>2 DEF Within
    <3>3. o \in Nat /\ o + 1 <= l /\ d + o = offset
      BY <1>4, <3>1, <3>2
    <3>4. QED
      BY <1>4, <2>2, <3>1, <3>3
  <2>4. PutAt(H, p, offset, x) = Put(H, c[i], o, b)
    BY <1>3, <2>1, <2>2, <2>3 DEF PutAt
  <2>5. Overwritten(H, Put(H, c[i], o, b), c, b, Before(H, c, i) + o)
    BY <1>1, <1>4, <2>2, <2>3, PutPuts
  <2>6. MemoryOf(PutAt(H, p, offset, x), A)
    BY <1>2, PutAtMemory
  <2>7. PICK G : G = PutAt(H, p, offset, x)
    OBVIOUS
  <2>8. Overwritten(H, G, c, b, offset) /\ MemoryOf(G, A) /\ offset \in Int
    BY <1>4, <2>3, <2>4, <2>5, <2>6, <2>7
  <2>9. Content(G, p) = Overlaid(Content(H, p), b, offset)
    BY <1>1, <1>4, <2>8, PutContents
  <2>10. QED
    BY <1>3, <2>7, <2>9
<1>7. QED
  BY <1>5, <1>6

\* What pbuf_take() leaves: an error and a heap.
LEMMA TakeIsResult ==
  ASSUME NEW H, NEW p, NEW bytes
  PROVE  Take(H, p, bytes) = [err |-> Take(H, p, bytes).err, H |-> Take(H, p, bytes).H]
BY DEF Take

\* The same of pbuf_take_at().
LEMMA TakeAtIsResult ==
  ASSUME NEW H, NEW p, NEW bytes, NEW offset
  PROVE  TakeAt(H, p, bytes, offset) =
           [err |-> TakeAt(H, p, bytes, offset).err, H |-> TakeAt(H, p, bytes, offset).H]
<1>1. PICK at, n, begun : /\ at = Skip(H, p, offset) /\ n = Smaller(H[at.q].len - at.offset, Len(bytes))
                          /\ begun = Put(H, at.q, at.offset, SubSeq(bytes, 1, n))
  OBVIOUS
<1>2. PICK r : r = Take(begun, H[at.q].next, SubSeq(bytes, n + 1, Len(bytes)))
  OBVIOUS
<1>3. r = [err |-> r.err, H |-> r.H]
  BY <1>2, TakeIsResult
<1>4. TakeAt(H, p, bytes, offset) \in {[err |-> "MEM", H |-> H], [err |-> "OK", H |-> begun], r}
  BY <1>1, <1>2 DEF TakeAt
<1>5. QED
  BY <1>3, <1>4

\* pbuf_take_at() takes nothing that does not fit.
LEMMA TakeAtRefuses ==
  ASSUME NEW H, NEW h, HeapOk(H, h), NEW p \in DOMAIN H, NEW B, NEW bytes \in Seq(B), NEW offset \in Nat,
         ~ (offset < H[p].tot_len /\ offset + Len(bytes) <= H[p].tot_len)
  PROVE  TakeAt(H, p, bytes, offset) = [err |-> "MEM", H |-> H]
<1>1. PICK c, t, L : c = Chain(H, p) /\ t = H[p].tot_len /\ L = Len(bytes)
  OBVIOUS
<1>2. Laid(H, p, c) /\ t \in Nat /\ L \in Nat
  <2>1. Laid(H, p, c)
    BY <1>1, LaidIs
  <2>2. QED
    BY <1>1, <2>1 DEF Laid
<1>3. CASE ~ (offset < t)
  <2>1. Skip(H, p, offset).q = NULL
    BY <1>1, <1>2, <1>3, SkipFinds
  <2>2. QED
    BY <2>1 DEF TakeAt
<1>4. CASE offset < t
  <2>1. PICK i \in 1 .. Len(c) : /\ Within(H, c, i, offset)
                                 /\ Skip(H, p, offset) = [q |-> c[i], offset |-> offset - Before(H, c, i)]
    BY <1>1, <1>2, <1>4, SkipFinds
  <2>2. PICK q, d, u : q = c[i] /\ d = Before(H, c, i) /\ u = H[c[i]].tot_len
    OBVIOUS
  <2>3. d \in Nat /\ u = t - d /\ q # NULL
    BY <1>1, <1>2, <2>2 DEF Laid
  <2>4. ~ (offset + L <= t)
    BY <1>1, <1>4
  <2>5. u < (offset - d) + L
    BY <1>2, <2>3, <2>4
  <2>6. Skip(H, p, offset) = [q |-> q, offset |-> offset - d] /\ H[q].tot_len < (offset - d) + Len(bytes)
    BY <1>1, <2>1, <2>2, <2>5
  <2>7. QED
    BY <2>3, <2>6 DEF TakeAt
<1>5. QED
  BY <1>3, <1>4

\* Bytes written at an offset are laid over what p holds, or nothing is changed.
WriteIsFlat(H, p, bytes, offset) ==
  LET s == Content(H, p)
      put == TakeAt(H, p, bytes, offset)
  IN  IF offset < Len(s) /\ offset + Len(bytes) <= Len(s)
      THEN put.err = "OK" /\ Content(put.H, p) = Overlaid(s, bytes, offset)
      ELSE put = [err |-> "MEM", H |-> H]

\* pbuf_take_at() is flat.
LEMMA WriteFlat ==
  ASSUME NEW A, NEW H, NEW h, HeapOk(H, h), MemoryOf(H, A), NEW p \in DOMAIN H,
         NEW bytes \in Seq(A), NEW offset \in Nat
  PROVE  WriteIsFlat(H, p, bytes, offset)
<1>1. PICK c, s, t : c = Chain(H, p) /\ s = Content(H, p) /\ t = H[p].tot_len
  OBVIOUS
<1>2. s \in Seq(A) /\ Len(s) = t
  BY <1>1, ContentIs
<1>3. CASE offset < t /\ offset + Len(bytes) <= t
  <2>1. PICK G : G = TakeAt(H, p, bytes, offset).H
    OBVIOUS
  <2>2. TakeAt(H, p, bytes, offset).err = "OK" /\ Overwritten(H, G, c, bytes, offset)
    BY <1>1, <1>3, <2>1, TakeAtPuts
  <2>3. MemoryOf(G, A) /\ offset \in Int
    BY <2>1, TakeAtMemory
  <2>4. Content(G, p) = Overlaid(Content(H, p), bytes, offset)
    BY <1>1, <2>2, <2>3, PutContents
  <2>5. QED
    BY <1>1, <1>2, <1>3, <2>1, <2>2, <2>4 DEF WriteIsFlat
<1>4. CASE ~ (offset < t /\ offset + Len(bytes) <= t)
  <2>1. TakeAt(H, p, bytes, offset) = [err |-> "MEM", H |-> H]
    BY <1>1, <1>4, TakeAtRefuses
  <2>2. QED
    BY <1>1, <1>2, <1>4, <2>1 DEF WriteIsFlat
<1>5. QED
  BY <1>3, <1>4

\* From the first byte on, pbuf_take() and pbuf_take_at() do the same.
LEMMA TakesAlike ==
  ASSUME NEW A, NEW H, NEW h, HeapOk(H, h), IsHeap(H), NEW p \in DOMAIN H,
         NEW bytes \in Seq(A), bytes # <<>>
  PROVE  Take(H, p, bytes) = TakeAt(H, p, bytes, 0)
<1>1. PICK c, t, L : c = Chain(H, p) /\ t = H[p].tot_len /\ L = Len(bytes)
  OBVIOUS
<1>2. Laid(H, p, c) /\ t \in Nat /\ L \in Nat \ {0} /\ p # NULL /\ 0 \in Nat
  <2>1. Laid(H, p, c)
    BY <1>1, LaidIs
  <2>2. t \in Nat /\ p # NULL
    BY <1>1, <2>1 DEF Laid
  <2>3. L \in Nat \ {0}
    BY <1>1
  <2>4. QED
    BY <2>1, <2>2, <2>3
<1>3. CASE t < L
  <2>1. Take(H, p, bytes) = [err |-> "MEM", H |-> H]
    BY <1>1, <1>2, <1>3 DEF Take
  <2>2. ~ (0 < H[p].tot_len /\ 0 + Len(bytes) <= H[p].tot_len)
    BY <1>1, <1>2, <1>3
  <2>3. TakeAt(H, p, bytes, 0) = [err |-> "MEM", H |-> H]
    BY <1>2, <2>2, TakeAtRefuses
  <2>4. QED
    BY <2>1, <2>3
<1>4. CASE ~ (t < L)
  <2>1. 0 < H[p].tot_len /\ 0 + Len(bytes) <= H[p].tot_len /\ Len(bytes) <= H[p].tot_len
    BY <1>1, <1>2, <1>4
  <2>2. PICK G, F : G = Take(H, p, bytes).H /\ F = TakeAt(H, p, bytes, 0).H
    OBVIOUS
  <2>3. Take(H, p, bytes).err = "OK" /\ Overwritten(H, G, c, bytes, 0)
    BY <1>1, <2>1, <2>2, TakePuts
  <2>4. TakeAt(H, p, bytes, 0).err = "OK" /\ Overwritten(H, F, c, bytes, 0)
    BY <1>1, <1>2, <2>1, <2>2, TakeAtPuts
  <2>5. IsHeap(G) /\ IsHeap(F) /\ PayloadOnly(H, G) /\ PayloadOnly(H, F)
    <3>1. IsHeap(G) /\ IsHeap(F)
      BY <2>2, TakeIsHeap, TakeAtIsHeap
    <3>2. PayloadOnly(H, G)
      BY <2>2, TakeAround
    <3>3. PayloadOnly(H, F)
      BY <1>2, <2>2, TakeAtAround
    <3>4. QED
      BY <3>1, <3>2, <3>3
  <2>6. G = F
    BY <1>2, <2>3, <2>4, <2>5, WrittenOnce
  <2>7. QED
    BY <2>2, <2>3, <2>4, <2>6, TakeIsResult, TakeAtIsResult
<1>5. QED
  BY <1>3, <1>4

\* All of these are the flat writes of Pbuf.
LEMMA WritesFlat ==
  ASSUME NEW A, NEW H, NEW h, HeapOk(H, h), MemoryOf(H, A), IsHeap(H), NEW p \in DOMAIN H,
         \A i \in Nat : <<NULL, i>> \in A
  PROVE  WritesAreFlat(H, p)
<1>1. PICK s : s = Content(H, p)
  OBVIOUS
<1>2. Len(s) = H[p].tot_len /\ Len(s) \in Nat
  <2>1. s \in Seq(A) /\ Len(s) = H[p].tot_len
    BY <1>1, ContentIs
  <2>2. QED
    BY <2>1
<1>3. ASSUME NEW n \in 0 .. Len(s) + 1, NEW offset \in 0 .. Len(s),
             NEW bytes, bytes = [i \in 1 .. n |-> <<NULL, i>>],
             NEW put, put = TakeAt(H, p, bytes, offset)
      PROVE  /\ IF offset < Len(s) /\ offset + n <= Len(s)
                THEN put.err = "OK" /\ Content(put.H, p) = Overlaid(s, bytes, offset)
                ELSE put = [err |-> "MEM", H |-> H]
             /\ n > 0 /\ offset = 0 => Take(H, p, bytes) = put
             /\ n = 1 => Content(PutAt(H, p, offset, bytes[1]), p) = Overlaid(s, bytes, offset)
  <2>1. n \in Nat /\ offset \in Nat /\ offset \in 0 .. H[p].tot_len
    BY <1>2
  <2>2. \A i \in 1 .. n : <<NULL, i>> \in A
    BY <2>1
  <2>3. bytes \in Seq(A) /\ Len(bytes) = n
    BY <1>3, <2>1, <2>2
  <2>4. WriteIsFlat(H, p, bytes, offset)
    BY <2>1, <2>3, WriteFlat
  <2>5. ASSUME n > 0, offset = 0
        PROVE  Take(H, p, bytes) = put
    <3>1. bytes # <<>>
      BY <2>1, <2>3, <2>5
    <3>2. Take(H, p, bytes) = TakeAt(H, p, bytes, 0)
      BY <2>3, <3>1, TakesAlike
    <3>3. QED
      BY <1>3, <2>5, <3>2
  <2>6. ASSUME n = 1
        PROVE  Content(PutAt(H, p, offset, bytes[1]), p) = Overlaid(s, bytes, offset)
    <3>1. PICK x : x = bytes[1]
      OBVIOUS
    <3>2. x \in A /\ bytes = <<x>>
      <4>0. Len(bytes) = 1
        BY <2>3, <2>6, Zenon
      <4>5. bytes[1] \in A
        <5>1. PICK m : m = Len(bytes)
          OBVIOUS
        <5>2. \A i \in 1 .. m : bytes[i] \in A
          BY <2>3, <5>1, ElementOfSeq
        <5>3. 1 \in 1 .. m
          BY <4>0, <5>1
        <5>4. QED
          BY <5>2, <5>3
      <4>1. x \in A /\ Len(bytes) = 1
        BY <3>1, <4>0, <4>5
      <4>2. <<x>> \in Seq(A) /\ Len(<<x>>) = 1 /\ <<x>>[1] = x
        BY <4>1
      <4>3. \A i \in 1 .. 1 : bytes[i] = <<x>>[i]
        BY <3>1, <4>2
      <4>4. QED
        BY <2>3, <4>1, <4>2, <4>3, SeqEqual
    <3>3. Content(PutAt(H, p, offset, x), p) = Overlaid(Content(H, p), <<x>>, offset)
      BY <2>1, <3>2, PutAtContent
    <3>4. QED
      BY <1>1, <3>1, <3>2, <3>3
  <2>7. QED
    BY <1>1, <1>3, <2>3, <2>4, <2>5, <2>6 DEF WriteIsFlat
<1>4. QED
  BY <1>1, <1>3 DEF WritesAreFlat

-----------------------------------------------------------------------------
(* Copying from one chain to another one.                                  *)

\* Offset o of pbuf q, the i-th of chain c, is at an offset of the chain.
Positioned(H, c, i, q, o, at) ==
  i \in 1 .. Len(c) /\ q = c[i] /\ o \in 0 .. H[q].len /\ Before(H, c, i) + o = at

\* Going on by m bytes leads to the end of the chain or to the place m bytes further.
WentOn(H, p, c, q, o, at, m) ==
  LET full == o + m = H[q].len
      q2 == IF full THEN H[q].next ELSE q
      o2 == IF full THEN 0 ELSE o + m
  IN  IF q2 = NULL THEN at + m = H[p].tot_len ELSE \E i \in 1 .. Len(c) : Positioned(H, c, i, q2, o2, at + m)

\* Both loops walk along a chain like that.
LEMMA WalksOn ==
  ASSUME NEW H, NEW p, NEW c, Laid(H, p, c), IsChain(H, p, c), NEW i, NEW q, NEW o, NEW at,
         Positioned(H, c, i, q, o, at), NEW m \in Nat, o + m <= H[q].len
  PROVE  WentOn(H, p, c, q, o, at, m)
<1>1. PICK l, b, t : l = H[q].len /\ b = Before(H, c, i) /\ t = H[p].tot_len
  OBVIOUS
<1>2. /\ i \in 1 .. Len(c) /\ q = c[i] /\ o \in Nat /\ o <= l /\ at = b + o /\ l \in Nat /\ b \in Nat
      /\ q # NULL
  <2>1. i \in 1 .. Len(c) /\ q = c[i] /\ o \in 0 .. l /\ b + o = at
    BY <1>1 DEF Positioned
  <2>2. l \in Nat /\ b \in Nat /\ q # NULL
    BY <1>1, <2>1 DEF Laid
  <2>3. QED
    BY <2>1, <2>2
<1>3. o + m <= l
  BY <1>1
<1>4. CASE o + m # l
  <2>1. o + m \in 0 .. l /\ b + (o + m) = at + m
    BY <1>2, <1>3
  <2>2. Positioned(H, c, i, q, o + m, at + m)
    BY <1>1, <1>2, <2>1 DEF Positioned
  <2>3. QED
    BY <1>1, <1>2, <1>4, <2>2 DEF WentOn
<1>5. CASE o + m = l
  <2>1. PICK q2 : q2 = H[q].next
    OBVIOUS
  <2>2. q2 = IF i = Len(c) THEN NULL ELSE c[i + 1]
    BY <1>2, <2>1 DEF IsChain, LinkedFrom
  <2>3. at + m = b + l
    BY <1>2, <1>5
  <2>4. CASE i = Len(c)
    <3>1. t = b + l
      BY <1>1, <1>2, <2>4 DEF Laid
    <3>2. QED
      BY <1>1, <1>5, <2>1, <2>2, <2>3, <2>4, <3>1 DEF WentOn
  <2>5. CASE i # Len(c)
    <3>1. i \in 1 .. Len(c) - 1 /\ i + 1 \in 1 .. Len(c)
      <4>1. Len(c) \in Nat
        BY DEF Laid
      <4>2. QED
        BY <1>2, <2>5, <4>1
    <3>2. PICK j : j = i + 1
      OBVIOUS
    <3>3. j \in 1 .. Len(c) /\ q2 = c[j] /\ q2 # NULL /\ H[q2].len \in Nat /\ Before(H, c, j) = b + l
      BY <1>1, <1>2, <2>2, <2>5, <3>1, <3>2 DEF Laid
    <3>4. 0 \in 0 .. H[q2].len /\ Before(H, c, j) + 0 = at + m
      <4>1. PICK x, y : x = H[q2].len /\ y = Before(H, c, j)
        OBVIOUS
      <4>2. x \in Nat /\ y = b + l
        BY <3>3, <4>1
      <4>3. 0 \in 0 .. x /\ y + 0 = b + l
        BY <1>2, <4>2
      <4>4. QED
        BY <2>3, <4>1, <4>3
    <3>5. Positioned(H, c, j, q2, 0, at + m)
      BY <3>3, <3>4 DEF Positioned
    <3>6. QED
      BY <1>1, <1>5, <2>1, <3>3, <3>5 DEF WentOn
  <2>6. QED
    BY <2>4, <2>5
<1>6. QED
  BY <1>4, <1>5

\* A chunk is a sequence of m bytes of A, those of s after the first ones.
ChunkOf(A, s, done, m, chunk) ==
  /\ chunk \in Seq(A) /\ Len(chunk) = m /\ done + m <= Len(s)
  /\ SubSeq(s, 1, done) \in Seq(A) /\ Len(SubSeq(s, 1, done)) = done
  /\ SubSeq(s, 1, done) \o chunk = SubSeq(s, 1, done + m)

\* The first bytes of a sequence.
LEMMA Beginning ==
  ASSUME NEW A, NEW s \in Seq(A), NEW n \in Nat, n <= Len(s)
  PROVE  /\ SubSeq(s, 1, n) \in Seq(A) /\ Len(SubSeq(s, 1, n)) = n
         /\ \A k \in 1 .. n : SubSeq(s, 1, n)[k] = s[k]
<1>1. 0 + n <= Len(s) /\ 0 \in Nat
  OBVIOUS
<1>2. /\ SubSeq(s, 0 + 1, 0 + n) \in Seq(A) /\ Len(SubSeq(s, 0 + 1, 0 + n)) = n
      /\ \A k \in 1 .. n : 0 + k \in 1 .. Len(s) /\ SubSeq(s, 0 + 1, 0 + n)[k] = s[0 + k]
  BY <1>1, PartIs, ZenonT(60)
<1>3. 0 + 1 = 1 /\ 0 + n = n /\ \A k \in 1 .. n : 0 + k = k
  OBVIOUS
<1>4. QED
  BY <1>2, <1>3

\* What is read in the middle of a pbuf is what comes next.
LEMMA NextChunk ==
  ASSUME NEW A, NEW s \in Seq(A), NEW u \in Seq(A), NEW done \in Nat, NEW b \in Nat, NEW m \in Nat,
         b + m <= Len(u), done + m <= Len(s),
         \A k \in 1 .. m : u[b + k] = s[done + k]
  PROVE  ChunkOf(A, s, done, m, SubSeq(u, b + 1, b + m))
<1>1. PICK e : e = SubSeq(u, b + 1, b + m)
  OBVIOUS
<1>2. e \in Seq(A) /\ Len(e) = m /\ \A k \in 1 .. m : e[k] = s[done + k]
  <2>1. /\ SubSeq(u, b + 1, b + m) \in Seq(A) /\ Len(SubSeq(u, b + 1, b + m)) = m
        /\ \A k \in 1 .. m : b + k \in 1 .. Len(u) /\ SubSeq(u, b + 1, b + m)[k] = u[b + k]
    BY PartIs
  <2>2. QED
    BY <1>1, <2>1
<1>3. PICK x, y, d : x = SubSeq(s, 1, done) /\ y = SubSeq(s, 1, d) /\ d = done + m
  OBVIOUS
<1>4. d \in Nat /\ d <= Len(s) /\ done <= Len(s) /\ d = done + m
  BY <1>3
<1>5. x \in Seq(A) /\ Len(x) = done /\ \A k \in 1 .. done : x[k] = s[k]
  BY <1>3, <1>4, Beginning
<1>6. y \in Seq(A) /\ Len(y) = d /\ \A k \in 1 .. d : y[k] = s[k]
  BY <1>3, <1>4, Beginning
<1>7. PICK z : z = x \o e
  OBVIOUS
<1>8. z \in Seq(A) /\ Len(z) = d /\ \A k \in 1 .. d : z[k] = IF k <= done THEN x[k] ELSE e[k - done]
  <2>1. /\ x \o e \in Seq(A) /\ Len(x \o e) = Len(x) + Len(e)
        /\ \A i \in 1 .. Len(x) + Len(e) : (x \o e)[i] = IF i <= Len(x) THEN x[i] ELSE e[i - Len(x)]
    BY <1>2, <1>5, ConcatProperties
  <2>2. QED
    BY <1>2, <1>3, <1>5, <1>7, <2>1
<1>9. ASSUME NEW k \in 1 .. d
      PROVE  z[k] = y[k]
  <2>1. CASE k <= done
    BY <1>5, <1>6, <1>8, <2>1
  <2>2. CASE ~ (k <= done)
    <3>1. PICK r : r = k - done
      OBVIOUS
    <3>2. r \in 1 .. m /\ done + r = k
      BY <1>4, <2>2, <3>1
    <3>3. z[k] = e[r]
      BY <1>8, <2>2, <3>1
    <3>4. e[r] = s[done + r]
      BY <1>2, <3>2
    <3>5. QED
      BY <1>6, <3>2, <3>3, <3>4
  <2>3. QED
    BY <2>1, <2>2
<1>10. z = y
  BY <1>6, <1>8, <1>9, SeqEqual
<1>11. QED
  BY <1>1, <1>2, <1>3, <1>4, <1>5, <1>7, <1>10 DEF ChunkOf

\* What pbuf_copy_partial_pbuf() is asked for: n bytes of p, to an offset of q, which
\* fit, the two chains being apart.
CopyAsked(A, H, h, p, q, n, offset) ==
  /\ HeapOk(H, h) /\ MemoryOf(H, A) /\ p \in DOMAIN H /\ q \in DOMAIN H
  /\ ToSet(Chain(H, p)) \cap ToSet(Chain(H, q)) = {}
  /\ n \in Nat /\ offset \in 0 .. H[q].len
  /\ n <= H[p].tot_len /\ offset + n <= H[q].tot_len

\* What has been copied: the first bytes of p are laid over what q held.
LaidOver(H, p, q, offset, done, G) ==
  /\ Content(G, p) = Content(H, p)
  /\ Content(G, q) = Overlaid(Content(H, q), SubSeq(Content(H, p), 1, done), offset)

\* The loop has copied done bytes, and goes on behind them.
CopiedUpTo(A, H, p, q, n, offset, done, st) ==
  /\ SameShape(H, st.H) /\ MemoryOf(st.H, A)
  /\ LaidOver(H, p, q, offset, done, st.H)
  /\ st.err \in {"again", "OK", "VAL"}
  /\ st.err = "OK" => done = n
  /\ st.err = "again" =>
       /\ st.left = n - done
       /\ \E i \in 1 .. Len(Chain(H, q)) :
            Positioned(H, Chain(H, q), i, st.to, st.offsetTo, offset + done)
       /\ \E j \in 1 .. Len(Chain(H, p)) :
            Positioned(H, Chain(H, p), j, st.from, st.offsetFrom, done)

\* The chunk a turn reads.
LEMMA ReadsNext ==
  ASSUME NEW A, NEW H, NEW h, HeapOk(H, h), NEW G, SameShape(H, G), MemoryOf(G, A),
         NEW p \in DOMAIN H, NEW s, Content(G, p) = s,
         NEW j, NEW from, NEW b, NEW done \in Nat, Positioned(H, Chain(H, p), j, from, b, done),
         NEW m \in Nat, b + m <= H[from].len
  PROVE  ChunkOf(A, s, done, m, SubSeq(Payload(G, from), b + 1, b + m))
<1>1. PICK c, u, l : c = Chain(H, p) /\ u = Payload(G, from) /\ l = H[from].len
  OBVIOUS
<1>2. /\ HeapOk(G, h) /\ p \in DOMAIN G /\ c = Chain(G, p) /\ Laid(G, p, c)
      /\ \A q \in DOMAIN H : G[q].len = H[q].len
      /\ \A i \in 1 .. Len(c) : Before(G, c, i) = Before(H, c, i)
  BY <1>1, LaidStays
<1>3. j \in 1 .. Len(c) /\ from = c[j] /\ b \in Nat /\ Before(G, c, j) + b = done /\ from \in DOMAIN H
  <2>1. j \in 1 .. Len(c) /\ from = c[j] /\ b \in 0 .. l /\ Before(H, c, j) + b = done
    BY <1>1 DEF Positioned
  <2>2. from \in DOMAIN G
    BY <1>2, <2>1 DEF Laid
  <2>3. QED
    BY <1>2, <2>1, <2>2 DEF SameShape
<1>4. from \in DOMAIN G /\ G[from].len = l /\ l \in Nat
  <2>1. from \in DOMAIN G /\ G[from].len \in Nat
    BY <1>2, <1>3 DEF Laid
  <2>2. QED
    BY <1>1, <1>2, <1>3, <2>1
<1>5. u \in Seq(A) /\ Len(u) = l /\ \A k \in 1 .. l : u[k] = G[from].mem[G[from].payload + k]
  <2>1. IsPbuf(G[from]) /\ Buffered(G[from]) /\ G[from].mem \in Seq(A)
    BY <1>2, <1>4 DEF HeapOk, Linked, MemoryOf
  <2>2. /\ Payload(G, from) \in Seq(A) /\ Len(Payload(G, from)) = G[from].len
        /\ \A k \in 1 .. G[from].len : /\ G[from].payload + k \in 1 .. Len(G[from].mem)
                                       /\ Payload(G, from)[k] = G[from].mem[G[from].payload + k]
    BY <2>1, PayloadBytes
  <2>3. QED
    BY <1>1, <1>4, <2>2
<1>6. Content(G, p) \in Seq(A) /\ Len(Content(G, p)) = G[p].tot_len /\ Spells(G, c, Content(G, p))
  BY <1>2, ContentIs
<1>7. s \in Seq(A) /\ Len(s) = G[p].tot_len /\ Spells(G, c, s)
  BY <1>6
<1>8. PICK d : d = Before(G, c, j)
  OBVIOUS
<1>9. d \in Nat /\ d + b = done /\ d + l <= G[p].tot_len /\ b + m <= l
  <2>1. d \in Nat
    BY <1>2, <1>3, <1>8 DEF Laid
  <2>2. Before(G, c, j) + G[c[j]].len <= G[p].tot_len
    BY <1>2, <1>3, BeforeEnds
  <2>3. QED
    BY <1>1, <1>3, <1>4, <1>8, <2>1, <2>2
<1>10. \A k \in 1 .. l : s[d + k] = u[k]
  <2>1. \A k \in 1 .. G[c[j]].len : s[Before(G, c, j) + k] = G[c[j]].mem[G[c[j]].payload + k]
    BY <1>3, <1>7 DEF Spells
  <2>2. QED
    BY <1>3, <1>4, <1>5, <1>8, <2>1
<1>11. ASSUME NEW k \in 1 .. m
       PROVE  u[b + k] = s[done + k]
  <2>1. b + k \in 1 .. l /\ d + (b + k) = done + k
    BY <1>3, <1>4, <1>9
  <2>2. QED
    BY <1>10, <2>1
<1>12. b + m <= Len(u) /\ done + m <= Len(s)
  <2>1. G[p].tot_len \in Nat
    BY <1>2 DEF Laid
  <2>2. QED
    BY <1>3, <1>4, <1>5, <1>7, <1>9, <2>1
<1>13. ChunkOf(A, s, done, m, SubSeq(u, b + 1, b + m))
  BY <1>3, <1>5, <1>7, <1>11, <1>12, NextChunk
<1>14. QED
  BY <1>1, <1>13

\* The chunk a turn writes is written behind what was copied before.
LEMMA WritesNext ==
  ASSUME NEW A, NEW H, NEW h, NEW p, NEW q, NEW n, NEW offset, CopyAsked(A, H, h, p, q, n, offset),
         NEW G, SameShape(H, G), MemoryOf(G, A), NEW done \in Nat, LaidOver(H, p, q, offset, done, G),
         NEW i, NEW to, NEW a, Positioned(H, Chain(H, q), i, to, a, offset + done),
         NEW m \in Nat, a + m <= H[to].len,
         NEW chunk, ChunkOf(A, Content(H, p), done, m, chunk)
  PROVE  /\ SameShape(H, Put(G, to, a, chunk)) /\ MemoryOf(Put(G, to, a, chunk), A)
         /\ LaidOver(H, p, q, offset, done + m, Put(G, to, a, chunk))
<1>1. PICK d, F, s, t, x : /\ d = Chain(H, q) /\ F = Put(G, to, a, chunk)
                           /\ s = Content(H, p) /\ t = Content(H, q) /\ x = SubSeq(s, 1, done)
  OBVIOUS
<1>2. /\ HeapOk(H, h) /\ MemoryOf(H, A) /\ p \in DOMAIN H /\ q \in DOMAIN H /\ n \in Nat
      /\ offset \in Nat
      /\ ToSet(Chain(H, p)) \cap ToSet(d) = {}
  BY <1>1 DEF CopyAsked
<1>3. /\ HeapOk(G, h) /\ q \in DOMAIN G /\ d = Chain(G, q) /\ Laid(G, q, d)
      /\ \A y \in DOMAIN H : G[y].len = H[y].len
      /\ \A y \in 1 .. Len(d) : Before(G, d, y) = Before(H, d, y)
  BY <1>1, <1>2, LaidStays
<1>4. p \in DOMAIN G /\ Chain(G, p) = Chain(H, p)
  BY <1>2, LaidStays
<1>5. i \in 1 .. Len(d) /\ to = d[i] /\ a \in Nat /\ Before(G, d, i) + a = offset + done
  BY <1>1, <1>3 DEF Positioned
<1>6. G[to].len = H[to].len
  <2>1. to \in DOMAIN G
    BY <1>3, <1>5 DEF Laid
  <2>2. QED
    BY <1>3, <2>1 DEF SameShape
<1>7. /\ chunk \in Seq(A) /\ Len(chunk) = m /\ x \in Seq(A) /\ Len(x) = done
      /\ x \o chunk = SubSeq(s, 1, done + m)
  BY <1>1 DEF ChunkOf
<1>8. Overwritten(G, F, d, chunk, offset + done)
  <2>1. a + Len(chunk) <= G[d[i]].len
    BY <1>5, <1>6, <1>7
  <2>2. Overwritten(G, Put(G, d[i], a, chunk), d, chunk, Before(G, d, i) + a)
    BY <1>3, <1>5, <1>7, <2>1, PutPuts
  <2>3. QED
    BY <1>1, <1>5, <2>2
<1>9. MemoryOf(F, A)
  <2>1. Structs(G)
    BY <1>3 DEF HeapOk, Linked, Structs
  <2>2. QED
    BY <1>1, <1>7, <2>1, PutMemory
<1>10. offset + done \in Int
  BY <1>2
<1>11. /\ HeapOk(F, h) /\ SameShape(G, F)
       /\ Content(F, q) = Overlaid(Content(G, q), chunk, offset + done)
       /\ \A y \in DOMAIN G : ToSet(Chain(G, y)) \cap ToSet(d) = {} => Content(F, y) = Content(G, y)
  BY <1>3, <1>7, <1>8, <1>9, <1>10, PutContents
<1>12. SameShape(H, F)
  <2>1. Structs(H)
    BY <1>2 DEF HeapOk, Linked, Structs
  <2>2. QED
    BY <1>11, <2>1, ShapesFollow
<1>13. Content(F, p) = s
  <2>1. Content(F, p) = Content(G, p)
    BY <1>2, <1>4, <1>11
  <2>2. QED
    BY <1>1, <2>1 DEF LaidOver
<1>14. Content(F, q) = Overlaid(t, SubSeq(s, 1, done + m), offset)
  <2>1. Content(G, q) = Overlaid(t, x, offset)
    BY <1>1 DEF LaidOver
  <2>2. t \in Seq(A) /\ offset \in Int
    BY <1>1, <1>2, ContentIs
  <2>3. Overlaid(Overlaid(t, x, offset), chunk, offset + Len(x)) = Overlaid(t, x \o chunk, offset)
    <3>1. t \in Seq(A) /\ x \in Seq(A) /\ chunk \in Seq(A) /\ offset \in Int
      BY <1>7, <2>2
    <3>2. QED
      BY <3>1, OverlaidTwice
  <2>4. QED
    BY <1>7, <1>11, <2>1, <2>3
<1>15. QED
  BY <1>1, <1>9, <1>12, <1>13, <1>14 DEF LaidOver

\* A turn copies on.
LEMMA TurnGoesOn ==
  ASSUME NEW A, NEW H, NEW h, NEW p, NEW q, NEW n, NEW offset, CopyAsked(A, H, h, p, q, n, offset),
         NEW done \in 0 .. n, NEW st, CopiedUpTo(A, H, p, q, n, offset, done, st), st.err = "again"
  PROVE  \E more \in 0 .. n : CopiedUpTo(A, H, p, q, n, offset, more, CopyTurn(st))
<1>1. PICK c, d : c = Chain(H, p) /\ d = Chain(H, q)
  OBVIOUS
<1>2. PICK G, to, from, a, b, left : /\ G = st.H /\ to = st.to /\ from = st.from /\ a = st.offsetTo
                                     /\ b = st.offsetFrom /\ left = st.left
  OBVIOUS
<1>3. /\ HeapOk(H, h) /\ MemoryOf(H, A) /\ p \in DOMAIN H /\ q \in DOMAIN H /\ n \in Nat
      /\ offset \in Nat /\ n <= H[p].tot_len /\ offset + n <= H[q].tot_len
  BY DEF CopyAsked
<1>4. Laid(H, p, c) /\ IsChain(H, p, c) /\ Laid(H, q, d) /\ IsChain(H, q, d)
  BY <1>1, <1>3, LaidIs
<1>5. /\ SameShape(H, G) /\ MemoryOf(G, A) /\ LaidOver(H, p, q, offset, done, G) /\ left = n - done
  BY <1>2 DEF CopiedUpTo
<1>6. PICK i \in 1 .. Len(d) : Positioned(H, d, i, to, a, offset + done)
  BY <1>1, <1>2 DEF CopiedUpTo
<1>7. PICK j \in 1 .. Len(c) : Positioned(H, c, j, from, b, done)
  BY <1>1, <1>2 DEF CopiedUpTo
<1>8. PICK x, y : x = H[to].len /\ y = H[from].len
  OBVIOUS
<1>9. a \in 0 .. x /\ b \in 0 .. y /\ x \in Nat /\ y \in Nat /\ to \in DOMAIN H /\ from \in DOMAIN H
  <2>1. a \in 0 .. x /\ b \in 0 .. y /\ to = d[i] /\ from = c[j]
    BY <1>6, <1>7, <1>8 DEF Positioned
  <2>2. x \in Nat /\ y \in Nat /\ to \in DOMAIN H /\ from \in DOMAIN H
    BY <1>4, <1>8, <2>1 DEF Laid
  <2>3. QED
    BY <2>1, <2>2
<1>10. \A r \in DOMAIN H : G[r].len = H[r].len /\ G[r].next = H[r].next
  BY <1>1, <1>3, <1>5, LaidStays
<1>11. PICK m : m = Smaller(left, Smaller(x - a, y - b))
  OBVIOUS
<1>12. m \in Nat /\ m <= left /\ a + m <= x /\ b + m <= y /\ left \in Nat /\ done \in Nat
  BY <1>3, <1>5, <1>9, <1>11 DEF Smaller
<1>13. PICK chunk : chunk = SubSeq(Payload(G, from), b + 1, b + m)
  OBVIOUS
<1>14. PICK to2, from2, o2, p2 : /\ to2 = IF a + m = x THEN H[to].next ELSE to
                                 /\ from2 = IF b + m = y THEN H[from].next ELSE from
                                 /\ o2 = IF a + m = x THEN 0 ELSE a + m
                                 /\ p2 = IF b + m = y THEN 0 ELSE b + m
  OBVIOUS
<1>15. PICK err : err = IF NULL \in {to2, from2} /\ left - m > 0 THEN "ARG"
               ELSE IF Queued(G, from2) \/ Queued(G, to2) THEN "VAL"
               ELSE IF left - m > 0 THEN "again" ELSE "OK"
  OBVIOUS
<1>16. CopyTurn(st) = [H |-> Put(G, to, a, chunk), to |-> to2, from |-> from2, left |-> left - m,
                       offsetTo |-> o2, offsetFrom |-> p2, err |-> err]
  <2>1. x = G[to].len /\ y = G[from].len /\ G[to].next = H[to].next /\ G[from].next = H[from].next
    BY <1>8, <1>9, <1>10
  <2>2. b + m >= y <=> b + m = y
    BY <1>9, <1>12
  <2>3. /\ to2 = IF a + m = x THEN G[to].next ELSE to
        /\ from2 = IF b + m >= y THEN G[from].next ELSE from
        /\ p2 = IF b + m >= y THEN 0 ELSE b + m
        /\ o2 = IF a + m = x THEN 0 ELSE a + m
    BY <1>14, <2>1, <2>2
  <2>4. QED
    BY <1>2, <1>11, <1>13, <1>15, <2>1, <2>3, ZenonT(60) DEF CopyTurn
<1>17. PICK F, more : F = Put(G, to, a, chunk) /\ more = done + m
  OBVIOUS
<1>18. more \in 0 .. n /\ left - m = n - more /\ (offset + done) + m = offset + more
  BY <1>3, <1>5, <1>12, <1>17
<1>19. ChunkOf(A, Content(H, p), done, m, chunk)
  <2>1. Content(G, p) = Content(H, p)
    BY <1>5 DEF LaidOver
  <2>2. Positioned(H, Chain(H, p), j, from, b, done) /\ b + m <= H[from].len
    BY <1>1, <1>7, <1>8, <1>12
  <2>3. QED
    BY <1>3, <1>5, <1>12, <1>13, <2>1, <2>2, ReadsNext
<1>20. SameShape(H, F) /\ MemoryOf(F, A) /\ LaidOver(H, p, q, offset, more, F)
  <2>1. Positioned(H, Chain(H, q), i, to, a, offset + done) /\ a + m <= H[to].len
    BY <1>1, <1>6, <1>8, <1>12
  <2>2. QED
    BY <1>5, <1>12, <1>17, <1>19, <2>1, WritesNext
<1>21. IF to2 = NULL THEN offset + more = H[q].tot_len
       ELSE \E k \in 1 .. Len(d) : Positioned(H, d, k, to2, o2, offset + more)
  <2>1. a + m <= H[to].len
    BY <1>8, <1>12
  <2>2. WentOn(H, q, d, to, a, offset + done, m)
    BY <1>4, <1>6, <1>12, <2>1, WalksOn
  <2>3. QED
    BY <1>8, <1>14, <1>18, <2>2 DEF WentOn
<1>22. IF from2 = NULL THEN more = H[p].tot_len
       ELSE \E k \in 1 .. Len(c) : Positioned(H, c, k, from2, p2, more)
  <2>1. b + m <= H[from].len
    BY <1>8, <1>12
  <2>2. WentOn(H, p, c, from, b, done, m)
    BY <1>4, <1>7, <1>12, <2>1, WalksOn
  <2>3. QED
    BY <1>8, <1>14, <1>17, <2>2 DEF WentOn
<1>23. NULL \in {to2, from2} => ~ (left - m > 0)
  <2>1. PICK u, v : u = H[p].tot_len /\ v = H[q].tot_len
    OBVIOUS
  <2>2. /\ n \in Nat /\ offset \in Nat /\ n <= u /\ offset + n <= v /\ more \in 0 .. n
        /\ left - m = n - more
    BY <1>3, <1>18, <2>1
  <2>3. CASE to2 = NULL
    <3>1. offset + more = v
      BY <1>21, <2>1, <2>3
    <3>2. QED
      BY <2>2, <3>1
  <2>4. CASE from2 = NULL
    <3>1. more = u
      BY <1>22, <2>1, <2>4
    <3>2. QED
      BY <2>2, <3>1
  <2>5. QED
    BY <2>3, <2>4
<1>24. /\ err \in {"again", "OK", "VAL"} /\ (err = "OK" => more = n)
       /\ err = "again" => to2 # NULL /\ from2 # NULL
  <2>1. err = "OK" => ~ (left - m > 0)
    BY <1>15, <1>23
  <2>2. ~ (left - m > 0) => more = n
    BY <1>3, <1>18
  <2>3. err \in {"again", "OK", "VAL"} /\ (err = "again" => to2 # NULL /\ from2 # NULL)
    BY <1>15, <1>23
  <2>4. QED
    BY <2>1, <2>2, <2>3
<1>25. PICK st2 : st2 = CopyTurn(st)
  OBVIOUS
<1>26. /\ st2.H = F /\ st2.to = to2 /\ st2.from = from2 /\ st2.left = n - more
       /\ st2.offsetTo = o2 /\ st2.offsetFrom = p2 /\ st2.err = err
  BY <1>16, <1>17, <1>18, <1>25
<1>27. CopiedUpTo(A, H, p, q, n, offset, more, st2)
  BY <1>1, <1>20, <1>21, <1>22, <1>24, <1>26 DEF CopiedUpTo
<1>28. QED
  BY <1>18, <1>25, <1>27

\* The loop starts with nothing copied.
LEMMA CopyStarts ==
  ASSUME NEW A, NEW H, NEW h, NEW p, NEW q, NEW n, NEW offset, CopyAsked(A, H, h, p, q, n, offset),
         NEW st, st = [H |-> H, to |-> q, from |-> p, left |-> n, offsetTo |-> offset,
                       offsetFrom |-> 0, err |-> "again"]
  PROVE  CopiedUpTo(A, H, p, q, n, offset, 0, st)
<1>1. PICK c, d, s, t : c = Chain(H, p) /\ d = Chain(H, q) /\ s = Content(H, p) /\ t = Content(H, q)
  OBVIOUS
<1>2. /\ HeapOk(H, h) /\ MemoryOf(H, A) /\ p \in DOMAIN H /\ q \in DOMAIN H /\ n \in Nat
      /\ offset \in 0 .. H[q].len
  BY DEF CopyAsked
<1>3. Laid(H, p, c) /\ Laid(H, q, d)
  BY <1>1, <1>2, LaidIs
<1>4. SameShape(H, H)
  <2>1. Structs(H)
    BY <1>2 DEF HeapOk, Linked, Structs
  <2>2. QED
    BY <2>1, SameHeap
<1>5. 1 \in 1 .. Len(d) /\ Positioned(H, d, 1, q, offset, offset + 0)
  <2>1. Len(d) \in Nat \ {0} /\ d[1] = q /\ Before(H, d, 1) = 0 /\ H[q].len \in Nat
    BY <1>3 DEF Laid
  <2>2. 1 \in 1 .. Len(d) /\ 0 + offset = offset + 0
    BY <1>2, <2>1
  <2>3. QED
    BY <1>2, <2>1, <2>2 DEF Positioned
<1>6. 1 \in 1 .. Len(c) /\ Positioned(H, c, 1, p, 0, 0)
  <2>1. Len(c) \in Nat \ {0} /\ c[1] = p /\ Before(H, c, 1) = 0 /\ H[p].len \in Nat
    <3>1. /\ Len(c) \in Nat \ {0} /\ c[1] = p /\ Before(H, c, 1) = 0
          /\ \A k \in 1 .. Len(c) : H[c[k]].len \in Nat
      BY <1>3 DEF Laid
    <3>2. 1 \in 1 .. Len(c)
      BY <3>1
    <3>3. QED
      BY <3>1, <3>2
  <2>2. 1 \in 1 .. Len(c) /\ 0 \in 0 .. H[p].len
    BY <2>1
  <2>3. QED
    BY <2>1, <2>2 DEF Positioned
<1>7. LaidOver(H, p, q, offset, 0, H)
  <2>1. t \in Seq(A)
    BY <1>1, <1>2, ContentIs
  <2>2. PICK e : e = SubSeq(s, 1, 0)
    OBVIOUS
  <2>3. DOMAIN e = {}
    <3>1. s \in Seq(A)
      BY <1>1, <1>2, ContentIs
    <3>2. QED
      BY <2>2, <3>1
  <2>4. Overlaid(t, e, offset) = t
    BY <2>1, <2>3 DEF Overlaid
  <2>5. QED
    BY <1>1, <2>2, <2>4 DEF LaidOver
<1>8. PICK o : o = n - 0
  OBVIOUS
<1>9. o = n
  BY <1>2, <1>8
<1>10. QED
  BY <1>1, <1>2, <1>4, <1>5, <1>6, <1>7, <1>8, <1>9 DEF CopiedUpTo

\* What the loop has come to, after any number of turns.
CopyGoes(A, H, p, q, n, offset, st) ==
  \E done \in 0 .. n : CopiedUpTo(A, H, p, q, n, offset, done, st)

\* Another turn leaves it so.
LEMMA StepGoes ==
  ASSUME NEW A, NEW H, NEW h, NEW p, NEW q, NEW n, NEW offset, CopyAsked(A, H, h, p, q, n, offset),
         NEW st, CopyGoes(A, H, p, q, n, offset, st)
  PROVE  CopyGoes(A, H, p, q, n, offset, CopyStep(st))
<1>1. CASE st.err = "again"
  <2>1. PICK done \in 0 .. n : CopiedUpTo(A, H, p, q, n, offset, done, st)
    BY DEF CopyGoes
  <2>2. \E more \in 0 .. n : CopiedUpTo(A, H, p, q, n, offset, more, CopyTurn(st))
    BY <1>1, <2>1, TurnGoesOn
  <2>3. CopyGoes(A, H, p, q, n, offset, CopyTurn(st))
    BY <2>2 DEF CopyGoes
  <2>4. QED
    BY <1>1, <2>3 DEF CopyStep
<1>2. CASE st.err # "again"
  BY <1>2 DEF CopyStep
<1>3. QED
  BY <1>1, <1>2

\* pbuf_copy_partial_pbuf(), asked for bytes that fit.
LEMMA CopyHas ==
  ASSUME NEW A, NEW H, NEW h, NEW p, NEW q, NEW n, NEW offset, CopyAsked(A, H, h, p, q, n, offset),
         NEW copy, copy = CopyPartialPbuf(H, q, p, n, offset)
  PROVE  /\ copy.err \in {"again", "OK", "VAL"}
         /\ copy.err = "OK" =>
              Content(copy.H, q) = Overlaid(Content(H, q), SubSeq(Content(H, p), 1, n), offset)
<1>1. /\ HeapOk(H, h) /\ p \in DOMAIN H /\ q \in DOMAIN H /\ n \in Nat /\ offset \in Nat
      /\ n <= H[p].tot_len /\ offset + n <= H[q].tot_len
  BY DEF CopyAsked
<1>2. PICK turns : turns = Clen(H, q) + Clen(H, p) + 1
  OBVIOUS
<1>3. turns \in Nat /\ H[p].tot_len \in Nat /\ H[q].tot_len \in Nat
  <2>1. Laid(H, p, Chain(H, p)) /\ Laid(H, q, Chain(H, q))
    BY <1>1, LaidIs
  <2>2. /\ Len(Chain(H, p)) \in Nat /\ Len(Chain(H, q)) \in Nat
        /\ H[p].tot_len \in Nat /\ H[q].tot_len \in Nat
    BY <2>1 DEF Laid
  <2>3. QED
    BY <1>2, <2>2 DEF Clen
<1>4. PICK start : start = [H |-> H, to |-> q, from |-> p, left |-> n, offsetTo |-> offset,
                            offsetFrom |-> 0, err |-> "again"]
  OBVIOUS
<1>5. PICK after : after = CHOOSE f : Copying(f, turns, start)
  OBVIOUS
<1>6. Copying(after, turns, start)
  BY <1>3, <1>5, CopyRuns
<1>7. CopyPartialPbuf(H, q, p, n, offset) = [err |-> after[turns].err, H |-> after[turns].H]
  <2>1. ~ (H[p].tot_len < n \/ H[q].tot_len < offset + n)
    BY <1>1, <1>3
  <2>2. QED
    BY <1>2, <1>4, <1>5, <2>1 DEF CopyPartialPbuf, Copying, CopyStep
<1>8. CopyGoes(A, H, p, q, n, offset, after[turns])
  <2> DEFINE P == {i \in 0 .. turns : CopyGoes(A, H, p, q, n, offset, after[i])}
  <2>1. 0 \in P
    <3>1. after[0] = start
      BY <1>3, <1>6 DEF Copying
    <3>2. CopiedUpTo(A, H, p, q, n, offset, 0, start)
      BY <1>4, CopyStarts
    <3>3. 0 \in 0 .. n /\ 0 \in 0 .. turns
      BY <1>1, <1>3
    <3>4. QED
      BY <3>1, <3>2, <3>3 DEF CopyGoes
  <2>2. ASSUME NEW i \in 0 .. turns - 1, i \in P
        PROVE  i + 1 \in P
    <3>1. i + 1 \in 0 .. turns /\ i + 1 # 0 /\ (i + 1) - 1 = i
      BY <1>3
    <3>2. after[i + 1] = CopyStep(after[i])
      BY <1>6, <3>1 DEF Copying
    <3>3. CopyGoes(A, H, p, q, n, offset, CopyStep(after[i]))
      BY <2>2, StepGoes
    <3>4. QED
      BY <3>1, <3>2, <3>3
  <2>3. turns \in P
    <3> HIDE DEF P
    <3>1. turns \in 0 .. turns
      BY <1>3
    <3>2. QED
      BY <1>3, <2>1, <2>2, <3>1, CountingUp
  <2>4. QED
    BY <2>3
<1>9. PICK st : st = after[turns]
  OBVIOUS
<1>10. PICK done \in 0 .. n : CopiedUpTo(A, H, p, q, n, offset, done, st)
  BY <1>8, <1>9 DEF CopyGoes
<1>11. copy.err = st.err /\ copy.H = st.H
  BY <1>7, <1>9
<1>12. QED
  BY <1>10, <1>11 DEF CopiedUpTo, LaidOver

\* All of these are the flat copies of Pbuf.
LEMMA CopiesFlat ==
  ASSUME NEW A, NEW H, NEW h, HeapOk(H, h), MemoryOf(H, A), NEW p \in DOMAIN H, NEW q \in DOMAIN H,
         ToSet(Chain(H, p)) \cap ToSet(Chain(H, q)) = {}
  PROVE  CopiesAreFlat(H, p, q)
<1>1. PICK s, t : s = Content(H, p) /\ t = Content(H, q)
  OBVIOUS
<1>2. /\ Len(s) = H[p].tot_len /\ Len(t) = H[q].tot_len /\ Len(s) \in Nat /\ Len(t) \in Nat
      /\ H[q].len \in Nat
  <2>1. Len(s) = H[p].tot_len /\ s \in Seq(A)
    BY <1>1, ContentIs
  <2>2. Len(t) = H[q].tot_len /\ t \in Seq(A)
    BY <1>1, ContentIs
  <2>3. H[q].len \in Nat
    BY DEF HeapOk, Linked, IsPbuf
  <2>4. QED
    BY <2>1, <2>2, <2>3
<1>3. ASSUME NEW n \in 0 .. Len(s), NEW offset \in 0 .. H[q].len,
             NEW copy, copy = CopyPartialPbuf(H, q, p, n, offset)
      PROVE  /\ (copy.err = "ARG") = (offset + n > Len(t))
             /\ copy.err = "OK" => Content(copy.H, q) = Overlaid(t, SubSeq(s, 1, n), offset)
  <2>1. n \in Nat /\ offset \in Nat /\ n <= H[p].tot_len
    BY <1>2
  <2>2. CASE offset + n > Len(t)
    <3>1. H[q].tot_len < offset + n
      BY <1>2, <2>1, <2>2
    <3>2. copy = [err |-> "ARG", H |-> H]
      BY <1>3, <3>1 DEF CopyPartialPbuf
    <3>3. copy.err = "ARG"
      BY <3>2
    <3>4. QED
      BY <2>2, <3>3
  <2>3. CASE ~ (offset + n > Len(t))
    <3>1. offset + n <= H[q].tot_len
      BY <1>2, <2>1, <2>3
    <3>2. CopyAsked(A, H, h, p, q, n, offset)
      BY <2>1, <3>1 DEF CopyAsked
    <3>3. /\ copy.err \in {"again", "OK", "VAL"}
          /\ copy.err = "OK" =>
               Content(copy.H, q) = Overlaid(Content(H, q), SubSeq(Content(H, p), 1, n), offset)
      BY <1>3, <3>2, CopyHas
    <3>4. copy.err # "ARG"
      BY <3>3
    <3>5. QED
      BY <1>1, <2>3, <3>3, <3>4
  <2>4. QED
    BY <2>2, <2>3
<1>4. QED
  BY <1>1, <1>3 DEF CopiesAreFlat

-----------------------------------------------------------------------------
(* Cloning a chain.                                                        *)

\* A new pbuf is a chain of its own, and the other chains stay.
LEMMA NewStays ==
  ASSUME NEW H, NEW h, HeapOk(H, h), NEW new \in Addresses \ DOMAIN H, NEW b, b.next = NULL,
         NEW G, G = With(H, new, b), Linked(G), NEW p \in DOMAIN H
  PROVE  Chain(G, p) = Chain(H, p) /\ Chain(G, new) = <<new>>
<1>1. DOMAIN G = DOMAIN H \cup {new} /\ G[new] = b /\ \A q \in DOMAIN H : G[q] = H[q]
  BY DEF With
<1>2. Linked(H) /\ NULL \notin DOMAIN H /\ \A q \in DOMAIN H : H[q].next \in DOMAIN H \cup {NULL}
  BY ConstantsAssumption DEF HeapOk, Linked, ConstantsAssumption
<1> DEFINE f == CHOOSE f : Unfolds(H, DOMAIN H, f)
           g == CHOOSE g : Unfolds(G, DOMAIN G, g)
<1>3. Unfolds(H, DOMAIN H, f) /\ Unfolds(G, DOMAIN G, g)
  BY <1>2, ChainsExist
<1>4. Chain(H, p) = f[p] /\ Chain(G, p) = g[p]
  BY DEF Chain, Unfolds
<1> HIDE DEF f, g
<1>5. Unfolds(G, DOMAIN H, f)
  <2>1. DOMAIN f = DOMAIN H \cup {NULL} /\ \A q \in DOMAIN H \cup {NULL} :
          f[q] = IF q = NULL THEN <<>> ELSE <<q>> \o f[H[q].next]
    BY <1>3 DEF Unfolds
  <2>2. \A q \in DOMAIN H \cup {NULL} : f[q] = IF q = NULL THEN <<>> ELSE <<q>> \o f[G[q].next]
    <3>1. ASSUME NEW q \in DOMAIN H \cup {NULL}, q # NULL
          PROVE  f[q] = <<q>> \o f[G[q].next]
      <4>1. G[q].next = H[q].next
        BY <1>1, <3>1
      <4>2. f[q] = <<q>> \o f[H[q].next]
        BY <2>1, <3>1
      <4>3. QED
        BY <4>1, <4>2
    <3>2. f[NULL] = <<>>
      BY <2>1
    <3>3. QED
      BY <3>1, <3>2
  <2>3. f = [q \in DOMAIN H \cup {NULL} |-> f[q]]
    BY <1>3 DEF Unfolds
  <2>4. QED
    BY <2>2, <2>3 DEF Unfolds
<1>6. f[p] = g[p]
  <2>1. DOMAIN H \in SUBSET DOMAIN G /\ DOMAIN G \in SUBSET DOMAIN G /\ p \in DOMAIN H \cap DOMAIN G
    BY <1>1
  <2>2. \A q \in DOMAIN H : G[q].next \in DOMAIN H \cup {NULL}
    BY <1>1, <1>2
  <2>3. \A q \in DOMAIN G : G[q].next \in DOMAIN G \cup {NULL}
    BY DEF Linked
  <2>4. \A q \in DOMAIN H \cap DOMAIN G : f[q] = g[q]
    BY <1>3, <1>5, <2>1, <2>2, <2>3, SameChains
  <2>5. QED
    BY <2>1, <2>4
<1>7. Chain(G, new) = <<new>>
  <2>1. Chain(G, NULL) = <<>> /\ Chain(G, new) = <<new>> \o Chain(G, G[new].next)
    BY <1>1, ChainStep
  <2>2. QED
    BY <1>1, <2>1
<1>8. QED
  BY <1>4, <1>6, <1>7

\* So do their contents.
LEMMA NewContents ==
  ASSUME NEW H, NEW h, HeapOk(H, h), NEW new \in Addresses \ DOMAIN H, NEW b, b.next = NULL,
         NEW G, G = With(H, new, b), Linked(G), NEW p \in DOMAIN H
  PROVE  Content(G, p) = Content(H, p)
<1>1. PICK c : c = Chain(H, p)
  OBVIOUS
<1>2. Chain(G, p) = c
  BY <1>1, NewStays
<1>3. \A i \in DOMAIN c : c[i] \in DOMAIN H
  BY <1>1, LaidIs DEF Laid
<1>4. \A q \in DOMAIN H : G[q] = H[q]
  BY DEF With
<1>5. \A i \in DOMAIN c : Payload(G, c[i]) = Payload(H, c[i])
  BY <1>3, <1>4 DEF Payload
<1>6. [i \in DOMAIN c |-> Payload(G, c[i])] = [i \in DOMAIN c |-> Payload(H, c[i])]
  BY <1>5
<1>7. QED
  BY <1>1, <1>2, <1>6 DEF Content

\* What a clone is made in: a pbuf of its own that has room for the chain, of which
\* no pbuf before the last one looks like the end of a packet.
CloneAsked(G, h, p, new) ==
  /\ HeapOk(G, h) /\ p \in DOMAIN G /\ new \in DOMAIN G
  /\ G[new].len = G[p].tot_len /\ G[new].next = NULL
  /\ \A i \in 2 .. Len(Chain(G, p)) - 1 : G[Chain(G, p)[i]].len # G[Chain(G, p)[i]].tot_len

\* After k turns the first k pbufs of the chain are copied, unless all are.
CloneTurned(G, p, new, k, st) ==
  LET c == Chain(G, p) IN
  \/ st.err = "OK"
  \/ /\ st.err = "again" /\ k < Len(c) /\ st.to = new /\ st.from = c[k + 1]
     /\ st.offsetTo = Before(G, c, k + 1) /\ st.offsetFrom = 0
     /\ st.left = G[p].tot_len - Before(G, c, k + 1)

\* Each turn copies the next pbuf.
LEMMA CloneGoes ==
  ASSUME NEW G, NEW h, NEW p, NEW new, CloneAsked(G, h, p, new),
         NEW k \in Nat, NEW st, CloneTurned(G, p, new, k, st), SameShape(G, st.H)
  PROVE  CloneTurned(G, p, new, k + 1, CopyStep(st))
<1>1. CASE st.err = "OK"
  BY <1>1 DEF CloneTurned, CopyStep
<1>2. CASE st.err # "OK"
  <2>1. PICK c, F, i, t : c = Chain(G, p) /\ F = st.H /\ i = k + 1 /\ t = G[p].tot_len
    OBVIOUS
  <2>2. PICK from, y, b : from = c[i] /\ y = G[from].len /\ b = Before(G, c, i)
    OBVIOUS
  <2>3. /\ st.err = "again" /\ k < Len(c) /\ st.to = new /\ st.from = from
        /\ st.offsetTo = b /\ st.offsetFrom = 0 /\ st.left = t - b
    BY <1>2, <2>1, <2>2 DEF CloneTurned
  <2>4. /\ HeapOk(G, h) /\ p \in DOMAIN G /\ new \in DOMAIN G /\ G[new].len = t /\ G[new].next = NULL
        /\ \A j \in 2 .. Len(c) - 1 : G[c[j]].len # G[c[j]].tot_len
    BY <2>1 DEF CloneAsked
  <2>5. /\ Laid(G, p, c) /\ IsChain(G, p, c)
        /\ \A q \in DOMAIN G : F[q].len = G[q].len /\ F[q].tot_len = G[q].tot_len /\ F[q].next = G[q].next
    BY <2>1, <2>4, LaidStays
  <2>6. Len(c) \in Nat /\ i \in 1 .. Len(c)
    BY <2>1, <2>3, <2>5 DEF Laid
  <2>7. from \in DOMAIN G /\ y \in Nat /\ b \in Nat /\ t \in Nat /\ b + y <= t
    <3>1. from \in DOMAIN G /\ y \in Nat /\ b \in Nat
      BY <2>2, <2>5, <2>6 DEF Laid
    <3>2. b + y <= t
      BY <2>1, <2>2, <2>5, <2>6, BeforeEnds
    <3>3. t \in Nat
      BY <2>1, <2>5, ConstantsAssumption DEF Laid, ConstantsAssumption
    <3>4. QED
      BY <3>1, <3>2, <3>3
  <2>8. PICK to2, from2, o2, chunk :
          /\ to2 = IF b + y = t THEN NULL ELSE new
          /\ from2 = G[from].next
          /\ o2 = IF b + y = t THEN 0 ELSE b + y
          /\ chunk = SubSeq(Payload(F, from), 1, y)
    OBVIOUS
  <2>9. PICK left : left = (t - b) - y
    OBVIOUS
  <2>10. PICK err : err = IF NULL \in {to2, from2} /\ left > 0 THEN "ARG"
                 ELSE IF Queued(F, from2) \/ Queued(F, to2) THEN "VAL"
                 ELSE IF left > 0 THEN "again" ELSE "OK"
    OBVIOUS
  <2>11. CopyTurn(st) = [H |-> Put(F, new, b, chunk), to |-> to2, from |-> from2, left |-> left,
                         offsetTo |-> o2, offsetFrom |-> 0, err |-> err]
    <3>1. Smaller(t - b, Smaller(t - b, y - 0)) = y
      BY <2>7 DEF Smaller
    <3>2. F[new].len = t /\ F[new].next = NULL /\ F[from].len = y /\ F[from].next = from2
      BY <2>2, <2>4, <2>5, <2>7, <2>8
    <3>3. 0 + y = y /\ y >= y /\ 0 + 1 = 1
      BY <2>7
    <3>4. QED
      BY <2>1, <2>3, <2>8, <2>9, <2>10, <3>1, <3>2, <3>3, ZenonT(60) DEF CopyTurn
  <2>12. from2 = IF i = Len(c) THEN NULL ELSE c[i + 1]
    BY <2>2, <2>5, <2>6, <2>8 DEF IsChain, LinkedFrom
  <2>13. i = Len(c) => b + y = t
    BY <2>1, <2>2, <2>5 DEF Laid
  <2>14. i # Len(c) => /\ i + 1 \in 2 .. Len(c) /\ i \in 1 .. Len(c) - 1 /\ i + 1 < Len(c) + 1
                       /\ (i + 1 # Len(c) => i + 1 \in 2 .. Len(c) - 1) /\ i + 1 \in 1 .. Len(c)
    BY <2>6
  <2>15. i # Len(c) => from2 \in DOMAIN G /\ from2 # NULL /\ Before(G, c, i + 1) = b + y
    BY <2>2, <2>5, <2>12, <2>14 DEF Laid
  <2>16. ~ Queued(F, from2)
    <3>1. CASE i = Len(c)
      BY <2>12, <3>1 DEF Queued
    <3>2. CASE i # Len(c) /\ i + 1 = Len(c)
      <4>1. G[from2].next = NULL
        BY <2>5, <2>12, <2>14, <3>2 DEF IsChain, LinkedFrom
      <4>2. QED
        BY <2>5, <2>15, <3>2, <4>1 DEF Queued
    <3>3. CASE i # Len(c) /\ i + 1 # Len(c)
      <4>1. G[from2].len # G[from2].tot_len
        BY <2>4, <2>12, <2>14, <3>3
      <4>2. QED
        BY <2>5, <2>15, <3>3, <4>1 DEF Queued
    <3>4. QED
      BY <3>1, <3>2, <3>3
  <2>17. ~ Queued(F, to2)
    <3>1. F[new].next = NULL
      BY <2>4, <2>5
    <3>2. QED
      BY <2>8, <3>1 DEF Queued
  <2>18. left > 0 => b + y # t /\ i # Len(c) /\ to2 = new /\ to2 # NULL /\ from2 # NULL /\ o2 = b + y
    <3>1. left > 0 => b + y # t
      BY <2>7, <2>9
    <3>2. new # NULL
      BY <2>4, ConstantsAssumption DEF HeapOk, Linked, ConstantsAssumption
    <3>3. QED
      BY <2>8, <2>13, <2>15, <3>1, <3>2
  <2>19. err = IF left > 0 THEN "again" ELSE "OK"
    BY <2>10, <2>16, <2>17, <2>18
  <2>20. PICK st2 : st2 = CopyStep(st)
    OBVIOUS
  <2>21. /\ st2.to = to2 /\ st2.from = from2 /\ st2.left = left /\ st2.offsetTo = o2
         /\ st2.offsetFrom = 0 /\ st2.err = err
    BY <2>3, <2>11, <2>20 DEF CopyStep
  <2>22. CloneTurned(G, p, new, i, st2)
    <3>1. CASE left > 0
      <4>1. i < Len(c) /\ from2 = c[i + 1] /\ Before(G, c, i + 1) = b + y
        BY <2>6, <2>12, <2>15, <2>18, <3>1
      <4>2. left = t - (b + y)
        BY <2>7, <2>9
      <4>3. err = "again" /\ to2 = new /\ o2 = b + y
        BY <2>18, <2>19, <3>1
      <4>4. QED
        BY <2>1, <2>21, <4>1, <4>2, <4>3 DEF CloneTurned
    <3>2. CASE ~ (left > 0)
      BY <2>19, <2>21, <3>2 DEF CloneTurned
    <3>3. QED
      BY <3>1, <3>2
  <2>23. QED
    BY <2>1, <2>20, <2>22
<1>3. QED
  BY <1>1, <1>2

\* All bytes laid over as many are what there is.
LEMMA OverlaidAll ==
  ASSUME NEW A, NEW s \in Seq(A), NEW t \in Seq(A), Len(t) = Len(s)
  PROVE  Overlaid(t, SubSeq(s, 1, Len(s)), 0) = s
<1>1. PICK n : n = Len(s)
  OBVIOUS
<1>2. n \in Nat /\ DOMAIN s = 1 .. n /\ DOMAIN t = 1 .. n /\ s = [i \in 1 .. n |-> s[i]]
  BY <1>1
<1>3. SubSeq(s, 1, n) = s
  BY <1>1, <1>2
<1>4. \A i \in 1 .. n : i - 0 = i
  BY <1>2
<1>5. [i \in 1 .. n |-> IF i - 0 \in 1 .. n THEN s[i - 0] ELSE t[i]] = [i \in 1 .. n |-> s[i]]
  BY <1>4
<1>6. QED
  BY <1>1, <1>2, <1>3, <1>5 DEF Overlaid

\* The copy of a whole chain into a pbuf that has room for it does not fail.
LEMMA CloneHas ==
  ASSUME NEW A, NEW G, NEW h, NEW p, NEW new, CloneAsked(G, h, p, new),
         CopyAsked(A, G, h, p, new, G[p].tot_len, 0), Len(Content(G, new)) = G[p].tot_len
  PROVE  Content(CopyPbuf(G, new, p).H, new) = Content(G, p)
<1>1. PICK n, c, copy : /\ n = G[p].tot_len /\ c = Chain(G, p)
                        /\ copy = CopyPartialPbuf(G, new, p, n, 0)
  OBVIOUS
<1>2. /\ HeapOk(G, h) /\ MemoryOf(G, A) /\ p \in DOMAIN G /\ new \in DOMAIN G /\ n \in Nat
      /\ 0 + n <= G[new].tot_len
  BY <1>1 DEF CopyAsked
<1>3. PICK turns : turns = Clen(G, new) + Clen(G, p) + 1
  OBVIOUS
<1>4. turns \in Nat /\ Len(c) \in Nat \ {0} /\ turns > Len(c)
  <2>1. Laid(G, p, c) /\ Laid(G, new, Chain(G, new))
    BY <1>1, <1>2, LaidIs
  <2>2. PICK m : m = Len(Chain(G, new))
    OBVIOUS
  <2>3. Len(c) \in Nat \ {0} /\ m \in Nat
    BY <2>1, <2>2 DEF Laid
  <2>4. turns = m + Len(c) + 1
    BY <1>1, <1>3, <2>2 DEF Clen
  <2>5. QED
    BY <2>3, <2>4
<1>5. PICK start : start = [H |-> G, to |-> new, from |-> p, left |-> n, offsetTo |-> 0,
                            offsetFrom |-> 0, err |-> "again"]
  OBVIOUS
<1>6. PICK after : after = CHOOSE f : Copying(f, turns, start)
  OBVIOUS
<1>7. Copying(after, turns, start)
  BY <1>4, <1>6, CopyRuns
<1>8. copy = [err |-> after[turns].err, H |-> after[turns].H]
  <2>1. ~ (G[p].tot_len < n \/ G[new].tot_len < 0 + n)
    <3>1. PICK l : l = G[new].tot_len
      OBVIOUS
    <3>2. l \in Nat
      <4>1. Laid(G, new, Chain(G, new))
        BY <1>2, LaidIs
      <4>2. QED
        BY <3>1, <4>1, ConstantsAssumption DEF Laid, ConstantsAssumption
    <3>3. QED
      BY <1>1, <1>2, <3>1, <3>2
  <2>2. QED
    BY <1>1, <1>3, <1>5, <1>6, <2>1 DEF CopyPartialPbuf, Copying, CopyStep
<1>9. CopyGoes(A, G, p, new, n, 0, after[turns]) /\ CloneTurned(G, p, new, turns, after[turns])
  <2> DEFINE P == {i \in 0 .. turns : /\ CopyGoes(A, G, p, new, n, 0, after[i])
                                      /\ CloneTurned(G, p, new, i, after[i])}
  <2>1. 0 \in P
    <3>1. after[0] = start
      BY <1>4, <1>7 DEF Copying
    <3>2. CopiedUpTo(A, G, p, new, n, 0, 0, start)
      BY <1>1, <1>5, CopyStarts
    <3>3. 0 \in 0 .. n /\ 0 \in 0 .. turns
      BY <1>2, <1>4
    <3>4. CloneTurned(G, p, new, 0, start)
      <4>1. c[1] = p /\ Before(G, c, 1) = 0
        BY <1>1, <1>2, LaidIs DEF Laid
      <4>2. 0 < Len(c) /\ 0 + 1 = 1 /\ n - 0 = n
        BY <1>2, <1>4
      <4>3. start.err = "again" /\ start.to = new /\ start.from = p /\ start.offsetTo = 0
            /\ start.offsetFrom = 0 /\ start.left = n
        BY <1>5
      <4>4. QED
        BY <1>1, <4>1, <4>2, <4>3 DEF CloneTurned
    <3>5. QED
      BY <3>1, <3>2, <3>3, <3>4 DEF CopyGoes
  <2>2. ASSUME NEW i \in 0 .. turns - 1, i \in P
        PROVE  i + 1 \in P
    <3>1. i + 1 \in 0 .. turns /\ i + 1 # 0 /\ (i + 1) - 1 = i /\ i \in Nat
      BY <1>4
    <3>2. after[i + 1] = CopyStep(after[i])
      BY <1>7, <3>1 DEF Copying
    <3>3. CopyGoes(A, G, p, new, n, 0, CopyStep(after[i]))
      BY <1>1, <2>2, StepGoes
    <3>4. PICK st : st = after[i]
      OBVIOUS
    <3>5. SameShape(G, st.H)
      BY <2>2, <3>4 DEF CopyGoes, CopiedUpTo
    <3>6. CloneTurned(G, p, new, i, st)
      BY <2>2, <3>4
    <3>7. CloneTurned(G, p, new, i + 1, CopyStep(st))
      BY <3>1, <3>5, <3>6, CloneGoes
    <3>8. QED
      BY <3>1, <3>2, <3>3, <3>4, <3>7
  <2>3. turns \in P
    <3> HIDE DEF P
    <3>1. turns \in 0 .. turns
      BY <1>4
    <3>2. QED
      BY <1>4, <2>1, <2>2, <3>1, CountingUp
  <2>4. QED
    BY <2>3
<1>10. copy.err = "OK"
  <2>1. ~ (turns < Len(c))
    BY <1>4
  <2>2. after[turns].err = "OK"
    BY <1>1, <1>9, <2>1 DEF CloneTurned
  <2>3. QED
    BY <1>8, <2>2
<1>11. Content(copy.H, new) = Overlaid(Content(G, new), SubSeq(Content(G, p), 1, n), 0)
  BY <1>1, <1>10, CopyHas
<1>12. Content(G, p) \in Seq(A) /\ Len(Content(G, p)) = n /\ Content(G, new) \in Seq(A)
  BY <1>1, <1>2, ContentIs
<1>13. PICK s, t : s = Content(G, p) /\ t = Content(G, new)
  OBVIOUS
<1>14. s \in Seq(A) /\ t \in Seq(A) /\ Len(t) = Len(s) /\ n = Len(s)
  BY <1>1, <1>12, <1>13
<1>15. Overlaid(t, SubSeq(s, 1, n), 0) = s
  BY <1>14, OverlaidAll
<1>16. CopyPbuf(G, new, p) = copy
  BY <1>1 DEF CopyPbuf
<1>17. QED
  BY <1>11, <1>13, <1>15, <1>16

\* Clones are flat.
LEMMA ClonesFlat ==
  ASSUME NEW A, 0 \in A, NEW H, NEW h, HeapOk(H, h), MemoryOf(H, A), NEW p \in DOMAIN H
  PROVE  ClonesAreFlat(H, p)
<1>1. PICK c, n : c = Chain(H, p) /\ n = H[p].tot_len
  OBVIOUS
<1>2. SUFFICES ASSUME \A i \in 2 .. Len(c) - 1 : H[c[i]].len # H[c[i]].tot_len,
                      NEW new \in Addresses \ DOMAIN H
               PROVE  Content(Cloned(H, 0, p, new), new) = Content(H, p)
  BY <1>1 DEF ClonesAreFlat
<1>3. n \in 0 .. Width - 1 /\ n \in Nat /\ Structs(H) /\ Laid(H, p, c)
  <2>1. Laid(H, p, c)
    BY <1>1, LaidIs
  <2>2. n \in 0 .. Width - 1
    BY <1>1, <2>1 DEF Laid
  <2>3. n \in Nat
    BY <2>2, ConstantsAssumption DEF ConstantsAssumption
  <2>4. QED
    BY <2>1, <2>2, <2>3 DEF HeapOk, Linked, Structs
<1>4. PICK b, G, g : b = AllocedRam(0, n) /\ G = With(H, new, b) /\ g = [h EXCEPT ![new] = 1]
  OBVIOUS
<1>5. Align(0) \in Nat
  BY AlignIs
<1>6. b.len = n /\ b.tot_len = n /\ b.next = NULL
  BY <1>3, <1>4, FreshIs DEF AllocedRam, Alloced
<1>7. HeapOk(G, g)
  BY <1>3, <1>4, RamOk
<1>8. DOMAIN G = DOMAIN H \cup {new} /\ G[new] = b /\ \A q \in DOMAIN H : G[q] = H[q]
  BY <1>4 DEF With
<1>9. MemoryOf(G, A)
  <2>1. Plain(H, A)
    BY <1>3, PlainIs
  <2>2. IsPlain(b, A)
    BY <1>3, <1>4, <1>5, FreshPlain DEF AllocedRam
  <2>3. QED
    BY <1>4, <2>1, <2>2, WithPlain, PlainMemory
<1>10. Chain(G, p) = c /\ Chain(G, new) = <<new>> /\ Content(G, p) = Content(H, p)
  <2>1. Linked(G)
    BY <1>7 DEF HeapOk
  <2>2. Chain(G, p) = Chain(H, p) /\ Chain(G, new) = <<new>>
    BY <1>4, <1>6, <2>1, NewStays
  <2>3. Content(G, p) = Content(H, p)
    BY <1>4, <1>6, <2>1, NewContents
  <2>4. QED
    BY <1>1, <2>2, <2>3
<1>11. CloneAsked(G, g, p, new)
  <2>1. \A i \in 2 .. Len(c) - 1 : c[i] \in DOMAIN H
    <3>1. \A i \in 2 .. Len(c) - 1 : i \in 1 .. Len(c)
      BY <1>3 DEF Laid
    <3>2. QED
      BY <1>3, <3>1 DEF Laid
  <2>2. \A i \in 2 .. Len(c) - 1 : G[c[i]].len # G[c[i]].tot_len
    BY <1>2, <1>8, <2>1
  <2>3. p \in DOMAIN G /\ G[p].tot_len = n
    BY <1>1, <1>8
  <2>4. QED
    BY <1>6, <1>7, <1>8, <1>10, <2>2, <2>3 DEF CloneAsked
<1>12. CopyAsked(A, G, g, p, new, n, 0)
  <2>1. ToSet(c) \cap ToSet(<<new>>) = {}
    <3>1. ToSet(<<new>>) = {new}
      BY DEF ToSet
    <3>2. ToSet(c) \subseteq DOMAIN H
      BY <1>3 DEF Laid, ToSet
    <3>3. QED
      BY <3>1, <3>2
  <2>2. 0 \in 0 .. G[new].len /\ n <= G[p].tot_len /\ 0 + n <= G[new].tot_len
    BY <1>1, <1>3, <1>6, <1>8
  <2>3. p \in DOMAIN G /\ new \in DOMAIN G
    BY <1>8
  <2>4. QED
    BY <1>3, <1>7, <1>9, <1>10, <2>1, <2>2, <2>3 DEF CopyAsked
<1>13. Len(Content(G, new)) = n /\ G[p].tot_len = n
  <2>1. Len(Content(G, new)) = G[new].tot_len
    BY <1>7, <1>8, <1>9, ContentIs
  <2>2. QED
    BY <1>1, <1>6, <1>8, <2>1
<1>14. Content(CopyPbuf(G, new, p).H, new) = Content(G, p)
  <2>1. CopyAsked(A, G, g, p, new, G[p].tot_len, 0) /\ Len(Content(G, new)) = G[p].tot_len
    BY <1>12, <1>13
  <2>2. QED
    BY <1>11, <2>1, CloneHas
<1>15. Cloned(H, 0, p, new) = CopyPbuf(G, new, p).H
  BY <1>1, <1>4 DEF Cloned
<1>16. QED
  BY <1>10, <1>14, <1>15

-----------------------------------------------------------------------------
(* Heaps whose bytes all differ.                                           *)

\* The bytes of Labelled, those written into it, and the 0 of new memory.
Labels == ((DOMAIN pbufs \cup {NULL}) \X Nat) \cup {0}

\* The heap Labelled is in order, as pbufs is.
LEMMA LabelledIs ==
  ASSUME HeapInv
  PROVE  /\ SameShape(pbufs, Labelled) /\ HeapOk(Labelled, held) /\ MemoryOf(Labelled, Labels)
         /\ IsHeap(Labelled) /\ DOMAIN Labelled = DOMAIN pbufs
         /\ \A p \in DOMAIN pbufs : Labelled[p].ref = pbufs[p].ref
<1>1. PICK L : L = Labelled
  OBVIOUS
<1>2. DOMAIN L = DOMAIN pbufs /\ IsHeap(L)
  BY <1>1 DEF Labelled, IsHeap
<1>3. ASSUME NEW q \in DOMAIN pbufs
      PROVE  /\ L[q] = [pbufs[q] EXCEPT !.mem = L[q].mem]
             /\ L[q].mem \in Seq(Labels) /\ L[q].mem \in Seq(ToSet(L[q].mem))
             /\ Len(L[q].mem) = Len(pbufs[q].mem) /\ L[q].ref = pbufs[q].ref
  <2>1. PICK b, m, n, s : b = pbufs[q] /\ m = b.mem /\ n = Len(m) /\ s = [i \in 1 .. n |-> <<q, i>>]
    OBVIOUS
  <2>2. IsPbuf(b) /\ Buffered(b)
    BY <2>1 DEF HeapInv, HeapOk, Linked
  <2>3. m \in Seq(ToSet(m))
    BY <2>1, <2>2 DEF Buffered
  <2>4. DOMAIN m = 1 .. n /\ n \in Nat
    BY <2>1, <2>3
  <2>5. L[q] = [b EXCEPT !.mem = s]
    BY <1>1, <2>1, <2>4 DEF Labelled
  <2>6. L[q].mem = s /\ L[q].ref = b.ref /\ L[q] = [b EXCEPT !.mem = L[q].mem]
    BY <2>2, <2>5 DEF IsPbuf
  <2>7. s \in [1 .. n -> Labels]
    BY <2>1 DEF Labels
  <2>8. s \in Seq(Labels) /\ Len(s) = n
    BY <2>4, <2>7, FunctionsAreSeqs
  <2>9. s \in Seq(ToSet(s))
    BY <2>8, SeqOfElements
  <2>10. QED
    BY <2>1, <2>6, <2>8, <2>9
<1>4. SameShape(pbufs, L) /\ MemoryOf(L, Labels)
  BY <1>2, <1>3 DEF SameShape, MemoryOf
<1>5. HeapOk(L, held)
  BY <1>4, SameShapeKeeps DEF HeapInv
<1>6. QED
  BY <1>1, <1>2, <1>3, <1>4, <1>5

\* A chain that only its holder points to, and whose pbufs nobody else does.
LEMMA HeldAlone ==
  ASSUME HeapInv, \A q \in DOMAIN pbufs : pbufs[q].ref = 1, NEW p \in DOMAIN pbufs, held[p] > 0
  PROVE  Exclusive(p)
<1>1. PICK c, H : c = Chain(pbufs, p) /\ H = pbufs
  OBVIOUS
<1>2. Laid(H, p, c) /\ IsChain(H, p, c)
  BY <1>1, LaidIs DEF HeapInv
<1>3. /\ held \in [Addresses -> Nat] /\ DOMAIN H \subseteq Addresses
      /\ \A q \in DOMAIN H : 1 = held[q] + Cardinality(LinksTo(H, q))
  BY <1>1 DEF HeapInv, HeapOk, Counted, Linked
<1>4. \A q \in DOMAIN H : IsFiniteSet(LinksTo(H, q)) /\ Cardinality(LinksTo(H, q)) \in Nat
  BY <1>3, LinksAreFinite
<1>5. ASSUME NEW q \in DOMAIN H
      PROVE  Cardinality(LinksTo(H, q)) = 1 - held[q] /\ held[q] \in Nat
  <2>1. PICK k, n : k = held[q] /\ n = Cardinality(LinksTo(H, q))
    OBVIOUS
  <2>2. k \in Nat /\ n \in Nat /\ 1 = k + n
    BY <1>3, <1>4, <2>1
  <2>3. n = 1 - k
    BY <2>2
  <2>4. QED
    BY <2>1, <2>2, <2>3
<1>6. Cardinality(LinksTo(H, p)) = 0
  <2>1. PICK k, n : k = held[p] /\ n = Cardinality(LinksTo(H, p))
    OBVIOUS
  <2>2. k \in Nat /\ k > 0 /\ n \in Nat /\ n = 1 - k
    BY <1>1, <1>4, <1>5, <2>1
  <2>3. QED
    BY <2>1, <2>2
<1>7. ASSUME NEW i \in 1 .. Len(c), i # 1
      PROVE  Cardinality(LinksTo(H, c[i])) = 1
  <2>1. /\ Len(c) \in Nat /\ i - 1 \in 1 .. Len(c) /\ i - 1 # Len(c) /\ (i - 1) + 1 = i
    BY <1>2, <1>7 DEF Laid
  <2>2. c[i - 1] \in DOMAIN H /\ c[i] \in DOMAIN H
    BY <1>2, <2>1 DEF Laid
  <2>3. H[c[i - 1]].next = c[i]
    BY <1>2, <2>1 DEF IsChain, LinkedFrom
  <2>4. LinksTo(H, c[i]) # {}
    BY <2>2, <2>3 DEF LinksTo
  <2>5. Cardinality(LinksTo(H, c[i])) # 0
    BY <1>4, <2>2, <2>4, FS_EmptySet
  <2>6. PICK k, n : k = held[c[i]] /\ n = Cardinality(LinksTo(H, c[i]))
    OBVIOUS
  <2>7. k \in Nat /\ n \in Nat /\ n = 1 - k /\ n # 0
    BY <1>4, <1>5, <2>2, <2>5, <2>6
  <2>8. QED
    BY <2>6, <2>7
<1>8. ASSUME NEW q \in ToSet(c)
      PROVE  Cardinality(LinksTo(H, q)) = IF q = p THEN 0 ELSE 1
  <2>1. PICK i \in 1 .. Len(c) : q = c[i]
    BY <1>2 DEF Laid, ToSet
  <2>2. c[1] = p
    BY <1>2 DEF Laid
  <2>3. QED
    BY <1>6, <1>7, <2>1, <2>2
<1>9. QED
  BY <1>1, <1>8 DEF Exclusive

\* The whole of DataIsFlat.
LEMMA FlatFollows ==
  ASSUME HeapInv
  PROVE  HeapIsFlat(Labelled)
<1>1. PICK L : L = Labelled
  OBVIOUS
<1>2. /\ SameShape(pbufs, L) /\ HeapOk(L, held) /\ MemoryOf(L, Labels)
      /\ IsHeap(L) /\ DOMAIN L = DOMAIN pbufs
      /\ \A p \in DOMAIN pbufs : L[p].ref = pbufs[p].ref
  BY <1>1, LabelledIs
<1>3. 0 \in Labels /\ \A i \in Nat : <<NULL, i>> \in Labels
  BY DEF Labels
<1>4. ASSUME NEW p \in DOMAIN L
      PROVE  ReadsAreFlat(L, p) /\ SearchesAreFlat(L, p) /\ WritesAreFlat(L, p) /\ ClonesAreFlat(L, p)
  <2>1. ReadsAreFlat(L, p)
    BY <1>2, ReadsFlat
  <2>2. SearchesAreFlat(L, p)
    BY <1>2, SearchesFlat
  <2>3. WritesAreFlat(L, p)
    BY <1>2, <1>3, WritesFlat
  <2>4. ClonesAreFlat(L, p)
    BY <1>2, <1>3, ClonesFlat
  <2>5. QED
    BY <2>1, <2>2, <2>3, <2>4
<1>5. ASSUME \A p \in DOMAIN L : L[p].ref = 1,
             NEW p \in DOMAIN L, NEW q \in DOMAIN L, held[p] > 0, held[q] > 0, p # q
      PROVE  CopiesAreFlat(L, p, q)
  <2>1. Exclusive(p) /\ Exclusive(q)
    BY <1>2, <1>5, HeldAlone
  <2>2. ToSet(Chain(pbufs, p)) \cap ToSet(Chain(pbufs, q)) = {}
    BY <1>2, <1>5, <2>1, ChainsApart
  <2>3. Chain(L, p) = Chain(pbufs, p) /\ Chain(L, q) = Chain(pbufs, q)
    BY <1>2, ChainsStay DEF HeapInv
  <2>4. ToSet(Chain(L, p)) \cap ToSet(Chain(L, q)) = {}
    BY <2>2, <2>3
  <2>5. QED
    BY <1>2, <2>4, CopiesFlat
<1>6. QED
  BY <1>1, <1>4, <1>5 DEF HeapIsFlat

\* The heap is in order, and its memory holds bytes, whatever calls are made.
LEMMA BytesStayInOrder == StreamSpec => []RefInv
<1>1. StreamInit => RefInv
  BY RefinedInit
<1>2. RefInv /\ [StreamNext]_vars => RefInv'
  BY StepRefined
<1>3. QED
  BY <1>1, <1>2, PTL DEF StreamSpec

\* pbuf_copy_partial(), pbuf_get_contiguous(), pbuf_try_get_at(), pbuf_memfind(),
\* pbuf_strstr(), pbuf_take(), pbuf_take_at(), pbuf_put_at(), pbuf_copy_partial_pbuf()
\* and pbuf_clone() do to a chain what they would do to its bytes in one piece.
THEOREM PayloadStaysFlat == StreamSpec => []DataIsFlat
<1>1. RefInv => DataIsFlat
  BY FlatFollows DEF RefInv, DataIsFlat
<1>2. QED
  BY <1>1, BytesStayInOrder, PTL

\* What only reads does so in every chain, also those that share a tail or that
\* several users hold, and for the bytes that are there.
THEOREM ChainsReadFlat ==
  StreamSpec =>
    [](\A p \in DOMAIN pbufs :
         ReadsAreFlat(pbufs, p) /\ SearchesAreFlat(pbufs, p) /\ ClonesAreFlat(pbufs, p))
<1> DEFINE Flat(p) == ReadsAreFlat(pbufs, p) /\ SearchesAreFlat(pbufs, p) /\ ClonesAreFlat(pbufs, p)
<1>1. ASSUME RefInv
      PROVE  \A p \in DOMAIN pbufs : Flat(p)
  <2>1. HeapOk(pbufs, held) /\ MemoryOf(pbufs, Bytes) /\ 0 \in Bytes
    BY <1>1, BytesAre DEF RefInv, HeapInv
  <2>2. ASSUME NEW p \in DOMAIN pbufs
        PROVE  ReadsAreFlat(pbufs, p) /\ SearchesAreFlat(pbufs, p) /\ ClonesAreFlat(pbufs, p)
    <3>1. ReadsAreFlat(pbufs, p)
      BY <2>1, ReadsFlat
    <3>2. SearchesAreFlat(pbufs, p)
      BY <2>1, SearchesFlat
    <3>3. ClonesAreFlat(pbufs, p)
      BY <2>1, ClonesFlat
    <3>4. QED
      BY <3>1, <3>2, <3>3
  <2>3. QED
    BY <2>2
<1>2. QED
  BY <1>1, BytesStayInOrder, PTL
=============================================================================
