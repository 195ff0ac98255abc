------------------------------- MODULE Pbuf -------------------------------
(***************************************************************************)
(* The packet buffers of src/pbuf.c: structs with a length and a reference *)
(* count, linked to chains whose tails may be shared.                      *)
(*                                                                         *)
(* An action is a call of the library by a user that keeps the contract of *)
(* pbuf.h: it passes pointers it holds, changes the length only of a chain *)
(* that no other chain leads into (Exclusive), and makes no chain too long *)
(* for tot_len.  The functions that only read, or write payload, are       *)
(* operators on a heap H, an assignment of pbufs.  Custom pbufs and        *)
(* pbuf_split_64k() are compiled out.                                      *)
(***************************************************************************)
EXTENDS Integers, Sequences, FiniteSets, SequencesExt, Functions, TLC

CONSTANTS
  Addresses,  \* where a struct pbuf may be; bound: that many at once
  NULL,
  MaxLen,     \* bound: the largest length asked of pbuf_alloc()
  MaxHeld,    \* bound: the pointers users hold to one pbuf; 255 in the code
  Width,      \* lengths are below it; 2^16 in the code
  Alignment,  \* MEM_ALIGNMENT
  Layers,     \* the values of pbuf_layer
  PoolSize,   \* PBUF_POOL_BUFSIZE
  External,   \* memory PBUF_REF and PBUF_ROM pbufs refer to, as sequences
  Data        \* the data users write, sequences of bytes

ASSUME ConstantsAssumption ==
  /\ NULL \notin Addresses
  /\ IsFiniteSet(Addresses)
  /\ {MaxLen, MaxHeld, Width, Alignment} \subseteq Nat \ {0}
  /\ MaxLen < Width
  /\ Layers \subseteq Nat /\ PoolSize \in Nat
  /\ \A l \in Layers : PoolSize >= l + Alignment
  /\ \A mem \in External : mem \in Seq(ToSet(mem)) /\ Len(mem) < Width

ASSUME DataAssumption == \A bytes \in Data : bytes \in Seq(ToSet(bytes))

VARIABLES
  pbufs,  \* the structs allocated, by address
  held    \* held[p]: the pointers to p users hold

pbufVars == <<pbufs, held>>

-----------------------------------------------------------------------------
(* Chains.                                                                 *)

\* The chain that starts at p.
Chain(H, p) ==
  LET from[q \in DOMAIN H \cup {NULL}] ==
        IF q = NULL THEN <<>> ELSE <<q>> \o from[H[q].next]
  IN  from[p]

LeastOf(S, none) == IF S = {} THEN none ELSE CHOOSE i \in S : \A j \in S : i <= j

\* pbuf_clen()
Clen(H, p) == Len(Chain(H, p))

Payload(H, p) == SubSeq(H[p].mem, H[p].payload + 1, H[p].payload + H[p].len)
Content(H, p) ==
  LET c == Chain(H, p) IN FlattenSeq([i \in DOMAIN c |-> Payload(H, c[i])])

\* The bytes of chain c before its i-th pbuf.
Before(H, c, i) ==
  LET upTo[j \in DOMAIN c] == IF j = 1 THEN 0 ELSE upTo[j - 1] + H[c[j - 1]].len IN upTo[i]

LinksTo(H, p) == {q \in DOMAIN H : H[q].next = p}

\* No other chain leads into that of p, and p is its head.
Exclusive(p) ==
  \A q \in ToSet(Chain(pbufs, p)) : Cardinality(LinksTo(pbufs, q)) = (IF q = p THEN 0 ELSE 1)

-----------------------------------------------------------------------------
(* Allocating and freeing.                                                 *)

Align(n) == ((n + Alignment - 1) \div Alignment) * Alignment

\* Fresh memory, whose bytes may be anything.
Fresh(n) == [i \in 1 .. n |-> 0]

\* pbuf_init_alloced_pbuf().  mem is the buffer, payload how many of its bytes
\* are before the payload; of the type only PBUF_TYPE_FLAG_STRUCT_DATA_CONTIGUOUS.
Alloced(contiguous, headroom, bytes, tot_len) ==
  [contiguous |-> contiguous, mem |-> Fresh(headroom) \o bytes,
   payload |-> headroom, tot_len |-> tot_len, len |-> Len(bytes), next |-> NULL, ref |-> 1]

\* H with another pbuf.
With(H, p, b) == [q \in DOMAIN H \cup {p} |-> IF q = p THEN b ELSE H[q]]

\* The case PBUF_RAM of pbuf_alloc().
AllocedRam(layer, length) == Alloced(TRUE, Align(layer), Fresh(length), length)

\* pbuf_free(): what is left of H.
\* (Mutated: it goes on behind a pbuf that stays.)
FreedWholeChain(H, p) ==
  LET c == ToSet(Chain(H, p))
      dropped == [q \in DOMAIN H |-> [H[q] EXCEPT !.ref = IF q \in c THEN @ - 1 ELSE @]]
  IN  RestrictDomain(dropped, LAMBDA q : dropped[q].ref > 0)
Freed(H, p) ==
  LET c == Chain(H, p)
      last == LeastOf({i \in DOMAIN c : H[c[i]].ref # 1}, Len(c) + 1)
      gone == {c[i] : i \in 1 .. last - 1}
      rest == Restrict(H, DOMAIN H \ gone)
  IN  IF last > Len(c) THEN rest ELSE [rest EXCEPT ![c[last]].ref = @ - 1]

\* The loop of the case PBUF_POOL: addr is the chain, each pbuf with what
\* remains to be allocated from it on.
WithPoolChain(H, layer, length, addr) ==
  LET room(i) == IF i = 1 THEN PoolSize - Align(layer) ELSE PoolSize
      before(i) == IF i = 1 THEN 0 ELSE room(1) + (i - 2) * PoolSize
      len(i) == IF length - before(i) < room(i) THEN length - before(i) ELSE room(i)
      taken(i) == [Alloced(TRUE, IF i = 1 THEN Align(layer) ELSE 0, Fresh(len(i)),
                           length - before(i))
                     EXCEPT !.next = IF i < Len(addr) THEN addr[i + 1] ELSE NULL]
  IN  [p \in DOMAIN H \cup ToSet(addr) |->
         IF p \in ToSet(addr) THEN taken(CHOOSE i \in DOMAIN addr : addr[i] = p) ELSE H[p]]

\* The number of pool pbufs a length takes; at least one.
PoolCount(layer, length) ==
  LET first == PoolSize - Align(layer)
  IN  IF length <= first THEN 1 ELSE 1 + (length - first + PoolSize - 1) \div PoolSize

Unused == Addresses \ DOMAIN pbufs
Orders(S, n) == {addr \in [1 .. n -> S] : IsInjective(addr)}

-----------------------------------------------------------------------------
(* Reading.                                                                *)

\* pbuf_skip(), pbuf_skip_const(): the pbuf that has the byte at an offset, and
\* where it has it.
Skip(H, p, offset) ==
  LET c == Chain(H, p)
      i == LeastOf({j \in DOMAIN c : Before(H, c, j) + H[c[j]].len > offset}, 0)
  IN  IF i = 0 THEN [q |-> NULL, offset |-> offset - Len(Content(H, p))]
      ELSE [q |-> c[i], offset |-> offset - Before(H, c, i)]

Smaller(a, b) == IF a < b THEN a ELSE b

\* pbuf_copy_partial(): the bytes copied.
\* (Mutated: the offset is applied to every pbuf.)
CopyPartialEachOffset(H, p, length, offset) ==
  FoldLeft(LAMBDA out, q : out \o SubSeq(Payload(H, q), offset + 1, H[q].len),
           <<>>, Chain(H, p))
CopyPartial(H, p, length, offset) ==
  LET copied[at \in (DOMAIN H \cup {NULL}) \X Nat \X Nat] ==
        LET q == at[1]
            off == at[2]
            left == at[3]
            n == Smaller(H[q].len - off, left)
        IN  IF q = NULL \/ left = 0 THEN <<>>
            ELSE IF off # 0 /\ off >= H[q].len THEN copied[<<H[q].next, off - H[q].len, left>>]
            ELSE SubSeq(Payload(H, q), off + 1, off + n) \o copied[<<H[q].next, 0, left - n>>]
  IN  copied[<<p, offset, length>>]

\* pbuf_get_contiguous(), with or without a buffer to copy into; <<>> for NULL.
GetContiguous(H, p, buffered, length, offset) ==
  LET at == Skip(H, p, offset)
      copied == CopyPartial(H, at.q, length, at.offset)
  IN  IF at.q = NULL THEN <<>>
      ELSE IF H[at.q].len >= at.offset + length
           THEN SubSeq(Payload(H, at.q), at.offset + 1, at.offset + length)
      ELSE IF ~buffered \/ Len(copied) # length THEN <<>>
      ELSE copied

\* pbuf_try_get_at(): the byte, or none.
ByteAt(H, at) == IF at.q = NULL THEN {} ELSE {Payload(H, at.q)[at.offset + 1]}
TryGetAt(H, p, offset) == ByteAt(H, Skip(H, p, offset))

\* pbuf_get_at()
OrZero(byte) == IF byte = {} THEN 0 ELSE CHOOSE b \in byte : TRUE
GetAt(H, p, offset) == OrZero(TryGetAt(H, p, offset))

NotFound == Width - 1  \* 0xFFFF

\* pbuf_memcmp()
Memcmp(H, p, offset, bytes) ==
  LET at == Skip(H, p, offset)
  IN  IF H[p].tot_len < offset + Len(bytes) THEN NotFound
      ELSE LeastOf({i \in DOMAIN bytes : GetAt(H, at.q, at.offset + i - 1) # bytes[i]}, 0)

\* pbuf_memfind()
Memfind(H, p, bytes, start) ==
  LeastOf({i \in start .. H[p].tot_len - Len(bytes) : Memcmp(H, p, i, bytes) = 0}, NotFound)

\* pbuf_strstr(); bytes has no terminating zero.
Strstr(H, p, bytes) ==
  IF bytes = <<>> \/ H[p].tot_len = NotFound THEN NotFound ELSE Memfind(H, p, bytes, 0)

-----------------------------------------------------------------------------
(* Writing: the heap afterwards and the error.                             *)

\* Bytes put into the payload of a pbuf at an offset.
Filled(b, offset, bytes) ==
  [b EXCEPT !.mem = [i \in DOMAIN @ |->
     LET j == i - b.payload - offset IN IF j \in DOMAIN bytes THEN bytes[j] ELSE @[i]]]
Put(H, p, offset, bytes) == [H EXCEPT ![p] = Filled(@, offset, bytes)]

\* pbuf_take(): each pbuf of the chain gets as much of what is left as it holds.
Take(H, p, bytes) ==
  LET c == Chain(H, p)
      fill(i) == LET done == Smaller(Before(H, c, i), Len(bytes))
                     n == Smaller(Len(bytes) - done, H[c[i]].len)
                 IN  Filled(H[c[i]], 0, SubSeq(bytes, done + 1, done + n))
  IN  IF p = NULL THEN [err |-> "ARG", H |-> H]
      ELSE IF H[p].tot_len < Len(bytes) THEN [err |-> "MEM", H |-> H]
      ELSE [err |-> "OK", H |-> [q \in DOMAIN H |->
              IF q \in ToSet(c) THEN fill(CHOOSE i \in DOMAIN c : c[i] = q) ELSE H[q]]]

\* pbuf_take_at(); nothing can be taken behind the last byte, not even nothing.
TakeAt(H, p, bytes, offset) ==
  LET at == Skip(H, p, offset)
      first == Smaller(H[at.q].len - at.offset, Len(bytes))
      begun == Put(H, at.q, at.offset, SubSeq(bytes, 1, first))
  IN  IF at.q = NULL THEN [err |-> "MEM", H |-> H]
      ELSE IF H[at.q].tot_len < at.offset + Len(bytes) THEN [err |-> "MEM", H |-> H]
      ELSE IF first = Len(bytes) THEN [err |-> "OK", H |-> begun]
      ELSE Take(begun, H[at.q].next, SubSeq(bytes, first + 1, Len(bytes)))

\* pbuf_put_at()
PutAt(H, p, offset, byte) ==
  LET at == Skip(H, p, offset) IN IF at.q = NULL THEN H ELSE Put(H, at.q, at.offset, <<byte>>)

\* A turn of the loop of pbuf_copy_partial_pbuf().  A pbuf that ends its packet
\* (len = tot_len) must not be followed by another one.
Queued(H, q) == q # NULL /\ H[q].len = H[q].tot_len /\ H[q].next # NULL
CopyTurn(st) ==
  LET n == Smaller(st.left, Smaller(st.H[st.to].len - st.offsetTo,
                                    st.H[st.from].len - st.offsetFrom))
      bytes == SubSeq(Payload(st.H, st.from), st.offsetFrom + 1, st.offsetFrom + n)
      left == st.left - n
      toFull == st.offsetTo + n = st.H[st.to].len
      fromDone == st.offsetFrom + n >= st.H[st.from].len
      to == IF toFull THEN st.H[st.to].next ELSE st.to
      from == IF fromDone THEN st.H[st.from].next ELSE st.from
  IN  [H |-> Put(st.H, st.to, st.offsetTo, bytes), to |-> to, from |-> from, left |-> left,
       offsetTo |-> IF toFull THEN 0 ELSE st.offsetTo + n,
       offsetFrom |-> IF fromDone THEN 0 ELSE st.offsetFrom + n,
       err |-> IF NULL \in {to, from} /\ left > 0 THEN "ARG"
               ELSE IF Queued(st.H, from) \/ Queued(st.H, to) THEN "VAL"
               ELSE IF left > 0 THEN "again" ELSE "OK"]

\* pbuf_copy_partial_pbuf(), for an offset within the first pbuf of the target.
CopyPartialPbuf(H, to, from, n, offset) ==
  LET start == [H |-> H, to |-> to, from |-> from, left |-> n, offsetTo |-> offset,
                offsetFrom |-> 0, err |-> "again"]
      turns == Clen(H, to) + Clen(H, from) + 1
      after[i \in 0 .. turns] ==
        IF i = 0 THEN start
        ELSE IF after[i - 1].err = "again" THEN CopyTurn(after[i - 1]) ELSE after[i - 1]
  IN  IF H[from].tot_len < n \/ H[to].tot_len < offset + n THEN [err |-> "ARG", H |-> H]
      ELSE [err |-> after[turns].err, H |-> after[turns].H]

\* pbuf_copy()
CopyPbuf(H, to, from) == CopyPartialPbuf(H, to, from, H[from].tot_len, 0)

\* pbuf_clone() into a new PBUF_RAM pbuf; the error of the copy is not looked at.
Cloned(H, layer, p, new) == CopyPbuf(With(H, new, AllocedRam(layer, H[p].tot_len)), new, p).H

-----------------------------------------------------------------------------
(* Changing lengths.                                                       *)

\* pbuf_realloc()
\* (Mutated: the pbufs before the new last one keep their tot_len.)
ReallocedLastOnly(H, p, new_len) ==
  LET at == Skip(H, p, new_len - 1)
      rem == IF new_len = 0 THEN 0 ELSE at.offset + 1
      q == IF new_len = 0 THEN p ELSE at.q
      cut == [H EXCEPT ![q].len = rem, ![q].tot_len = rem, ![q].next = NULL]
  IN  IF new_len >= H[p].tot_len THEN H
      ELSE IF H[q].next = NULL THEN cut ELSE Freed(cut, H[q].next)
Realloced(H, p, new_len) ==
  LET c == Chain(H, p)
      last == CHOOSE i \in DOMAIN c : /\ Before(H, c, i) + H[c[i]].len >= new_len
                                      /\ \A j \in 1 .. i - 1 :
                                           Before(H, c, j) + H[c[j]].len < new_len
      rem == new_len - Before(H, c, last)
      kept == {c[i] : i \in 1 .. last - 1}
      shrink == H[p].tot_len - new_len
      shrunk == [q \in DOMAIN H |->
                   IF q \in kept THEN [H[q] EXCEPT !.tot_len = (@ - shrink) % Width]
                   ELSE IF q = c[last]
                        THEN [H[q] EXCEPT !.len = rem, !.tot_len = rem, !.next = NULL,
                                          !.mem = SubSeq(@, 1, H[q].payload + rem)]
                   ELSE H[q]]
  IN  IF new_len >= H[p].tot_len THEN H
      ELSE IF last = Len(c) THEN shrunk
      ELSE Freed(shrunk, c[last + 1])

\* pbuf_add_header_impl(), for pbuf_add_header() and pbuf_add_header_force().
HeaderAdded(H, p, n, force) ==
  IF \/ n = 0 \/ (n + H[p].tot_len) % Width < n
     \/ IF H[p].contiguous THEN n > H[p].payload ELSE ~force
  THEN H
  ELSE [H EXCEPT ![p].payload = @ - n, ![p].len = @ + n, ![p].tot_len = @ + n]

\* pbuf_remove_header()
HeaderRemoved(H, p, n) ==
  IF n = 0 \/ n > H[p].len THEN H
  ELSE [H EXCEPT ![p].payload = @ + n, ![p].len = @ - n, ![p].tot_len = (@ - n) % Width]

\* pbuf_header(), pbuf_header_force()
HeaderMoved(H, p, n, force) ==
  IF n < 0 THEN HeaderRemoved(H, p, -n) ELSE HeaderAdded(H, p, n, force)

\* The pbufs of the chain pbuf_free_header() drops for a number of bytes.
Covered(H, p, n) ==
  LET c == Chain(H, p)
  IN  {c[i] : i \in {j \in DOMAIN c : Before(H, c, j) < n /\ Before(H, c, j) + H[c[j]].len <= n}}

\* pbuf_cat()
Concatenated(H, h, t) ==
  LET c == ToSet(Chain(H, h))
  IN  [q \in DOMAIN H |->
         IF q \notin c THEN H[q]
         ELSE [H[q] EXCEPT !.tot_len = (@ + H[t].tot_len) % Width,
                           !.next = IF @ = NULL THEN t ELSE @]]

-----------------------------------------------------------------------------
(* The calls.                                                              *)

Init ==
  /\ pbufs = <<>>
  /\ held = [p \in Addresses |-> 0]

Held(p) == p \in DOMAIN pbufs /\ held[p] > 0

\* pbuf_alloc(), PBUF_RAM; without memory nothing changes.
AllocRam(layer, length) ==
  \E p \in Unused :
    /\ pbufs' = With(pbufs, p, AllocedRam(layer, length))
    /\ held' = [held EXCEPT ![p] = 1]

\* pbuf_alloc(), PBUF_POOL: when the pool ends in the middle, what has been
\* taken is given back.
AllocPool(layer, length) ==
  LET n == PoolCount(layer, length)
  IN  \E addr \in Orders(Unused, Smaller(n, Cardinality(Unused))) :
        LET taken == WithPoolChain(pbufs, layer, length, addr)
        IN  /\ addr # <<>>
            /\ IF Len(addr) = n
               THEN /\ pbufs' = taken
                    /\ held' = [held EXCEPT ![addr[1]] = 1]
               ELSE /\ pbufs' = Freed(taken, addr[1])
                    /\ UNCHANGED held

\* pbuf_alloc_reference(), and pbuf_alloc() once the payload is set.
AllocReference(mem) ==
  \E p \in Unused :
    /\ pbufs' = With(pbufs, p, Alloced(FALSE, 0, mem, Len(mem)))
    /\ held' = [held EXCEPT ![p] = 1]

\* pbuf_free()
Drop(p) ==
  /\ Held(p)
  /\ pbufs' = Freed(pbufs, p)
  /\ held' = [held EXCEPT ![p] = @ - 1]

\* pbuf_ref(), by who has found the pbuf in a chain.
Ref(p) ==
  /\ p \in DOMAIN pbufs /\ held[p] < MaxHeld
  /\ pbufs' = [pbufs EXCEPT ![p].ref = @ + 1]
  /\ held' = [held EXCEPT ![p] = @ + 1]

\* Two chains of which the first may be continued by the second.
MayFollow(h, t) ==
  /\ Held(h) /\ Held(t) /\ Exclusive(h)
  /\ ToSet(Chain(pbufs, h)) \cap ToSet(Chain(pbufs, t)) = {}
  /\ pbufs[h].tot_len + pbufs[t].tot_len < Width

Cat(h, t) ==
  /\ MayFollow(h, t)
  /\ pbufs' = Concatenated(pbufs, h, t)
  /\ held' = [held EXCEPT ![t] = @ - 1]

\* pbuf_chain()
ChainUp(h, t) ==
  /\ MayFollow(h, t)
  /\ pbufs' = [Concatenated(pbufs, h, t) EXCEPT ![t].ref = @ + 1]
  /\ UNCHANGED held

\* pbuf_dechain()
Dechain(p) ==
  /\ Held(p) /\ Exclusive(p)
  /\ LET q == pbufs[p].next
     IN  pbufs' = IF q = NULL THEN pbufs
                  ELSE Freed([pbufs EXCEPT ![p].next = NULL, ![p].tot_len = pbufs[p].len,
                                           ![q].tot_len = (pbufs[p].tot_len - pbufs[p].len) % Width], q)
  /\ UNCHANGED held

Realloc(p, new_len) ==
  /\ Held(p) /\ Exclusive(p)
  /\ pbufs' = Realloced(pbufs, p, new_len)
  /\ UNCHANGED held

\* Contract: external memory is revealed, by force, only if it was hidden.
Reveals(p, n, force) == ~pbufs[p].contiguous /\ force => n <= pbufs[p].payload
Header(p, n, force) ==
  /\ Held(p) /\ Exclusive(p)
  /\ Reveals(p, n, force)
  /\ pbufs' = HeaderMoved(pbufs, p, n, force)
  /\ UNCHANGED held

\* pbuf_free_header(), by the only user of the pbufs it drops: the caller's
\* pointer becomes one to the first pbuf that stays.
FreeHeader(p, n) ==
  LET gone == Covered(pbufs, p, n)
      c == Chain(pbufs, p)
      rest == Restrict(pbufs, DOMAIN pbufs \ gone)
      stays == Cardinality(gone) + 1
  IN  /\ Held(p) /\ Exclusive(p) /\ n > 0
      /\ \A q \in gone : pbufs[q].ref = 1
      /\ stays \in 2 .. Len(c) => held[c[stays]] < MaxHeld
      /\ pbufs' = IF stays > Len(c) THEN rest
                  ELSE HeaderRemoved(rest, c[stays], n - Before(pbufs, c, stays))
      /\ held' = [q \in Addresses |->
                    IF stays = 1 THEN held[q]
                    ELSE IF q = p THEN held[q] - 1
                    ELSE IF stays <= Len(c) /\ q = c[stays] THEN held[q] + 1
                    ELSE held[q]]

\* pbuf_take(), pbuf_take_at() and pbuf_put_at()
Write(p, bytes, offset) ==
  /\ Held(p)
  /\ pbufs' \in {TakeAt(pbufs, p, bytes, offset).H, Take(pbufs, p, bytes).H}
                 \cup {PutAt(pbufs, p, offset, byte) : byte \in ToSet(bytes)}
  /\ UNCHANGED held

Copy(to, from) ==
  /\ Held(to) /\ Held(from)
  /\ ToSet(Chain(pbufs, to)) \cap ToSet(Chain(pbufs, from)) = {}
  /\ pbufs' = CopyPbuf(pbufs, to, from).H
  /\ UNCHANGED held

Clone(layer, p) ==
  /\ Held(p)
  /\ \E new \in Unused :
       /\ pbufs' = Cloned(pbufs, layer, p, new)
       /\ held' = [held EXCEPT ![new] = 1]

\* pbuf_coalesce(); without memory, or for a single pbuf, nothing changes.
Coalesce(layer, p) ==
  /\ Held(p) /\ pbufs[p].next # NULL
  /\ \E new \in Unused :
       /\ pbufs' = Freed(Cloned(pbufs, layer, p, new), p)
       /\ held' = [held EXCEPT ![new] = 1, ![p] = @ - 1]

Next ==
  \/ \E layer \in Layers, n \in 0 .. MaxLen : AllocRam(layer, n) \/ AllocPool(layer, n)
  \/ \E mem \in External : AllocReference(mem)
  \/ \E p \in DOMAIN pbufs :
       \/ Drop(p) \/ Ref(p) \/ Dechain(p)
       \/ \E n \in 0 .. pbufs[p].tot_len : Realloc(p, n) \/ FreeHeader(p, n)
       \/ \E n \in -MaxLen .. MaxLen, force \in BOOLEAN : Header(p, n, force)
       \/ \E bytes \in Data, offset \in 0 .. pbufs[p].tot_len : Write(p, bytes, offset)
       \/ \E layer \in Layers : Clone(layer, p) \/ Coalesce(layer, p)
       \/ \E q \in DOMAIN pbufs \ {p} : Cat(p, q) \/ ChainUp(p, q) \/ Copy(p, q)

Spec == Init /\ [][Next]_pbufVars

-----------------------------------------------------------------------------
(* Properties.                                                             *)

\* pbuf.h: "the reference count always equals the number of pointers that refer
\* to this pbuf", those of users and those of other pbufs: nothing is freed that
\* somebody points to, and nothing stays that nobody points to, whatever the
\* order of the calls.
RefsArePointers ==
  /\ \A p \in DOMAIN pbufs : /\ pbufs[p].ref = held[p] + Cardinality(LinksTo(pbufs, p))
                             /\ pbufs[p].ref > 0
                             /\ pbufs[p].next \in DOMAIN pbufs \cup {NULL}
  /\ \A p \in Addresses \ DOMAIN pbufs : held[p] = 0

\* pbuf.h: "p->tot_len == p->len + (p->next? p->next->tot_len: 0)", as long as the
\* length fits its 16 bits, in every chain after every call, those that share a
\* tail included; and no header operation moves a payload out of its buffer.
ChainsWellFormed ==
  \A p \in DOMAIN pbufs :
    /\ pbufs[p].payload \in 0 .. Len(pbufs[p].mem) - pbufs[p].len
    /\ pbufs[p].tot_len = Len(Content(pbufs, p)) % Width

Overlaid(s, bytes, offset) ==
  [i \in DOMAIN s |-> IF i - offset \in DOMAIN bytes THEN bytes[i - offset] ELSE s[i]]

\* What functions do to payload does not depend on its bytes; a heap of the same
\* shape whose bytes all differ shows where each of them went.
Labelled == [p \in DOMAIN pbufs |-> [pbufs[p] EXCEPT !.mem = [i \in DOMAIN @ |-> <<p, i>>]]]

\* Reading a chain at an offset is reading the one sequence of bytes it holds,
\* wherever the pbufs end.
ReadsAreFlat(H, p) ==
  LET s == Content(H, p)
  IN  \A offset \in 0 .. Len(s) + 1, n \in 0 .. Len(s) :
        LET part == SubSeq(s, offset + 1, Smaller(offset + n, Len(s)))
            whole == IF offset < Len(s) /\ offset + n <= Len(s) THEN part ELSE <<>>
        IN  /\ CopyPartial(H, p, n, offset) = part
            /\ GetContiguous(H, p, TRUE, n, offset) = whole
            /\ GetContiguous(H, p, FALSE, n, offset) \in {<<>>, whole}
            /\ TryGetAt(H, p, offset) = ToSet(SubSeq(s, offset + 1, Smaller(offset + 1, Len(s))))

\* The places of bytes in a sequence, from a start on.
PlacesOf(s, bytes, start) ==
  {i \in start .. Len(s) - Len(bytes) : SubSeq(s, i + 1, i + Len(bytes)) = bytes}

\* So is searching.
SearchesAreFlat(H, p) ==
  LET s == Content(H, p)
  IN  \A bytes \in SubSeqs(s) \cup {Reverse(s)}, start \in 0 .. Len(s) :
        LET found == PlacesOf(s, bytes, start)
        IN  /\ Memfind(H, p, bytes, start) = LeastOf(found, NotFound)
            /\ start = 0 /\ bytes # <<>> /\ Len(s) # NotFound =>
                 Strstr(H, p, bytes) = LeastOf(found, NotFound)

\* Data taken into a chain overlay what it holds, or nothing is changed.
WritesAreFlat(H, p) ==
  LET s == Content(H, p)
  IN  \A n \in 0 .. Len(s) + 1, offset \in 0 .. Len(s) :
        LET bytes == [i \in 1 .. n |-> <<NULL, i>>]
            put == TakeAt(H, p, bytes, offset)
        IN  /\ IF offset < Len(s) /\ offset + n <= Len(s)
               THEN put.err = "OK" /\ Content(put.H, p) = Overlaid(s, bytes, offset)
               ELSE put = [err |-> "MEM", H |-> H]
            /\ n > 0 /\ offset = 0 => Take(H, p, bytes) = put
            /\ n = 1 => Content(PutAt(H, p, offset, bytes[1]), p) = Overlaid(s, bytes, offset)

\* So do bytes copied from the chain to another one.
CopiesAreFlat(H, p, q) ==
  LET s == Content(H, p)
      t == Content(H, q)
  IN  \A n \in 0 .. Len(s), offset \in 0 .. H[q].len :
        LET copy == CopyPartialPbuf(H, q, p, n, offset)
        IN  /\ (copy.err = "ARG") = (offset + n > Len(t))
            /\ copy.err = "OK" => Content(copy.H, q) = Overlaid(t, SubSeq(s, 1, n), offset)

\* A clone has the content of the chain, unless empty pbufs end it: those are
\* taken for a queue, and the copy stops.
ClonesAreFlat(H, p) ==
  LET c == Chain(H, p)
  IN  (\A i \in 2 .. Len(c) - 1 : H[c[i]].len # H[c[i]].tot_len) =>
        \A new \in Addresses \ DOMAIN H : Content(Cloned(H, 0, p, new), new) = Content(H, p)

\* The functions on payload look at no chain but those they are called with, and
\* at no reference count: they are tried on heaps that are one or two chains held
\* by their heads only.
HeapIsFlat(H) ==
  LET Heads == {p \in DOMAIN H : held[p] > 0}
      pbufsOf(p) == ToSet(Chain(H, p))
  IN  (\A p \in DOMAIN H : H[p].ref = 1) =>
        /\ \A p \in Heads : pbufsOf(p) = DOMAIN H =>
             /\ ReadsAreFlat(H, p) /\ SearchesAreFlat(H, p)
             /\ WritesAreFlat(H, p) /\ ClonesAreFlat(H, p)
        /\ \A p, q \in Heads : p # q /\ Heads = {p, q} => CopiesAreFlat(H, p, q)
=============================================================================
