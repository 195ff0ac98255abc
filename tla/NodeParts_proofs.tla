------------------------- MODULE NodeParts_proofs --------------------------
(***************************************************************************)
(* Proofs about NodeAccess: the scalars of MIB-2, for every buffer, text   *)
(* and number written; the handlers, for any number of them and any        *)
(* prefixes; and the tables of MIB-2, for any interfaces and control       *)
(* blocks in any order.                                                    *)
(***************************************************************************)
EXTENDS NodeAccess, SequenceTheorems, WellFoundedInduction, TLAPS

-----------------------------------------------------------------------------
(* Texts in buffers.                                                       *)

\* Of some numbers one is the least.
LEMMA LeastNatural ==
  ASSUME NEW S \in SUBSET Nat, S # {}
  PROVE  \E x \in S : \A y \in S : x <= y
<1> DEFINE R == {ss \in Nat \X Nat : ss[1] < ss[2]}
<1>1. IsWellFoundedOn(R, Nat)
  BY NatLessThanWellFounded, Zenon DEF OpToRel
<1>2. \E x \in S : \A y \in S : ~ (<<y, x>> \in R)
  BY <1>1, WFMin
<1>3. \A x \in Nat, y \in Nat : <<y, x>> \in R <=> y < x
  OBVIOUS
<1>4. PICK x \in S : \A y \in S : ~ (y < x)
  BY <1>2, <1>3
<1>5. \A y \in S : x <= y
  BY <1>4
<1>6. QED
  BY <1>5

\* It is the one a CHOOSE finds.
LEMMA LeastChosen ==
  ASSUME NEW S \in SUBSET Nat, NEW x \in S, \A y \in S : x <= y
  PROVE  (CHOOSE i \in S : \A j \in S : i <= j) = x
<1>1. PICK c : c = CHOOSE i \in S : \A j \in S : i <= j
  OBVIOUS
<1>2. c \in S /\ \A j \in S : c <= j
  BY <1>1
<1>3. c <= x /\ x <= c /\ c \in Nat /\ x \in Nat
  BY <1>2
<1>4. c = x
  BY <1>3
<1>5. QED
  BY <1>1, <1>4

\* The beginning of a sequence is a sequence.
LEMMA Beginning ==
  ASSUME NEW S, NEW t \in Seq(S), NEW j \in Nat, j <= Len(t)
  PROVE  SubSeq(t, 1, j) \in Seq(S)
<1>1. \A i \in 1 .. j : t[i] \in S
  OBVIOUS
<1>2. QED
  BY <1>1, SubSeqProperties

\* A buffer that begins with a text.
LEMMA BeginsWith ==
  ASSUME NEW n \in Nat, NEW b \in [1 .. n -> 0 .. 255], NEW v \in Seq(0 .. 255), Len(v) <= n,
         \A i \in 1 .. Len(v) : b[i] = v[i]
  PROVE  SubSeq(b, 1, Len(v)) = v
<1>1. PICK k \in Nat : k = Len(v)
  OBVIOUS
<1>2. Len(SubSeq(b, 1, k)) = k /\ \A i \in 1 .. k : SubSeq(b, 1, k)[i] = v[i]
  BY <1>1
<1>3. SubSeq(b, 1, k) \in Seq(0 .. 255)
  <2>1. b \in Seq(0 .. 255) /\ k <= Len(b)
    BY <1>1
  <2>2. QED
    BY <2>1, Beginning
<1>4. QED
  BY <1>1, <1>2, <1>3

\* Where the first octets of a buffer are a text and its terminating 0, reading up to a 0
\* gives what reading the text up to a 0 gives.
LEMMA ReadUpToZero ==
  ASSUME NEW n \in Nat, NEW b \in [1 .. n -> 0 .. 255], NEW v \in Seq(0 .. 255), Len(v) < n,
         \A i \in 1 .. Len(v) : b[i] = v[i], b[Len(v) + 1] = 0
  PROVE  UpToZero(b) = UpToZero(v)
<1>1. PICK k \in Nat : k = Len(v)
  OBVIOUS
<1>2. PICK Z : Z = {i \in DOMAIN b : b[i] = 0}
  OBVIOUS
<1>3. PICK Y : Y = {i \in DOMAIN v : v[i] = 0}
  OBVIOUS
<1>4. DOMAIN b = 1 .. n /\ DOMAIN v = 1 .. k /\ b \in Seq(0 .. 255)
  BY <1>1
<1>5. /\ Z \subseteq Nat /\ Y \subseteq Nat /\ k + 1 \in Z
      /\ \A i \in 1 .. k : i \in Z <=> i \in Y
      /\ \A i \in Y : i \in 1 .. k
  BY <1>1, <1>2, <1>3, <1>4
<1>6. CASE Y = {}
  <2>1. \A j \in Z : k + 1 <= j
    BY <1>2, <1>4, <1>5, <1>6
  <2>2. (CHOOSE i \in Z : \A j \in Z : i <= j) = k + 1
    BY <1>5, <2>1, LeastChosen
  <2>3. UpToZero(b) = SubSeq(b, 1, k)
    <3>1. UpToZero(b) = SubSeq(b, 1, (k + 1) - 1)
      BY <1>2, <1>5, <2>2 DEF UpToZero
    <3>2. QED
      BY <1>1, <3>1
  <2>4. SubSeq(b, 1, k) = v
    <3>1. Len(SubSeq(b, 1, k)) = k /\ \A i \in 1 .. k : SubSeq(b, 1, k)[i] = v[i]
      BY <1>1, <1>4
    <3>2. SubSeq(b, 1, k) \in Seq(0 .. 255)
      BY <1>1, <1>4
    <3>3. QED
      BY <1>1, <3>1, <3>2
  <2>5. QED
    BY <1>3, <1>6, <2>3, <2>4 DEF UpToZero
<1>7. CASE Y # {}
  <2>1. PICK y \in Y : \A j \in Y : y <= j
    <3>1. Y \in SUBSET Nat
      BY <1>5
    <3>2. QED
      BY <1>7, <3>1, LeastNatural
  <2>2. y \in 1 .. k /\ y \in Z
    BY <1>5, <2>1
  <2>3. \A j \in Z : y <= j
    BY <1>1, <1>2, <1>4, <1>5, <2>1, <2>2
  <2>4. (CHOOSE i \in Z : \A j \in Z : i <= j) = y
    BY <1>5, <2>2, <2>3, LeastChosen
  <2>5. (CHOOSE i \in Y : \A j \in Y : i <= j) = y
    BY <1>5, <2>1, LeastChosen
  <2>6. UpToZero(b) = SubSeq(b, 1, y - 1)
    BY <1>2, <1>5, <2>4 DEF UpToZero
  <2>7. UpToZero(v) = SubSeq(v, 1, y - 1)
    BY <1>3, <1>7, <2>5 DEF UpToZero
  <2>8. SubSeq(b, 1, y - 1) = SubSeq(v, 1, y - 1)
    <3>1. PICK d \in Nat : d = y - 1 /\ d < k
      BY <2>2
    <3>2. /\ Len(SubSeq(b, 1, d)) = d /\ Len(SubSeq(v, 1, d)) = d
          /\ \A i \in 1 .. d : SubSeq(b, 1, d)[i] = SubSeq(v, 1, d)[i]
      BY <1>1, <1>4, <3>1
    <3>3. SubSeq(b, 1, d) \in Seq(0 .. 255) /\ SubSeq(v, 1, d) \in Seq(0 .. 255)
      <4>1. Len(b) = n /\ d <= n /\ d <= Len(v)
        BY <1>1, <1>4, <3>1
      <4>2. QED
        BY <1>4, <3>1, <4>1, Beginning
    <3>4. SubSeq(b, 1, d) = SubSeq(v, 1, d)
      BY <3>2, <3>3
    <3>5. QED
      BY <3>1, <3>4
  <2>9. QED
    BY <2>6, <2>7, <2>8
<1>8. QED
  BY <1>6, <1>7

-----------------------------------------------------------------------------
(* The scalars.                                                            *)

Varbinds == UNION {{<<o, v>> : v \in ValuesFor(o)} : o \in Writable}

\* The setters give a value that may be written a buffer of its own.
SettingsTyped ==
  /\ setting \in [Names -> [own : BOOLEAN, len : BOOLEAN, writable : BOOLEAN,
                            bufsize : 0 .. BufferSize]]
  /\ \A x \in Names : setting[x].bufsize # 0 => setting[x].own /\ setting[x].writable
MemoryTyped == memory \in [Names -> [octets : [1 .. BufferSize -> 0 .. 255], len : Nat]]

\* The varbinds that wait for the second pass would pass the test again: no setter is called
\* in between.
PendingTested ==
  /\ pending \in Seq(Varbinds)
  /\ \A i \in 1 .. Len(pending) : SetTest(pending[i][1], pending[i][2]) = "NOERROR"

\* The memory of an object has the value v as SET writes it.
HoldsText(x, v) ==
  /\ setting[x].own = TRUE /\ setting[x].writable = TRUE
  /\ \A i \in 1 .. Len(v) : memory[x].octets[i] = v[i]
  /\ setting[x].len = TRUE => memory[x].len = Len(v) /\ Len(v) <= BufferSize
  /\ setting[x].len = FALSE => Len(v) < BufferSize /\ memory[x].octets[Len(v) + 1] = 0
Holds(o, v) ==
  /\ o[1] = "system" => HoldsText(o[2], v)
  /\ o = EnableAuthenTraps => v[1] \in {1, 2} /\ auth_traps = (v[1] # 2)
  /\ o = Forwarding => v[1] = 2
  /\ o = TimeToLive => v[1] = DefaultTTL

WrittenHeld ==
  /\ DOMAIN wrote = Writable
  /\ \A o \in Writable : wrote[o] = Nothing \/ \E v \in ValuesFor(o) : wrote[o] = <<v>> /\ Holds(o, v)

ScalarsIInv ==
  /\ SettingsTyped /\ MemoryTyped /\ PendingTested /\ WrittenHeld
  /\ outside = FALSE /\ auth_traps \in BOOLEAN

\* The objects that can be written.
LEMMA WritableObjects ==
  ASSUME NEW o \in Writable
  PROVE  \/ o[1] = "system" /\ o[2] \in Names /\ o = Contact(o[2])
         \/ o \in {EnableAuthenTraps, Forwarding, TimeToLive} /\ o[1] # "system"
BY DEF Writable, Contact, EnableAuthenTraps, Forwarding, TimeToLive

\* Texts are texts, and the other values are numbers.
LEMMA ValuesTyped ==
  ASSUME NEW o \in Writable, NEW v \in ValuesFor(o)
  PROVE  /\ o[1] = "system" => v \in Seq(0 .. 255)
         /\ o[1] # "system" => \E n : v = <<n>>
BY ScalarsAssumption DEF ValuesFor, ScalarsAssumption

\* What SET has written is what GET returns.
LEMMA HeldIsRead ==
  ASSUME ScalarsIInv
  PROVE  SetsReadBack
<1>1. ASSUME NEW o \in Writable, wrote[o] # Nothing
      PROVE  /\ IF o[1] = "system" /\ ~setting[o[2]].len
                THEN ScalarValue(o) = UpToZero(wrote[o][1])
                ELSE ScalarValue(o) = wrote[o][1]
             /\ o[1] = "system" => setting[o[2]].writable
  <2>1. PICK v \in ValuesFor(o) : wrote[o] = <<v>> /\ Holds(o, v)
    BY <1>1 DEF ScalarsIInv, WrittenHeld
  <2>2. wrote[o][1] = v
    BY <2>1
  <2>3. CASE o[1] = "system"
    <3>1. PICK x \in Names : o = Contact(x) /\ o[2] = x
      BY <2>3, WritableObjects
    <3>2. ScalarValue(o) = Text(x) /\ HoldsText(x, v)
      <4>1. o # EnableAuthenTraps /\ o # Forwarding /\ o # TimeToLive
        BY <2>3 DEF EnableAuthenTraps, Forwarding, TimeToLive
      <4>2. ScalarValue(o) = Text(x)
        BY <2>3, <3>1, <4>1 DEF ScalarValue
      <4>3. QED
        BY <2>1, <2>3, <3>1, <4>2 DEF Holds
    <3>3. v \in Seq(0 .. 255)
      BY <2>1, <2>3, ValuesTyped
    <3>4. /\ memory[x].octets \in [1 .. BufferSize -> 0 .. 255]
          /\ setting[x].own \in BOOLEAN /\ setting[x].len \in BOOLEAN
          /\ setting[x].writable \in BOOLEAN /\ BufferSize \in Nat
      BY ScalarsAssumption DEF ScalarsIInv, SettingsTyped, MemoryTyped, ScalarsAssumption
    <3>5. CASE setting[x].len = TRUE
      <4>1. Text(x) = SubSeq(memory[x].octets, 1, Len(v))
        BY <3>2, <3>5 DEF Text, HoldsText
      <4>2. SubSeq(memory[x].octets, 1, Len(v)) = v
        BY <3>2, <3>3, <3>4, <3>5, BeginsWith DEF HoldsText
      <4>3. QED
        BY <2>2, <2>3, <3>1, <3>2, <3>5, <4>1, <4>2 DEF HoldsText
    <3>6. CASE setting[x].len = FALSE
      <4>1. Text(x) = UpToZero(memory[x].octets)
        BY <3>2, <3>6 DEF Text, HoldsText
      <4>2. UpToZero(memory[x].octets) = UpToZero(v)
        <5>1. PICK b \in [1 .. BufferSize -> 0 .. 255] : b = memory[x].octets
          BY <3>4
        <5>2. Len(v) < BufferSize /\ b[Len(v) + 1] = 0 /\ \A i \in 1 .. Len(v) : b[i] = v[i]
          BY <3>2, <3>6, <5>1 DEF HoldsText
        <5>3. UpToZero(b) = UpToZero(v)
          BY <3>3, <3>4, <5>2, ReadUpToZero
        <5>4. QED
          BY <5>1, <5>3
      <4>3. QED
        BY <2>2, <2>3, <3>1, <3>2, <3>6, <4>1, <4>2 DEF HoldsText
    <3>7. QED
      BY <3>4, <3>5, <3>6
  <2>4. CASE o[1] # "system"
    <3>1. PICK n : v = <<n>>
      BY <2>1, <2>4, ValuesTyped
    <3>2. o \in {EnableAuthenTraps, Forwarding, TimeToLive}
      BY <2>4, WritableObjects
    <3>3. CASE o = EnableAuthenTraps
      <4>1. n \in {1, 2} /\ auth_traps = (n # 2)
        BY <2>1, <3>1, <3>3 DEF Holds
      <4>2. ScalarValue(o) = <<IF auth_traps THEN 1 ELSE 2>>
        BY <2>4, <3>3 DEF ScalarValue, EnableAuthenTraps, Forwarding, TimeToLive
      <4>3. ScalarValue(o) = v
        BY <3>1, <4>1, <4>2
      <4>4. QED
        BY <2>2, <2>4, <4>3
    <3>4. CASE o = Forwarding
      <4>1. ScalarValue(o) = <<2>> /\ n = 2
        BY <2>1, <2>4, <3>1, <3>4
        DEF Holds, ScalarValue, EnableAuthenTraps, Forwarding, TimeToLive
      <4>2. QED
        BY <2>2, <2>4, <3>1, <4>1
    <3>5. CASE o = TimeToLive
      <4>1. ScalarValue(o) = <<DefaultTTL>> /\ n = DefaultTTL
        BY <2>1, <2>4, <3>1, <3>5
        DEF Holds, ScalarValue, EnableAuthenTraps, Forwarding, TimeToLive
      <4>2. QED
        BY <2>2, <2>4, <3>1, <4>1
    <3>6. QED
      BY <3>2, <3>3, <3>4, <3>5
  <2>5. QED
    BY <2>3, <2>4
<1>2. \A x \in Names : Contact(x) \in Writable /\ Contact(x)[1] = "system" /\ Contact(x)[2] = x
  BY DEF Contact, Writable
<1>3. QED
  BY <1>1, <1>2 DEF SetsReadBack, ScalarsIInv

\* A buffer is still one after octets are written to it.
LEMMA OverTyped ==
  ASSUME NEW b \in [1 .. BufferSize -> 0 .. 255], NEW v \in Seq(0 .. 255)
  PROVE  /\ Over(b, v) \in [1 .. BufferSize -> 0 .. 255]
         /\ \A i \in 1 .. BufferSize : Over(b, v)[i] = IF i <= Len(v) THEN v[i] ELSE b[i]
<1>1. BufferSize \in Nat /\ Len(v) \in Nat
  BY ScalarsAssumption DEF ScalarsAssumption
<1>2. \A i \in 1 .. BufferSize : i <= Len(v) => v[i] \in 0 .. 255
  <2>1. \A i \in 1 .. Len(v) : v[i] \in 0 .. 255
    BY ElementOfSeq
  <2>2. QED
    BY <1>1, <2>1
<1>3. QED
  BY <1>1, <1>2 DEF Over

\* A call of the application gives an object a new buffer.
LEMMA ConfigureKeeps ==
  ASSUME ScalarsIInv, NEW x \in Names, NEW text \in Texts,
         NEW new \in [own : BOOLEAN, len : BOOLEAN, writable : BOOLEAN, bufsize : 0 .. BufferSize],
         new.bufsize # 0 => new.own /\ new.writable, Configure(x, new, text)
  PROVE  ScalarsIInv'
<1>1. /\ pending = <<>> /\ pending' = <<>> /\ setting' = [setting EXCEPT ![x] = new]
      /\ memory' = [memory EXCEPT ![x] = InBuffer(text)]
      /\ wrote' = [wrote EXCEPT ![Contact(x)] = Nothing]
      /\ auth_traps' = auth_traps /\ outside' = outside
  BY DEF Configure
<1>2. SettingsTyped'
  BY <1>1 DEF ScalarsIInv, SettingsTyped
<1>3. MemoryTyped'
  <2>1. text \in Seq(0 .. 255) /\ BufferSize \in Nat
    BY ScalarsAssumption DEF ScalarsAssumption
  <2>2. InBuffer(text) \in [octets : [1 .. BufferSize -> 0 .. 255], len : Nat]
    <3>1. [i \in 1 .. BufferSize |-> 0] \in [1 .. BufferSize -> 0 .. 255]
      OBVIOUS
    <3>2. Over([i \in 1 .. BufferSize |-> 0], text) \in [1 .. BufferSize -> 0 .. 255]
      BY <2>1, <3>1, OverTyped
    <3>3. Len(text) \in Nat
      BY <2>1
    <3>4. QED
      BY <3>2, <3>3 DEF InBuffer
  <2>3. QED
    BY <1>1, <2>2 DEF ScalarsIInv, MemoryTyped
<1>4. PendingTested'
  BY <1>1 DEF PendingTested
<1>5. ASSUME NEW o \in Writable
      PROVE  wrote'[o] = Nothing \/ \E v \in ValuesFor(o) : wrote'[o] = <<v>> /\ Holds(o, v)'
  <2>1. CASE o = Contact(x)
    BY <1>1, <2>1 DEF ScalarsIInv, WrittenHeld
  <2>2. CASE o # Contact(x)
    <3>1. wrote'[o] = wrote[o]
      BY <1>1, <2>2 DEF ScalarsIInv, WrittenHeld
    <3>2. ASSUME NEW v, Holds(o, v)
          PROVE  Holds(o, v)'
      <4>1. CASE o[1] = "system"
        <5>1. PICK y \in Names : o = Contact(y) /\ o[2] = y /\ y # x
          BY <2>2, <4>1, WritableObjects
        <5>2. setting'[y] = setting[y] /\ memory'[y] = memory[y]
          BY <1>1, <5>1 DEF ScalarsIInv, SettingsTyped, MemoryTyped
        <5>3. HoldsText(y, v)'
          BY <3>2, <4>1, <5>1, <5>2 DEF Holds, HoldsText
        <5>4. QED
          BY <1>1, <3>2, <5>1, <5>3 DEF Holds
      <4>2. CASE o[1] # "system"
        BY <1>1, <3>2, <4>2 DEF Holds
      <4>3. QED
        BY <4>1, <4>2
    <3>3. QED
      BY <3>1, <3>2 DEF ScalarsIInv, WrittenHeld
  <2>3. QED
    BY <2>1, <2>2
<1>6. WrittenHeld'
  BY <1>1, <1>5 DEF ScalarsIInv, WrittenHeld
<1>7. QED
  BY <1>1, <1>2, <1>3, <1>4, <1>6 DEF ScalarsIInv

\* A varbind is tested.
LEMMA TestVarbindKeeps ==
  ASSUME ScalarsIInv, NEW o \in Writable, NEW v \in ValuesFor(o), TestVarbind(o, v)
  PROVE  ScalarsIInv'
<1>1. /\ pending' = IF SetTest(o, v) = "NOERROR" THEN Append(pending, <<o, v>>) ELSE <<>>
      /\ setting' = setting /\ memory' = memory /\ auth_traps' = auth_traps /\ wrote' = wrote
      /\ outside' = outside
  BY DEF TestVarbind
<1>2. SettingsTyped' /\ MemoryTyped' /\ WrittenHeld'
  BY <1>1 DEF ScalarsIInv, SettingsTyped, MemoryTyped, WrittenHeld, Holds, HoldsText
<1>3. \A p, w : SetTest(p, w)' = SetTest(p, w)
  BY <1>1 DEF SetTest, SystemSetTest
<1>4. PendingTested'
  <2>1. CASE SetTest(o, v) = "NOERROR"
    <3>1. PICK vb \in Varbinds : vb = <<o, v>> /\ vb[1] = o /\ vb[2] = v
      <4>1. <<o, v>> \in Varbinds
        BY DEF Varbinds
      <4>2. QED
        BY <4>1
    <3>2. pending' = Append(pending, vb) /\ pending \in Seq(Varbinds)
      BY <1>1, <2>1, <3>1 DEF ScalarsIInv, PendingTested
    <3>3. /\ pending' \in Seq(Varbinds) /\ Len(pending') = Len(pending) + 1
          /\ \A i \in 1 .. Len(pending') : IF i = Len(pending) + 1 THEN pending'[i] = vb
                ELSE i \in 1 .. Len(pending) /\ pending'[i] = pending[i]
      BY <3>2
    <3>4. \A i \in 1 .. Len(pending') : SetTest(pending'[i][1], pending'[i][2]) = "NOERROR"
      BY <2>1, <3>1, <3>3 DEF ScalarsIInv, PendingTested
    <3>5. QED
      BY <1>3, <3>3, <3>4 DEF PendingTested
  <2>2. CASE SetTest(o, v) # "NOERROR"
    BY <1>1, <2>2 DEF PendingTested
  <2>3. QED
    BY <2>1, <2>2
<1>5. QED
  BY <1>1, <1>2, <1>4 DEF ScalarsIInv

\* A text that passed the test fits into its buffer.
LEMMA WriteTextKeeps ==
  ASSUME ScalarsIInv, NEW x \in Names, NEW v \in Seq(0 .. 255),
         SystemSetTest(x, Len(v)) = "NOERROR", WriteText(x, v), setting' = setting
  PROVE  /\ MemoryTyped' /\ HoldsText(x, v)' /\ outside' = FALSE /\ auth_traps' = auth_traps
         /\ \A y \in Names \ {x} : memory'[y] = memory[y]
<1>1. /\ BufferSize \in Nat /\ Len(v) \in Nat
      /\ setting[x].bufsize \in 0 .. BufferSize /\ setting[x].len \in BOOLEAN
      /\ setting[x].own \in BOOLEAN /\ setting[x].writable \in BOOLEAN
      /\ setting[x].bufsize # 0 => setting[x].own /\ setting[x].writable
      /\ memory[x].octets \in [1 .. BufferSize -> 0 .. 255] /\ memory[x].len \in Nat
  <2>1. BufferSize \in Nat /\ Len(v) \in Nat
    BY ScalarsAssumption DEF ScalarsAssumption
  <2>2. SettingsTyped /\ MemoryTyped
    BY DEF ScalarsIInv
  <2>3. setting[x] \in [own : BOOLEAN, len : BOOLEAN, writable : BOOLEAN, bufsize : 0 .. BufferSize]
    BY <2>2 DEF SettingsTyped
  <2>4. memory[x] \in [octets : [1 .. BufferSize -> 0 .. 255], len : Nat]
    BY <2>2 DEF MemoryTyped
  <2>5. setting[x].bufsize # 0 => setting[x].own /\ setting[x].writable
    BY <2>2 DEF SettingsTyped
  <2>6. QED
    BY <2>1, <2>3, <2>4, <2>5
<1>2. /\ setting[x].bufsize # 0
      /\ Len(v) + (IF setting[x].len THEN 0 ELSE 1) <= setting[x].bufsize
  BY DEF SystemSetTest
<1>3. PICK w : w = IF setting[x].len THEN v ELSE Append(v, 0)
  OBVIOUS
<1>4. PICK b : b = Over(memory[x].octets, w)
  OBVIOUS
<1>5. /\ memory' = [memory EXCEPT ![x] =
           [octets |-> b, len |-> IF setting[x].len THEN Len(v) ELSE memory[x].len]]
      /\ outside' = (outside \/ Len(w) > setting[x].bufsize) /\ auth_traps' = auth_traps
  BY <1>3, <1>4 DEF WriteText
<1>6. /\ w \in Seq(0 .. 255) /\ Len(w) <= setting[x].bufsize /\ Len(v) <= Len(w)
      /\ \A i \in 1 .. Len(v) : w[i] = v[i]
      /\ setting[x].len = FALSE => Len(w) = Len(v) + 1 /\ w[Len(v) + 1] = 0
  <2>1. CASE setting[x].len = TRUE
    BY <1>1, <1>2, <1>3, <2>1
  <2>2. CASE setting[x].len = FALSE
    <3>1. w = Append(v, 0) /\ 0 \in 0 .. 255
      BY <1>3, <2>2
    <3>2. /\ w \in Seq(0 .. 255) /\ Len(w) = Len(v) + 1 /\ w[Len(v) + 1] = 0
          /\ \A i \in 1 .. Len(v) : w[i] = v[i]
      BY <3>1
    <3>3. QED
      BY <1>1, <1>2, <2>2, <3>2
  <2>3. QED
    BY <1>1, <2>1, <2>2
<1>7. /\ b \in [1 .. BufferSize -> 0 .. 255]
      /\ \A i \in 1 .. BufferSize : i <= Len(w) => b[i] = w[i]
  BY <1>1, <1>4, <1>6, OverTyped
<1>8. outside' = FALSE
  <2>1. Len(w) \in Nat /\ setting[x].bufsize \in Nat
    BY <1>1, <1>6
  <2>2. QED
    <3>1. ~(Len(w) > setting[x].bufsize)
      BY <1>6, <2>1
    <3>2. outside = FALSE /\ outside' = (outside \/ Len(w) > setting[x].bufsize)
      BY <1>5 DEF ScalarsIInv
    <3>3. QED
      BY <3>1, <3>2, Zenon
<1>9. /\ memory'[x].octets = b
      /\ setting[x].len = TRUE => memory'[x].len = Len(v)
      /\ \A y \in Names \ {x} : memory'[y] = memory[y]
  BY <1>5 DEF ScalarsIInv, MemoryTyped
<1>10. MemoryTyped'
  BY <1>1, <1>5, <1>7 DEF ScalarsIInv, MemoryTyped
<1>11. HoldsText(x, v)'
  <2>1. \A i \in 1 .. Len(v) : b[i] = v[i]
    <3>1. ASSUME NEW i \in 1 .. Len(v)
          PROVE  b[i] = v[i]
      <4>1. Len(w) \in Nat
        BY <1>6
      <4>2. i \in 1 .. BufferSize /\ i <= Len(w)
        BY <1>1, <1>6, <4>1
      <4>3. QED
        BY <1>6, <1>7, <4>2
    <3>2. QED
      BY <3>1
  <2>2. setting[x].len = FALSE => Len(v) < BufferSize /\ b[Len(v) + 1] = 0
    <3>1. SUFFICES ASSUME setting[x].len = FALSE
                   PROVE  Len(v) < BufferSize /\ b[Len(v) + 1] = 0
      OBVIOUS
    <3>2. Len(w) = Len(v) + 1 /\ w[Len(v) + 1] = 0 /\ Len(w) <= setting[x].bufsize
      BY <1>6, <3>1
    <3>3. Len(v) < BufferSize /\ Len(v) + 1 \in 1 .. BufferSize
      BY <1>1, <3>2
    <3>4. b[Len(v) + 1] = w[Len(v) + 1]
      BY <1>1, <1>7, <3>2, <3>3
    <3>5. QED
      BY <3>2, <3>3, <3>4
  <2>3. Len(v) <= BufferSize
    <3>1. Len(w) \in Nat
      BY <1>6
    <3>2. QED
      BY <1>1, <1>6, <3>1
  <2>4. setting[x].own = TRUE /\ setting[x].writable = TRUE
    BY <1>1, <1>2
  <2>5. QED
    BY <1>9, <2>1, <2>2, <2>3, <2>4 DEF HoldsText
<1>12. QED
  BY <1>5, <1>8, <1>9, <1>10, <1>11

\* The second pass writes the next varbind.
LEMMA SetVarbindKeeps ==
  ASSUME ScalarsIInv, SetVarbind
  PROVE  ScalarsIInv'
<1>1. /\ pending # <<>> /\ pending' = Tail(pending) /\ setting' = setting
      /\ pending \in Seq(Varbinds)
  BY DEF SetVarbind, ScalarsIInv, PendingTested
<1>2. pending[1][1] \in Writable /\ pending[1][2] \in ValuesFor(pending[1][1])
  <2>1. pending[1] \in Varbinds
    BY <1>1
  <2>2. QED
    BY <2>1 DEF Varbinds
<1> PICK o \in Writable : o = pending[1][1]
  BY <1>2
<1> PICK v \in ValuesFor(o) : v = pending[1][2]
  BY <1>2
<1>3. /\ IF o[1] = "system" THEN WriteText(o[2], v) ELSE WriteInteger(o, v)
      /\ wrote' = [wrote EXCEPT ![o] = <<v>>]
  <2>1. Head(pending) = pending[1]
    BY <1>1
  <2>2. QED
    BY <1>2, <2>1 DEF SetVarbind
<1>4. SetTest(o, v) = "NOERROR"
  <2>1. 1 \in 1 .. Len(pending)
    BY <1>1
  <2>2. QED
    BY <1>2, <2>1 DEF ScalarsIInv, PendingTested
<1>5. PendingTested'
  <2>1. \A p, w : SetTest(p, w)' = SetTest(p, w)
    BY <1>1 DEF SetTest, SystemSetTest
  <2>2. /\ pending' \in Seq(Varbinds)
        /\ \A i \in 1 .. Len(pending') : i + 1 \in 1 .. Len(pending) /\ pending'[i] = pending[i + 1]
    BY <1>1
  <2>3. QED
    BY <2>1, <2>2 DEF PendingTested, ScalarsIInv
<1>6. SettingsTyped'
  BY <1>1 DEF ScalarsIInv, SettingsTyped
<1>7. CASE o[1] = "system"
  <2>1. PICK x \in Names : o = Contact(x) /\ o[2] = x
    BY <1>7, WritableObjects
  <2>2. v \in Seq(0 .. 255)
    BY <1>7, ValuesTyped
  <2>3. SystemSetTest(x, Len(v)) = "NOERROR"
    <3>1. o # EnableAuthenTraps /\ o # Forwarding /\ o # TimeToLive
      BY <1>7 DEF EnableAuthenTraps, Forwarding, TimeToLive
    <3>2. QED
      BY <1>4, <1>7, <2>1, <3>1 DEF SetTest
  <2>4. /\ MemoryTyped' /\ HoldsText(x, v)' /\ outside' = FALSE /\ auth_traps' = auth_traps
        /\ \A y \in Names \ {x} : memory'[y] = memory[y]
    BY <1>1, <1>3, <1>7, <2>1, <2>2, <2>3, WriteTextKeeps
  <2>5. ASSUME NEW q \in Writable
        PROVE  wrote'[q] = Nothing \/ \E w \in ValuesFor(q) : wrote'[q] = <<w>> /\ Holds(q, w)'
    <3>1. CASE q = o
      <4>1. wrote'[q] = <<v>>
        BY <1>3, <3>1 DEF ScalarsIInv, WrittenHeld
      <4>2. o # EnableAuthenTraps /\ o # Forwarding /\ o # TimeToLive
        BY <1>7 DEF EnableAuthenTraps, Forwarding, TimeToLive
      <4>3. Holds(o, v)'
        BY <2>1, <2>4, <4>2 DEF Holds
      <4>4. QED
        BY <3>1, <4>1, <4>3
    <3>2. CASE q # o
      <4>1. wrote'[q] = wrote[q]
        BY <1>3, <3>2 DEF ScalarsIInv, WrittenHeld
      <4>2. ASSUME NEW w, Holds(q, w)
            PROVE  Holds(q, w)'
        <5>1. CASE q[1] = "system"
          <6>1. PICK y \in Names : q = Contact(y) /\ q[2] = y /\ y # x
            BY <2>1, <3>2, <5>1, WritableObjects
          <6>2. HoldsText(y, w)'
            BY <1>1, <2>4, <4>2, <5>1, <6>1 DEF Holds, HoldsText
          <6>3. QED
            BY <2>4, <4>2, <6>1, <6>2 DEF Holds
        <5>2. CASE q[1] # "system"
          BY <2>4, <4>2, <5>2 DEF Holds
        <5>3. QED
          BY <5>1, <5>2
      <4>3. QED
        BY <4>1, <4>2 DEF ScalarsIInv, WrittenHeld
    <3>3. QED
      BY <3>1, <3>2
  <2>6. WrittenHeld'
    BY <1>3, <2>5 DEF ScalarsIInv, WrittenHeld
  <2>7. QED
    BY <1>5, <1>6, <2>4, <2>6 DEF ScalarsIInv
<1>8. CASE o[1] # "system"
  <2>1. /\ auth_traps' = IF o = EnableAuthenTraps THEN v[1] # 2 ELSE auth_traps
        /\ memory' = memory /\ outside' = outside
    BY <1>3, <1>8 DEF WriteInteger
  <2>2. auth_traps' \in BOOLEAN
    BY <2>1 DEF ScalarsIInv
  <2>3. MemoryTyped'
    BY <2>1 DEF ScalarsIInv, MemoryTyped
  <2>4. ASSUME NEW q \in Writable
        PROVE  wrote'[q] = Nothing \/ \E w \in ValuesFor(q) : wrote'[q] = <<w>> /\ Holds(q, w)'
    <3>1. CASE q = o
      <4>1. wrote'[q] = <<v>>
        BY <1>3, <3>1 DEF ScalarsIInv, WrittenHeld
      <4>2. /\ o = EnableAuthenTraps => v[1] \in {1, 2}
            /\ o = Forwarding => v[1] = 2
            /\ o = TimeToLive => v[1] = DefaultTTL
        BY <1>4, <1>8 DEF SetTest, EnableAuthenTraps, Forwarding, TimeToLive
      <4>3. Holds(o, v)'
        BY <1>8, <2>1, <4>2 DEF Holds
      <4>4. QED
        BY <3>1, <4>1, <4>3
    <3>2. CASE q # o
      <4>1. wrote'[q] = wrote[q]
        BY <1>3, <3>2 DEF ScalarsIInv, WrittenHeld
      <4>2. ASSUME NEW w, Holds(q, w)
            PROVE  Holds(q, w)'
        <5>1. HoldsText(q[2], w)' = HoldsText(q[2], w)
          BY <1>1, <2>1 DEF HoldsText
        <5>2. q = EnableAuthenTraps => auth_traps' = auth_traps
          BY <2>1, <3>2
        <5>3. QED
          BY <4>2, <5>1, <5>2 DEF Holds
      <4>3. QED
        BY <4>1, <4>2 DEF ScalarsIInv, WrittenHeld
    <3>3. QED
      BY <3>1, <3>2
  <2>5. WrittenHeld'
    BY <1>3, <2>4 DEF ScalarsIInv, WrittenHeld
  <2>6. QED
    BY <1>5, <1>6, <2>1, <2>2, <2>3, <2>5 DEF ScalarsIInv
<1>9. QED
  BY <1>7, <1>8

\* Nothing is configured or written at first.
LEMMA ScalarsInitially == ScalarsInit => ScalarsIInv
<1> SUFFICES ASSUME ScalarsInit
             PROVE  ScalarsIInv
  OBVIOUS
<1>1. BufferSize \in Nat
  BY ScalarsAssumption DEF ScalarsAssumption
<1>2. SettingsTyped
  BY <1>1 DEF ScalarsInit, SettingsTyped
<1>3. MemoryTyped
  BY <1>1 DEF ScalarsInit, MemoryTyped
<1>4. PendingTested
  BY DEF ScalarsInit, PendingTested
<1>5. WrittenHeld
  BY DEF ScalarsInit, WrittenHeld
<1>6. QED
  BY <1>2, <1>3, <1>4, <1>5 DEF ScalarsInit, ScalarsIInv

\* Every step of NodeAccess is one of these or leaves the scalars as they are.
LEMMA ScalarsInductive == ScalarsIInv /\ [Next]_vars => ScalarsIInv'
<1> SUFFICES ASSUME ScalarsIInv, [Next]_vars
             PROVE  ScalarsIInv'
  OBVIOUS
<1>1. CASE UNCHANGED scalarVars
  <2>1. /\ setting' = setting /\ memory' = memory /\ auth_traps' = auth_traps
        /\ pending' = pending /\ wrote' = wrote /\ outside' = outside
    BY <1>1 DEF scalarVars
  <2>2. \A p, w : SetTest(p, w)' = SetTest(p, w)
    BY <2>1 DEF SetTest, SystemSetTest
  <2>3. QED
    BY <2>1, <2>2
    DEF ScalarsIInv, SettingsTyped, MemoryTyped, PendingTested, WrittenHeld, Holds, HoldsText
<1>2. CASE ScalarsStep
  <2>1. ASSUME NEW x \in Names, NEW text \in Texts, NEW len \in BOOLEAN,
               NEW bufsize \in 0 .. BufferSize, SetText(x, len, bufsize, text)
        PROVE  ScalarsIInv'
    BY <2>1, ConfigureKeeps DEF SetText
  <2>2. ASSUME NEW x \in Names, NEW text \in Texts, NEW len \in BOOLEAN,
               SetTextReadonly(x, len, text)
        PROVE  ScalarsIInv'
    <3>1. 0 \in 0 .. BufferSize
      BY ScalarsAssumption DEF ScalarsAssumption
    <3>2. QED
      BY <2>2, <3>1, ConfigureKeeps DEF SetTextReadonly
  <2>3. QED
    BY <1>2, <2>1, <2>2, TestVarbindKeeps, SetVarbindKeeps DEF ScalarsStep
<1>3. QED
  BY <1>1, <1>2 DEF Next, vars

\* Whatever buffers the application gives to the strings of the system group, and whatever
\* is written to them and to the other objects by SET requests of any length, what was
\* written is read back, nothing is written outside a buffer and nothing to an object that
\* is read-only (system_set_test(), system_set_value(), snmp_set_test(), ip_set_test()).
THEOREM SetsAreReadBack == Spec => []SetsReadBack
<1>1. Init => ScalarsIInv
  BY ScalarsInitially DEF Init
<1>2. ScalarsIInv => SetsReadBack
  BY HeldIsRead
<1>3. QED
  BY <1>1, <1>2, ScalarsInductive, PTL DEF Spec

-----------------------------------------------------------------------------
(* Texts and their prefixes.                                               *)

\* What it is to be a prefix, character by character.
LEMMA PrefixCharacters ==
  ASSUME NEW S, NEW s \in Seq(S), NEW t \in Seq(S)
  PROVE  IsPrefix(s, t) <=> Len(s) <= Len(t) /\ \A j \in 1 .. Len(s) : s[j] = t[j]
BY DEF IsPrefix

\* A text up to the star that ends it.
LEMMA UpToStarFacts ==
  ASSUME NEW S, NEW p \in Seq(S), Star \notin ToSet(Front(p))
  PROVE  /\ UpToStar(p) \in Seq(S)
         /\ \A i \in 1 .. Len(UpToStar(p)) : i \in 1 .. Len(p) /\ UpToStar(p)[i] = p[i] /\ p[i] # Star
         /\ IF p # <<>> /\ p[Len(p)] = Star THEN Len(UpToStar(p)) = Len(p) - 1
            ELSE Len(UpToStar(p)) = Len(p)
         /\ \A i \in 1 .. Len(p) : p[i] = Star => i = Len(p)
<1>1. PICK n \in Nat : n = Len(p)
  OBVIOUS
<1>2. p # <<>> => /\ Front(p) \in Seq(S) /\ Len(Front(p)) = n - 1
                  /\ \A i \in 1 .. n - 1 : Front(p)[i] = p[i]
  <2>1. ASSUME p # <<>>
        PROVE  n - 1 \in Nat /\ n - 1 <= Len(p)
    BY <1>1, <2>1
  <2>2. QED
    BY <1>1, <2>1, Beginning DEF Front
<1>3. ASSUME NEW i \in 1 .. n, p[i] = Star
      PROVE  i = n
  <2>1. ASSUME i # n
        PROVE  FALSE
    <3>1. i \in 1 .. n - 1 /\ p # <<>>
      BY <1>1, <2>1
    <3>2. Front(p)[i] = Star /\ i \in DOMAIN Front(p)
      BY <1>1, <1>2, <1>3, <3>1
    <3>3. QED
      BY <3>2 DEF ToSet
  <2>2. QED
    BY <2>1
<1>4. CASE p # <<>> /\ p[n] = Star
  <2>1. UpToStar(p) = Front(p)
    BY <1>1, <1>4 DEF UpToStar, Last
  <2>2. \A i \in 1 .. n - 1 : i \in 1 .. n /\ p[i] # Star
    BY <1>1, <1>3
  <2>3. QED
    BY <1>1, <1>2, <1>3, <1>4, <2>1, <2>2
<1>5. CASE ~(p # <<>> /\ p[n] = Star)
  <2>1. UpToStar(p) = p
    BY <1>1, <1>5 DEF UpToStar, Last
  <2>2. \A i \in 1 .. n : p[i] # Star
    <3>1. ASSUME NEW i \in 1 .. n, p[i] = Star
          PROVE  FALSE
      BY <1>1, <1>3, <1>5, <3>1
    <3>2. QED
      BY <3>1
  <2>3. QED
    BY <1>1, <1>3, <1>5, <2>1, <2>2
<1>6. QED
  BY <1>4, <1>5

\* Where match_length() stops at a place.
LEMMA MatchLengthAt ==
  ASSUME NEW oid, NEW p, Stops(oid, p) # {}
  PROVE  MatchLength(oid, p) =
           IF p[CHOOSE i \in Stops(oid, p) : \A j \in Stops(oid, p) : i <= j] = Star
           THEN CHOOSE i \in Stops(oid, p) : \A j \in Stops(oid, p) : i <= j
           ELSE (CHOOSE i \in Stops(oid, p) : \A j \in Stops(oid, p) : i <= j) - 1
BY DEF MatchLength

\* match_length() counts as far as the prefix is the OID's, or the OID is the prefix's.
LEMMA MatchingIsAnswering ==
  ASSUME NEW oid \in Seq(Characters), NEW e \in Entries
  PROVE  Matches(oid, e) <=> AnswersFor(oid, e)
<1>1. PICK p \in Seq(Characters) : p = PrefixOf[e] /\ Star \notin ToSet(Front(p))
  BY HandlersAssumption DEF HandlersAssumption
<1>2. PICK n \in Nat, k \in Nat : n = Len(p) /\ k = Len(oid)
  OBVIOUS
<1>3. PICK u \in Seq(Characters) :
        /\ u = UpToStar(p)
        /\ \A i \in 1 .. Len(u) : i \in 1 .. n /\ u[i] = p[i] /\ p[i] # Star
        /\ IF p # <<>> /\ p[n] = Star THEN Len(u) = n - 1 ELSE Len(u) = n
        /\ \A i \in 1 .. n : p[i] = Star => i = n
  BY <1>1, <1>2, UpToStarFacts
<1>4. PICK S : S = Stops(oid, p)
  OBVIOUS
<1>5. S \subseteq Nat /\ \A i \in S : i \in 1 .. n /\ i \in 1 .. k
  BY <1>2, <1>4 DEF Stops
<1>6. /\ IsPrefix(u, oid) <=> Len(u) <= k /\ \A j \in 1 .. Len(u) : u[j] = oid[j]
      /\ IsPrefix(oid, p) <=> k <= n /\ \A j \in 1 .. k : oid[j] = p[j]
  BY <1>2, PrefixCharacters
<1>7. PICK l : l = MatchLength(oid, p)
  OBVIOUS
<1>8. Matches(oid, e) <=> l >= k \/ l = n
  BY <1>1, <1>2, <1>7 DEF Matches
<1>9. AnswersFor(oid, e) <=> IsPrefix(u, oid) \/ IsPrefix(oid, p)
  BY <1>1, <1>3 DEF AnswersFor
<1>10. CASE S = {}
  <2>1. l = IF k < n THEN k ELSE n
    BY <1>2, <1>4, <1>7, <1>10 DEF MatchLength
  <2>2. \A i \in 1 .. k : i \in 1 .. n => p[i] # Star /\ p[i] = oid[i]
    BY <1>2, <1>4, <1>10 DEF Stops
  <2>3. Matches(oid, e)
    BY <1>8, <2>1
  <2>4. CASE k < n
    BY <1>6, <1>9, <2>2, <2>3, <2>4
  <2>5. CASE ~(k < n)
    <3>1. \A j \in 1 .. Len(u) : u[j] = oid[j]
      BY <1>3, <2>2, <2>5
    <3>2. Len(u) <= k
      BY <1>3, <2>5
    <3>3. QED
      BY <1>6, <1>9, <2>3, <3>1, <3>2
  <2>6. QED
    BY <2>4, <2>5
<1>11. CASE S # {}
  <2>1. PICK at \in S : \A j \in S : at <= j
    BY <1>5, <1>11, LeastNatural
  <2>2. (CHOOSE i \in S : \A j \in S : i <= j) = at
    BY <1>5, <2>1, LeastChosen
  <2>3. l = IF p[at] = Star THEN at ELSE at - 1
    <3>1. (CHOOSE i \in Stops(oid, p) : \A j \in Stops(oid, p) : i <= j) = at
      BY <1>4, <2>2
    <3>2. Stops(oid, p) # {}
      BY <1>4, <1>11
    <3>3. QED
      BY <1>7, <3>1, <3>2, MatchLengthAt
  <2>4. at \in 1 .. n /\ at \in 1 .. k
    BY <1>5
  <2>5. \A i \in 1 .. at - 1 : p[i] # Star /\ p[i] = oid[i]
    <3>1. ASSUME NEW i \in 1 .. at - 1
          PROVE  p[i] # Star /\ p[i] = oid[i]
      <4>1. i \notin S /\ i \in 1 .. n /\ i \in 1 .. k
        BY <2>1, <2>4
      <4>2. QED
        BY <1>2, <1>4, <4>1 DEF Stops
    <3>2. QED
      BY <3>1
  <2>6. CASE p[at] = Star
    <3>1. at = n /\ Len(u) = n - 1
      <4>1. p # <<>>
        BY <1>2, <2>4
      <4>2. QED
        BY <1>3, <2>4, <2>6, <4>1
    <3>2. Matches(oid, e)
      BY <1>8, <2>3, <2>6, <3>1
    <3>3. Len(u) <= k /\ \A j \in 1 .. Len(u) : u[j] = oid[j]
      BY <1>3, <2>4, <2>5, <3>1
    <3>4. QED
      BY <1>6, <1>9, <3>2, <3>3
  <2>7. CASE p[at] # Star
    <3>1. p[at] # oid[at]
      BY <1>4, <2>7 DEF Stops
    <3>2. ~Matches(oid, e)
      <4>1. l < k /\ l < n
        BY <2>3, <2>4, <2>7
      <4>2. QED
        BY <1>8, <2>3, <2>4, <2>7, <4>1
    <3>3. ~IsPrefix(oid, p)
      BY <1>6, <2>4, <3>1
    <3>4. at \in 1 .. Len(u)
      <4>1. at = n => ~(p # <<>> /\ p[n] = Star)
        BY <2>7
      <4>2. Len(u) \in Nat
        OBVIOUS
      <4>3. QED
        BY <1>3, <2>4, <4>1, <4>2
    <3>5. ~IsPrefix(u, oid)
      BY <1>3, <1>6, <3>1, <3>4
    <3>6. QED
      BY <1>9, <3>2, <3>3, <3>5
  <2>8. QED
    BY <2>6, <2>7
<1>12. QED
  BY <1>10, <1>11

-----------------------------------------------------------------------------
(* The list of the handlers.                                               *)

\* The last entry of a list leads to none.
EndsBehind(list, links) == list # <<>> => links[list[Len(list)]] = NoEntry

\* The memory holds the list of what is installed and ends behind it, and the last
\* request called the right one, as long as each entry was installed once.
HandlersIInv ==
  /\ installed \in Seq(Entries)
  /\ next \in [Entries -> Entries \cup {NoEntry}]
  /\ asked \in Seq(Characters)
  /\ InstalledOnce => IsList(installed, next) /\ EndsBehind(installed, next)
  /\ FirstInstalledIsCalled

\* Of two lists the longer one begins with the shorter one.
LEMMA ListsAgree ==
  ASSUME NEW L \in Seq(Entries), NEW M \in Seq(Entries), NEW links,
         IsList(L, links), IsList(M, links),
         NEW i \in Nat, i \in 1 .. Len(L), i \in 1 .. Len(M)
  PROVE  L[i] = M[i]
<1>1. PICK a \in Nat, b \in Nat : a = Len(L) /\ b = Len(M)
  OBVIOUS
<1> DEFINE S == {x \in 1 .. a : x \in 1 .. b /\ L[x] # M[x]}
<1>2. CASE S = {}
  BY <1>1, <1>2
<1>3. CASE S # {}
  <2>1. S \in SUBSET Nat
    OBVIOUS
  <2>2. PICK x \in S : \A y \in S : x <= y
    BY <1>3, <2>1, LeastNatural
  <2>3. x \in 1 .. a /\ x \in 1 .. b /\ L[x] # M[x]
    BY <2>2
  <2>4. CASE x = 1
    <3>1. L # <<>> /\ M # <<>>
      BY <1>1, <2>3
    <3>2. first_handler = L[1] /\ first_handler = M[1]
      BY <3>1 DEF IsList
    <3>3. QED
      BY <2>3, <2>4, <3>2
  <2>5. CASE x # 1
    <3>1. PICK w \in Nat : w = x - 1 /\ w \in 1 .. a /\ w \in 1 .. b /\ w # a /\ w # b /\ w + 1 = x
      BY <2>3, <2>5
    <3>2. w \notin S
      BY <2>2, <3>1
    <3>3. L[w] = M[w]
      BY <3>1, <3>2
    <3>4. links[L[w]] = L[x] /\ links[M[w]] = M[x]
      <4>1. w \in DOMAIN L /\ w # Len(L) /\ w \in DOMAIN M /\ w # Len(M)
        BY <1>1, <3>1
      <4>2. links[L[w]] = L[w + 1] /\ links[M[w]] = M[w + 1]
        BY <4>1 DEF IsList
      <4>3. QED
        BY <3>1, <4>2
    <3>5. QED
      BY <2>3, <3>3, <3>4
  <2>6. QED
    BY <2>4, <2>5
<1>4. QED
  BY <1>2, <1>3

\* No list is longer than another one.
LEMMA ListsAsLong ==
  ASSUME NEW L \in Seq(Entries), NEW M \in Seq(Entries), NEW links,
         IsList(L, links), IsList(M, links)
  PROVE  ~ (Len(L) < Len(M))
<1>1. PICK a \in Nat, b \in Nat : a = Len(L) /\ b = Len(M)
  OBVIOUS
<1>2. SUFFICES ASSUME a < b
               PROVE  FALSE
  BY <1>1
<1>3. a + 1 \in 1 .. b /\ M[a + 1] \in Entries
  BY <1>1, <1>2
<1>4. NoEntry \notin Entries
  BY HandlersAssumption DEF HandlersAssumption
<1>5. CASE a = 0
  <2>1. L = <<>> /\ M # <<>>
    <3>1. Len(L) = 0 /\ Len(M) # 0
      BY <1>1, <1>2, <1>5
    <3>2. Len(<<>>) = 0 /\ (L # <<>> => Len(L) # 0)
      OBVIOUS
    <3>3. QED
      BY <3>1, <3>2
  <2>2. first_handler = NoEntry /\ first_handler = M[1]
    BY <2>1 DEF IsList
  <2>3. QED
    BY <1>3, <1>4, <1>5, <2>2
<1>6. CASE a # 0
  <2>1. a \in 1 .. a /\ a \in 1 .. b /\ a # b
    BY <1>2, <1>6
  <2>2. links[L[a]] \in {NoEntry} \cup ToSet(L)
    <3>1. a \in DOMAIN L /\ a = Len(L)
      BY <1>1, <2>1
    <3>2. QED
      BY <3>1 DEF IsList
  <2>3. links[M[a]] = M[a + 1]
    BY <1>1, <2>1 DEF IsList
  <2>4. L[a] = M[a]
    BY <1>1, <2>1, ListsAgree
  <2>5. PICK k \in 1 .. a : L[k] = M[a + 1]
    <3>1. M[a + 1] \in ToSet(L)
      BY <1>3, <1>4, <2>2, <2>3, <2>4
    <3>2. QED
      BY <1>1, <3>1 DEF ToSet
  <2>6. M[k] = M[a + 1]
    <3>1. k \in Nat /\ k \in 1 .. Len(L) /\ k \in 1 .. Len(M)
      BY <1>1, <1>2
    <3>2. L[k] = M[k]
      BY <3>1, ListsAgree
    <3>3. QED
      BY <2>5, <3>2
  <2>7. k \in DOMAIN M /\ a + 1 \in DOMAIN M /\ k # a + 1
    BY <1>1, <1>2
  <2>8. QED
    BY <2>6, <2>7 DEF IsList
<1>7. QED
  BY <1>5, <1>6

\* So the loops come by what is installed, in that order.
LEMMA OneList ==
  ASSUME installed \in Seq(Entries), NEW links, IsList(installed, links)
  PROVE  HandlerList(links) = installed
<1>1. PICK n \in Nat : n = Len(installed)
  OBVIOUS
<1> DEFINE Lists == UNION {[1 .. k -> Entries] : k \in 0 .. n}
<1>2. installed \in Lists
  <2>1. installed \in [1 .. n -> Entries] /\ n \in 0 .. n
    BY <1>1
  <2>2. QED
    BY <2>1
<1>3. PICK L : L = HandlerList(links)
  OBVIOUS
<1>4. L \in Lists /\ IsList(L, links)
  <2>1. L = CHOOSE list \in Lists : IsList(list, links)
    BY <1>1, <1>3 DEF HandlerList
  <2> HIDE DEF Lists
  <2>2. QED
    BY <1>2, <2>1
<1>5. L \in Seq(Entries)
  BY <1>4
<1>6. ~ (Len(L) < Len(installed)) /\ ~ (Len(installed) < Len(L))
  BY <1>4, <1>5, ListsAsLong
<1>7. Len(L) = n
  <2>1. Len(L) \in Nat
    BY <1>5
  <2>2. QED
    BY <1>1, <1>6, <2>1
<1>8. \A i \in 1 .. n : L[i] = installed[i]
  BY <1>1, <1>4, <1>5, <1>7, ListsAgree
<1>9. L = installed
  BY <1>1, <1>5, <1>7, <1>8
<1>10. QED
  BY <1>3, <1>9

\* At the start nothing is installed.
LEMMA HandlersInitially == HandlersInit => HandlersIInv
<1> SUFFICES ASSUME HandlersInit
             PROVE  HandlersIInv
  OBVIOUS
<1>1. installed = <<>> /\ first_handler = NoEntry /\ asked = <<>> /\ ~stuck
      /\ next = [e \in Entries |-> NoEntry]
  BY DEF HandlersInit
<1>2. IsList(installed, next) /\ EndsBehind(installed, next)
  BY <1>1 DEF IsList, EndsBehind
<1>3. FirstInstalledIsCalled
  BY <1>1 DEF FirstInstalledIsCalled
<1>4. next \in [Entries -> Entries \cup {NoEntry}]
  BY <1>1
<1>5. installed \in Seq(Entries) /\ asked \in Seq(Characters)
  BY <1>1
<1>6. QED
  BY <1>2, <1>3, <1>4, <1>5 DEF HandlersIInv

\* An entry that was not installed is linked behind the last one.
LEMMA InstallKeeps ==
  ASSUME HandlersIInv, NEW entry \in Entries, Install(entry)
  PROVE  HandlersIInv'
<1>1. PICK n \in Nat : n = Len(installed)
  BY DEF HandlersIInv
<1>2. installed \in Seq(Entries) /\ next \in [Entries -> Entries \cup {NoEntry}]
  BY DEF HandlersIInv
<1>4. PICK after \in Seq(Entries) : after = Append(installed, entry) /\ installed' = after
  BY <1>2 DEF Install
<1>5. Len(after) = n + 1 /\ after[n + 1] = entry /\ \A i \in 1 .. n : after[i] = installed[i]
  BY <1>1, <1>2, <1>4
<1>6. NoEntry \notin Entries
  BY HandlersAssumption DEF HandlersAssumption
<1> DEFINE cleared == [next EXCEPT ![entry] = NoEntry]
<1>7. cleared \in [Entries -> Entries \cup {NoEntry}]
  BY <1>2
<1>8. next' \in [Entries -> Entries \cup {NoEntry}]
  <2> HIDE DEF cleared
  <2>1. CASE next' = cleared
    BY <1>7, <2>1
  <2>2. CASE next' = LinkedBehind(entry, cleared)
    BY <1>7, <2>2 DEF LinkedBehind
  <2>3. QED
    BY <2>1, <2>2 DEF Install, cleared
<1>9. asked' \in Seq(Characters) /\ asked' = <<>>
  BY DEF Install
<1>10. SUFFICES ASSUME InstalledOnce'
                PROVE  /\ IsList(installed, next)' /\ EndsBehind(installed, next)'
                       /\ ~stuck'
  BY <1>4, <1>8, <1>9 DEF HandlersIInv, FirstInstalledIsCalled
<1>11. DOMAIN after = 1 .. n + 1 /\ DOMAIN installed = 1 .. n
  BY <1>1, <1>2, <1>5
<1>12. \A i, j \in 1 .. n + 1 : after[i] = after[j] => i = j
  BY <1>4, <1>10, <1>11 DEF InstalledOnce
<1>13. \A i, j \in 1 .. n : installed[i] = installed[j] => i = j
  <2>1. \A i \in 1 .. n : i \in 1 .. n + 1
    OBVIOUS
  <2>2. QED
    BY <1>5, <1>12, <2>1
<1>14. InstalledOnce
  BY <1>11, <1>13 DEF InstalledOnce
<1>15. \A i \in 1 .. n : installed[i] # entry /\ installed[i] \in Entries
  <2>1. ASSUME NEW i \in 1 .. n
        PROVE  installed[i] # entry /\ installed[i] \in Entries
    <3>1. i \in 1 .. n + 1 /\ n + 1 \in 1 .. n + 1 /\ i # n + 1
      OBVIOUS
    <3>2. after[i] # after[n + 1]
      BY <1>12, <3>1
    <3>3. QED
      BY <1>1, <1>2, <1>5, <3>2
  <2>2. QED
    BY <2>1
<1>16. IsList(installed, next) /\ EndsBehind(installed, next)
  BY <1>14 DEF HandlersIInv
<1>17. /\ \A i \in 1 .. n : next[installed[i]] = IF i = n THEN NoEntry ELSE installed[i + 1]
       /\ first_handler = IF n = 0 THEN NoEntry ELSE installed[1]
  <2>1. installed = <<>> <=> n = 0
    BY <1>1, <1>2
  <2>2. ASSUME NEW i \in 1 .. n
        PROVE  next[installed[i]] = IF i = n THEN NoEntry ELSE installed[i + 1]
    <3>1. CASE i = n
      BY <1>1, <1>16, <2>1, <3>1 DEF EndsBehind
    <3>2. CASE i # n
      BY <1>1, <1>11, <1>16, <3>2 DEF IsList
    <3>3. QED
      BY <3>1, <3>2
  <2>3. first_handler = IF n = 0 THEN NoEntry ELSE installed[1]
    BY <1>16, <2>1 DEF IsList
  <2>4. QED
    BY <2>2, <2>3
<1>18. \A i \in 1 .. n : cleared[installed[i]] = next[installed[i]]
  BY <1>2, <1>15
<1>19. IsList(installed, cleared)
  <2>1. \A i \in DOMAIN installed : cleared[installed[i]] = next[installed[i]]
    BY <1>11, <1>18
  <2> HIDE DEF cleared
  <2>2. QED
    BY <1>16, <2>1 DEF IsList
<1>20. HandlerList(cleared) = installed
  <2> HIDE DEF cleared
  <2>1. QED
    BY <1>2, <1>19, OneList
<1>21. /\ first_handler' = after[1] /\ ~stuck'
       /\ next'[entry] = NoEntry
       /\ \A i \in 1 .. n : next'[installed[i]] = after[i + 1]
  <2>1. CASE n = 0
    <3>1. first_handler = NoEntry
      BY <1>17, <2>1
    <3>2. first_handler' = entry /\ next' = cleared /\ ~stuck'
      BY <3>1 DEF Install
    <3>3. \A i \in 1 .. n : FALSE
      BY <2>1
    <3>4. QED
      BY <1>2, <1>5, <2>1, <3>2, <3>3
  <2>2. CASE n # 0
    <3>1. installed # <<>> /\ 1 \in 1 .. n /\ n \in 1 .. n
      BY <1>1, <2>2
    <3>2. first_handler = installed[1] /\ first_handler # NoEntry
      BY <1>6, <1>15, <1>17, <3>1
    <3>3. Last(installed) = installed[n]
      BY <1>1 DEF Last
    <3>4. cleared[installed[n]] = NoEntry
      BY <1>17, <1>18, <3>1
    <3>5. ~GoesRound(cleared)
      <4> HIDE DEF cleared
      <4>1. QED
        BY <1>20, <3>3, <3>4 DEF GoesRound
    <3>6. first_handler' = first_handler /\ ~stuck'
          /\ next' = LinkedBehind(entry, cleared)
      BY <3>2, <3>5 DEF Install
    <3>7. next' = [cleared EXCEPT ![installed[n]] = entry]
      <4> HIDE DEF cleared
      <4>1. QED
        BY <1>20, <3>3, <3>6 DEF LinkedBehind
    <3>8. PICK last \in Entries : last = installed[n] /\ last # entry
      BY <1>15, <3>1
    <3>9. /\ next'[entry] = NoEntry /\ next'[last] = entry
          /\ \A e \in Entries : e # entry /\ e # last => next'[e] = next[e]
      BY <1>2, <3>7, <3>8
    <3>10. ASSUME NEW i \in 1 .. n
           PROVE  next'[installed[i]] = after[i + 1]
      <4>1. CASE i = n
        BY <1>5, <3>8, <3>9, <4>1
      <4>2. CASE i # n
        <5>1. installed[i] # last
          BY <1>13, <3>1, <3>8, <4>2
        <5>2. next'[installed[i]] = next[installed[i]]
          BY <1>15, <3>9, <5>1
        <5>3. i + 1 \in 1 .. n /\ next[installed[i]] = installed[i + 1]
          BY <1>17, <4>2
        <5>4. QED
          BY <1>5, <5>2, <5>3
      <4>3. QED
        BY <4>1, <4>2
    <3>11. first_handler' = after[1]
      BY <1>5, <3>1, <3>2, <3>6
    <3>12. QED
      BY <3>6, <3>9, <3>10, <3>11
  <2>3. QED
    BY <2>1, <2>2
<1>22. next'[after[n + 1]] = NoEntry /\ \A i \in 1 .. n : next'[after[i]] = after[i + 1]
  BY <1>5, <1>21
<1>23. after # <<>> /\ Len(after) = n + 1
  BY <1>5
<1>24. IsList(installed, next)'
  <2>1. \A i \in 1 .. n + 1 : i = n + 1 \/ i \in 1 .. n
    OBVIOUS
  <2>2. \A i \in DOMAIN after : IF i = Len(after) THEN next'[after[i]] \in {NoEntry} \cup ToSet(after)
                               ELSE next'[after[i]] = after[i + 1]
    BY <1>11, <1>22, <1>23, <2>1
  <2>3. QED
    BY <1>4, <1>11, <1>12, <1>21, <1>23, <2>2 DEF IsList
<1>25. EndsBehind(installed, next)'
  BY <1>4, <1>22, <1>23 DEF EndsBehind
<1>26. QED
  BY <1>21, <1>24, <1>25

\* A request calls the first entry that matches.
LEMMA RequestKeeps ==
  ASSUME HandlersIInv, NEW oid \in Requested, Request(oid)
  PROVE  HandlersIInv'
<1>1. oid \in Seq(Characters)
  BY HandlersAssumption DEF HandlersAssumption
<1>2. asked' = oid /\ UNCHANGED <<first_handler, next, installed>>
  BY DEF Request
<1>3. SUFFICES ASSUME InstalledOnce'
               PROVE  /\ IsList(installed, next)' /\ EndsBehind(installed, next)'
                      /\ FirstInstalledIsCalled'
  BY <1>1, <1>2 DEF HandlersIInv, FirstInstalledIsCalled
<1>4. /\ installed \in Seq(Entries)
      /\ IsList(installed, next) /\ EndsBehind(installed, next)
  BY <1>2, <1>3 DEF HandlersIInv, InstalledOnce
<1>5. HandlerList(next) = installed
  BY <1>4, OneList
<1>6. {i \in DOMAIN installed : installed[i] \in HandlerSet /\ Matches(oid, installed[i])}
      = {i \in DOMAIN installed : installed[i] \in HandlerSet /\ AnswersFor(oid, installed[i])}
  <2>1. \A i \in DOMAIN installed : installed[i] \in Entries
    BY <1>4
  <2>2. \A e \in Entries : Matches(oid, e) <=> AnswersFor(oid, e)
    BY <1>1, MatchingIsAnswering
  <2>3. QED
    BY <2>1, <2>2
<1>7. called' = FirstAt(installed, {i \in DOMAIN installed :
                              installed[i] \in HandlerSet /\ AnswersFor(oid, installed[i])})
  BY <1>5, <1>6 DEF Request
<1>8. ~stuck'
  <2>1. ~GoesRound(next)
    BY <1>4, <1>5 DEF GoesRound, EndsBehind, Last
  <2>2. QED
    BY <2>1 DEF Request
<1>9. FirstInstalledIsCalled'
  <2>1. \A e : AnswersFor(asked, e)' = AnswersFor(oid, e)
    BY <1>2 DEF AnswersFor
  <2>2. QED
    BY <1>2, <1>7, <1>8, <2>1 DEF FirstInstalledIsCalled
<1>10. IsList(installed, next)' /\ EndsBehind(installed, next)'
  BY <1>2, <1>4 DEF IsList, EndsBehind
<1>11. QED
  BY <1>9, <1>10

\* Every step of NodeAccess is one of these or leaves the handlers as they are.
LEMMA HandlersInductive == HandlersIInv /\ [Next]_vars => HandlersIInv'
<1> SUFFICES ASSUME HandlersIInv, [Next]_vars
             PROVE  HandlersIInv'
  OBVIOUS
<1>1. CASE UNCHANGED handlerVars
  <2>1. UNCHANGED <<first_handler, next, installed, asked, called, stuck>>
    BY <1>1 DEF handlerVars
  <2>2. IsList(installed, next)' = IsList(installed, next) /\ InstalledOnce' = InstalledOnce
        /\ EndsBehind(installed, next)' = EndsBehind(installed, next)
    BY <2>1 DEF IsList, InstalledOnce, EndsBehind
  <2>3. FirstInstalledIsCalled'
    BY <2>1, <2>2 DEF HandlersIInv, FirstInstalledIsCalled, FirstAt, AnswersFor
  <2>4. QED
    BY <2>1, <2>2, <2>3 DEF HandlersIInv
<1>2. CASE HandlersStep
  BY <1>2, InstallKeeps, RequestKeeps DEF HandlersStep
<1>3. QED
  BY <1>1, <1>2 DEF Next, vars

\* However many handlers an application installs, in whatever order and for whatever
\* prefixes, as long as none is installed twice each request calls the one that was
\* installed first among those whose prefix answers for its OID, and every loop over
\* them ends (install_snmp_handler(), snmp_private_call_handler()).
THEOREM FirstOfThoseIsCalled == Spec => []FirstInstalledIsCalled
<1>1. Init => HandlersIInv
  BY HandlersInitially DEF Init
<1>2. HandlersIInv => FirstInstalledIsCalled
  BY DEF HandlersIInv
<1>3. QED
  BY <1>1, <1>2, HandlersInductive, PTL DEF Spec

-----------------------------------------------------------------------------
(* The order of OIDs.                                                      *)

OID == Seq(Nat)

\* s is less than t, and k is the number of arcs before their first difference.
LessAt(s, t, k) ==
  /\ k \in Nat /\ k <= Len(s) /\ k < Len(t)
  /\ \A j \in 1 .. k : s[j] = t[j]
  /\ k < Len(s) => s[k + 1] < t[k + 1]

\* A property of 0 that each number passes on to the next one holds of all.
LEMMA CountUp ==
  ASSUME NEW m \in Nat, NEW P, 0 \in P, \A n \in 0 .. m - 1 : n \in P => n + 1 \in P
  PROVE  m \in P
<1> DEFINE Others == {n \in 0 .. m : n \notin P}
<1>1. SUFFICES ASSUME Others # {}
               PROVE  FALSE
  OBVIOUS
<1>2. Others \in SUBSET Nat
  OBVIOUS
<1>3. PICK x \in Others : \A y \in Others : x <= y
  <2> HIDE DEF Others
  <2>1. QED
    BY <1>1, <1>2, LeastNatural
<1>4. x # 0 /\ x - 1 \in 0 .. m - 1 /\ (x - 1) + 1 = x /\ x - 1 \notin Others
  BY <1>3
<1>5. QED
  BY <1>3, <1>4

\* Two OIDs with the same arcs are the same.
LEMMA SameArcs ==
  ASSUME NEW s \in OID, NEW t \in OID, Len(s) = Len(t), \A j \in 1 .. Len(s) : s[j] = t[j]
  PROVE  s = t
BY DEF OID

\* What it is to be a prefix, arc by arc.
LEMMA PrefixArcs ==
  ASSUME NEW s \in OID, NEW t \in OID
  PROVE  IsPrefix(s, t) <=> Len(s) <= Len(t) /\ \A j \in 1 .. Len(s) : s[j] = t[j]
BY DEF IsPrefix, OID

\* snmp_oid_compare() looks for the first difference.
LEMMA LessWhere ==
  ASSUME NEW s \in OID, NEW t \in OID
  PROVE  OidLess(s, t) <=> \E k \in Nat : LessAt(s, t, k)
<1>0. IsPrefix(s, t) <=> Len(s) <= Len(t) /\ \A j \in 1 .. Len(s) : s[j] = t[j]
  BY PrefixArcs
<1>1. Len(s) \in Nat /\ Len(t) \in Nat
  BY DEF OID
<1> DEFINE both == DOMAIN s \cap DOMAIN t
<1>a. DOMAIN s = 1 .. Len(s) /\ DOMAIN t = 1 .. Len(t)
  BY DEF OID
<1>b. \A i : i \in both <=> i \in 1 .. Len(s) /\ i \in 1 .. Len(t)
  BY <1>a
<1> HIDE DEF both
<1>2. ASSUME OidLess(s, t)
      PROVE  \E k \in Nat : LessAt(s, t, k)
  <2>1. CASE IsStrictPrefix(s, t)
    <3>1. Len(s) <= Len(t) /\ s # t /\ \A j \in 1 .. Len(s) : s[j] = t[j]
      BY <1>0, <2>1 DEF IsStrictPrefix
    <3>2. Len(s) # Len(t)
      BY <3>1, SameArcs
    <3>3. LessAt(s, t, Len(s))
      BY <1>1, <3>1, <3>2 DEF LessAt
    <3>4. QED
      BY <1>1, <3>3
  <2>2. CASE \E i \in both : s[i] < t[i] /\ \A j \in 1 .. i - 1 : s[j] = t[j]
    <3>1. PICK i \in both : s[i] < t[i] /\ \A j \in 1 .. i - 1 : s[j] = t[j]
      BY <2>2
    <3>2. i - 1 \in Nat /\ LessAt(s, t, i - 1)
      BY <1>1, <1>b, <3>1 DEF LessAt
    <3>3. QED
      BY <3>2
  <2>3. QED
    BY <1>2, <2>1, <2>2 DEF OidLess, both
<1>3. ASSUME NEW k \in Nat, LessAt(s, t, k)
      PROVE  OidLess(s, t)
  <2>1. CASE k = Len(s)
    <3>1. IsPrefix(s, t) /\ s # t
      BY <1>0, <1>1, <1>3, <2>1 DEF LessAt
    <3>2. QED
      BY <3>1 DEF OidLess, IsStrictPrefix
  <2>2. CASE k < Len(s)
    <3>1. /\ k + 1 \in both /\ s[k + 1] < t[k + 1]
          /\ \A j \in 1 .. (k + 1) - 1 : s[j] = t[j]
      BY <1>1, <1>b, <1>3, <2>2 DEF LessAt
    <3>2. QED
      BY <3>1 DEF OidLess, both
  <2>3. QED
    BY <1>1, <1>3, <2>1, <2>2 DEF LessAt
<1>4. QED
  BY <1>2, <1>3

\* No OID is less than itself.
LEMMA LessIrreflexive ==
  ASSUME NEW s \in OID
  PROVE  ~OidLess(s, s)
<1>1. ASSUME NEW k \in Nat, LessAt(s, s, k)
      PROVE  FALSE
  <2>1. k + 1 \in 1 .. Len(s) /\ s[k + 1] < s[k + 1]
    BY <1>1 DEF LessAt, OID
  <2>2. s[k + 1] \in Nat
    BY <2>1 DEF OID
  <2>3. QED
    BY <2>1, <2>2
<1>2. QED
  BY <1>1, LessWhere

\* The order of OIDs is transitive.
LEMMA LessTransitive ==
  ASSUME NEW s \in OID, NEW t \in OID, NEW u \in OID, OidLess(s, t), OidLess(t, u)
  PROVE  OidLess(s, u)
<1>1. PICK k \in Nat : LessAt(s, t, k)
  BY LessWhere
<1>2. PICK l \in Nat : LessAt(t, u, l)
  BY LessWhere
<1>3. Len(s) \in Nat /\ Len(t) \in Nat /\ Len(u) \in Nat
  BY DEF OID
<1>4. /\ \A j \in 1 .. Len(s) : s[j] \in Nat
      /\ \A j \in 1 .. Len(t) : t[j] \in Nat
      /\ \A j \in 1 .. Len(u) : u[j] \in Nat
  BY DEF OID
<1>5. CASE k <= l
  <2>1. /\ k <= Len(s) /\ k < Len(u)
        /\ \A j \in 1 .. k : s[j] = u[j]
    BY <1>1, <1>2, <1>3, <1>5 DEF LessAt
  <2>2. ASSUME k < Len(s)
        PROVE  s[k + 1] < u[k + 1]
    <3>1. s[k + 1] < t[k + 1] /\ k + 1 \in 1 .. Len(s) /\ k + 1 \in 1 .. Len(t) /\ k + 1 \in 1 .. Len(u)
      BY <1>1, <1>3, <2>1, <2>2 DEF LessAt
    <3>2. t[k + 1] = u[k + 1] \/ t[k + 1] < u[k + 1]
      BY <1>2, <1>3, <1>5, <3>1 DEF LessAt
    <3>3. s[k + 1] \in Nat /\ t[k + 1] \in Nat /\ u[k + 1] \in Nat
      BY <1>4, <3>1
    <3>4. QED
      BY <3>1, <3>2, <3>3
  <2>3. LessAt(s, u, k)
    BY <2>1, <2>2 DEF LessAt
  <2>4. QED
    BY <2>3, LessWhere
<1>6. CASE l < k
  <2>1. /\ l < Len(s) /\ l < Len(t) /\ l < Len(u)
        /\ \A j \in 1 .. l : s[j] = u[j]
        /\ s[l + 1] = t[l + 1]
    BY <1>1, <1>2, <1>3, <1>6 DEF LessAt
  <2>2. s[l + 1] < u[l + 1]
    BY <1>2, <2>1 DEF LessAt
  <2>3. LessAt(s, u, l)
    BY <1>3, <2>1, <2>2 DEF LessAt
  <2>4. QED
    BY <2>3, LessWhere
<1>7. QED
  BY <1>5, <1>6

\* Of two OIDs, only one is less than the other.
LEMMA LessAsymmetric ==
  ASSUME NEW s \in OID, NEW t \in OID, OidLess(s, t)
  PROVE  ~OidLess(t, s)
BY LessTransitive, LessIrreflexive

\* Any two OIDs are ordered.
LEMMA LessTotal ==
  ASSUME NEW s \in OID, NEW t \in OID, ~OidLess(s, t), s # t
  PROVE  OidLess(t, s)
<1>1. Len(s) \in Nat /\ Len(t) \in Nat
  BY DEF OID
<1> DEFINE D == {k \in Nat : \/ k = Len(s) \/ k = Len(t)
                             \/ k < Len(s) /\ k < Len(t) /\ s[k + 1] # t[k + 1]}
<1>2. D \in SUBSET Nat /\ Len(s) \in D /\ Len(t) \in D
  BY <1>1
<1>3. PICK k \in D : \A x \in D : k <= x
  BY <1>2, LeastNatural, Zenon
<1>4. k \in Nat /\ k <= Len(s) /\ k <= Len(t)
  BY <1>2, <1>3
<1>5. \A j \in 1 .. k : s[j] = t[j]
  <2> SUFFICES ASSUME NEW j \in 1 .. k
               PROVE  s[j] = t[j]
    OBVIOUS
  <2>1. j - 1 \in Nat /\ j - 1 < k /\ j - 1 < Len(s) /\ j - 1 < Len(t) /\ (j - 1) + 1 = j
    BY <1>1, <1>4
  <2>2. j - 1 \notin D
    BY <1>2, <1>3, <1>4, <2>1
  <2>3. QED
    BY <2>1, <2>2
<1>6. \/ k = Len(s) \/ k = Len(t)
      \/ k < Len(s) /\ k < Len(t) /\ s[k + 1] # t[k + 1]
  BY <1>3
<1>7. CASE k = Len(s) /\ k = Len(t)
  BY <1>5, <1>7, SameArcs
<1>8. CASE k = Len(s) /\ k < Len(t)
  <2>1. LessAt(s, t, k)
    BY <1>4, <1>5, <1>8 DEF LessAt
  <2>2. QED
    BY <1>4, <2>1, LessWhere
<1>9. CASE k = Len(t) /\ k < Len(s)
  <2>1. LessAt(t, s, k)
    BY <1>4, <1>5, <1>9 DEF LessAt
  <2>2. QED
    BY <1>4, <2>1, LessWhere
<1>10. CASE k < Len(s) /\ k < Len(t) /\ s[k + 1] # t[k + 1]
  <2>0. k + 1 \in 1 .. Len(s) /\ k + 1 \in 1 .. Len(t)
    BY <1>1, <1>4, <1>10
  <2>1. s[k + 1] \in Nat /\ t[k + 1] \in Nat
    BY <2>0 DEF OID
  <2>2. CASE s[k + 1] < t[k + 1]
    <3>1. LessAt(s, t, k)
      BY <1>4, <1>5, <1>10, <2>2 DEF LessAt
    <3>2. QED
      BY <1>4, <3>1, LessWhere
  <2>3. CASE t[k + 1] < s[k + 1]
    <3>1. LessAt(t, s, k)
      BY <1>4, <1>5, <1>10, <2>3 DEF LessAt
    <3>2. QED
      BY <1>4, <3>1, LessWhere
  <2>4. QED
    BY <1>10, <2>1, <2>2, <2>3
<1>11. QED
  BY <1>4, <1>6, <1>7, <1>8, <1>9, <1>10, <1>1

\* The empty OID is before all others, and nothing is before it.
LEMMA LessThanEmpty ==
  ASSUME NEW t \in OID
  PROVE  /\ <<>> \in OID
         /\ t # <<>> => OidLess(<<>>, t)
         /\ ~OidLess(t, <<>>)
<1>1. <<>> \in OID /\ Len(<<>>) = 0 /\ Len(t) \in Nat
  BY DEF OID
<1>2. ASSUME t # <<>>
      PROVE  OidLess(<<>>, t)
  <2>1. 0 < Len(t)
    BY <1>1, <1>2 DEF OID
  <2>2. LessAt(<<>>, t, 0)
    BY <1>1, <2>1 DEF LessAt
  <2>3. QED
    BY <1>1, <2>2, LessWhere
<1>3. QED
  BY <1>1, <1>2, LessAsymmetric, LessIrreflexive

\* o is the instance of a table in column c and row r.
IsCell(o, c, r) ==
  /\ o \in OID /\ Len(o) = Len(r) + 2 /\ o[1] = 1 /\ o[2] = c
  /\ \A j \in 1 .. Len(r) : o[j + 2] = r[j]

\* Column and row together are an instance.
LEMMA CellOid ==
  ASSUME NEW c \in Nat, NEW r \in OID
  PROVE  IsCell(<<1, c>> \o r, c, r)
<1>1. PICK h \in OID : h = <<1, c>> /\ Len(h) = 2 /\ h[1] = 1 /\ h[2] = c
  <2>1. <<1, c>> \in OID /\ Len(<<1, c>>) = 2 /\ <<1, c>>[1] = 1 /\ <<1, c>>[2] = c
    BY DEF OID
  <2>2. QED
    BY <2>1, Zenon
<1>2. h \o r \in OID /\ Len(h \o r) = 2 + Len(r) /\ Len(r) \in Nat
  BY <1>1 DEF OID
<1>3. \A i \in 1 .. Len(r) + 2 : (h \o r)[i] = IF i <= 2 THEN h[i] ELSE r[i - 2]
  BY <1>1, <1>2 DEF OID
<1>4. (h \o r)[1] = 1 /\ (h \o r)[2] = c
  BY <1>1, <1>2, <1>3
<1>5. \A j \in 1 .. Len(r) : (h \o r)[j + 2] = r[j]
  <2> SUFFICES ASSUME NEW j \in 1 .. Len(r)
               PROVE  (h \o r)[j + 2] = r[j]
    OBVIOUS
  <2>1. j + 2 \in 1 .. Len(r) + 2 /\ ~(j + 2 <= 2) /\ (j + 2) - 2 = j
    BY <1>2
  <2>2. QED
    BY <1>3, <2>1
<1>6. QED
  BY <1>1, <1>2, <1>4, <1>5 DEF IsCell

\* The arcs of an OID behind the column.
LEMMA RowPart ==
  ASSUME NEW s \in OID
  PROVE  /\ SubSeq(s, 3, Len(s)) \in OID
         /\ Len(s) < 2 => SubSeq(s, 3, Len(s)) = <<>>
         /\ Len(s) >= 2 => /\ Len(SubSeq(s, 3, Len(s))) = Len(s) - 2
                           /\ \A j \in 1 .. Len(s) - 2 : SubSeq(s, 3, Len(s))[j] = s[j + 2]
<1>1. PICK n \in Nat : n = Len(s)
  BY DEF OID
<1>2. PICK t : t = SubSeq(s, 3, n)
  OBVIOUS
<1>3. Len(t) = (IF n >= 2 THEN n - 2 ELSE 0) /\ \A j \in 1 .. n - 2 : t[j] = s[j + 2]
  <2>1. Len(t) = IF 3 <= n THEN (n - 3) + 1 ELSE 0
    BY <1>1, <1>2 DEF OID
  <2>2. \A j \in 1 .. n - 2 : t[j] = s[(3 + j) - 1]
    BY <1>1, <1>2 DEF OID
  <2>3. \A j \in 1 .. n - 2 : (3 + j) - 1 = j + 2
    OBVIOUS
  <2>4. QED
    BY <2>1, <2>2, <2>3
<1>4. t \in OID
  BY <1>1, <1>2, SubSeqProperties DEF OID
<1>5. n < 2 => t = <<>>
  BY <1>3, <1>4 DEF OID
<1>6. QED
  BY <1>1, <1>2, <1>3, <1>4, <1>5

\* The row of an instance.
LEMMA RowOfCell ==
  ASSUME NEW o, NEW c, NEW r \in OID, IsCell(o, c, r)
  PROVE  SubSeq(o, 3, Len(o)) = r
<1>1. o \in OID /\ Len(o) = Len(r) + 2 /\ Len(r) \in Nat
  BY DEF IsCell, OID
<1>2. PICK t : t = SubSeq(o, 3, Len(o))
  OBVIOUS
<1>3. t \in OID /\ Len(t) = Len(r) /\ \A j \in 1 .. Len(r) : t[j] = o[j + 2]
  BY <1>1, <1>2, RowPart
<1>4. t = r
  BY <1>3, SameArcs DEF IsCell
<1>5. QED
  BY <1>2, <1>4

\* Where an instance is behind an OID that names no row entry, or another one.
LEMMA CellBehindEntry ==
  ASSUME NEW s \in OID, NEW o, NEW c \in Nat, NEW r \in OID, IsCell(o, c, r)
  PROVE  /\ s = <<>> \/ s[1] = 0 => OidLess(s, o)
         /\ Len(s) = 1 /\ s[1] = 1 => OidLess(s, o)
         /\ s # <<>> /\ s[1] > 1 => ~OidLess(s, o)
<1>1. o \in OID /\ Len(o) = Len(r) + 2 /\ Len(r) \in Nat /\ o[1] = 1
  BY DEF IsCell, OID
<1>2. o # <<>>
  BY <1>1 DEF OID
<1>3. s = <<>> => OidLess(s, o)
  BY <1>1, <1>2, LessThanEmpty
<1>4. ASSUME s # <<>>
      PROVE  /\ Len(s) \in Nat /\ Len(s) > 0 /\ s[1] \in Nat
             /\ s[1] = 0 => LessAt(s, o, 0)
             /\ s[1] > 1 => LessAt(o, s, 0)
             /\ Len(s) = 1 /\ s[1] = 1 => LessAt(s, o, 1)
  <2>1. Len(s) \in Nat /\ Len(s) > 0
    BY <1>4 DEF OID
  <2>2. s[1] \in Nat
    BY <2>1 DEF OID
  <2>3. QED
    BY <1>1, <2>1, <2>2 DEF LessAt
<1>5. s # <<>> /\ s[1] = 0 => OidLess(s, o)
  BY <1>1, <1>4, LessWhere
<1>6. s # <<>> /\ s[1] > 1 => ~OidLess(s, o)
  BY <1>1, <1>4, LessWhere, LessAsymmetric
<1>7. s # <<>> /\ Len(s) = 1 /\ s[1] = 1 => OidLess(s, o)
  BY <1>1, <1>4, LessWhere
<1>8. QED
  BY <1>3, <1>5, <1>6, <1>7

\* Behind an OID with the row entry and a column, instances are in the order of columns and
\* then in that of rows.
LEMMA CellBehind ==
  ASSUME NEW s \in OID, Len(s) >= 2, s[1] = 1, NEW o, NEW c \in Nat, NEW r \in OID,
         IsCell(o, c, r)
  PROVE  /\ s[2] \in Nat
         /\ OidLess(s, o) <=> s[2] < c \/ (s[2] = c /\ OidLess(SubSeq(s, 3, Len(s)), r))
<1>1. o \in OID /\ Len(o) = Len(r) + 2 /\ Len(r) \in Nat /\ o[1] = 1 /\ o[2] = c
  BY DEF IsCell, OID
<1>2. Len(s) \in Nat /\ s[2] \in Nat
  BY DEF OID
<1>3. PICK t \in OID : /\ t = SubSeq(s, 3, Len(s)) /\ Len(t) = Len(s) - 2
                       /\ \A j \in 1 .. Len(s) - 2 : t[j] = s[j + 2]
  BY RowPart
<1>4. s[2] < c => OidLess(s, o)
  <2>1. s[2] < c => LessAt(s, o, 1)
    BY <1>1, <1>2 DEF LessAt
  <2>2. QED
    BY <1>1, <2>1, LessWhere
<1>5. s[2] > c => ~OidLess(s, o)
  <2>1. s[2] > c => LessAt(o, s, 1)
    BY <1>1, <1>2 DEF LessAt
  <2>2. QED
    BY <1>1, <2>1, LessWhere, LessAsymmetric
<1>6. ASSUME s[2] = c, NEW k \in Nat, LessAt(t, r, k)
      PROVE  LessAt(s, o, k + 2)
  <2>1. k + 2 \in Nat /\ k + 2 <= Len(s) /\ k + 2 < Len(o)
    BY <1>1, <1>2, <1>3, <1>6 DEF LessAt
  <2>2. ASSUME NEW j \in 1 .. k + 2
        PROVE  s[j] = o[j]
    <3>1. CASE j \in {1, 2}
      BY <1>1, <1>6, <3>1
    <3>2. CASE j \notin {1, 2}
      <4>1. j - 2 \in 1 .. k /\ j - 2 \in 1 .. Len(s) - 2 /\ j - 2 \in 1 .. Len(r) /\ (j - 2) + 2 = j
        BY <1>1, <1>2, <2>1, <3>2
      <4>2. t[j - 2] = r[j - 2] /\ t[j - 2] = s[j] /\ r[j - 2] = o[j]
        BY <1>3, <1>6, <4>1 DEF LessAt, IsCell
      <4>3. QED
        BY <4>2
    <3>3. QED
      BY <3>1, <3>2
  <2>3. ASSUME k + 2 < Len(s)
        PROVE  s[(k + 2) + 1] < o[(k + 2) + 1]
    <3>1. /\ k + 1 \in 1 .. Len(s) - 2 /\ k + 1 \in 1 .. Len(r) /\ (k + 1) + 2 = (k + 2) + 1
          /\ k < Len(t)
      BY <1>1, <1>2, <1>3, <2>1, <2>3
    <3>2. t[k + 1] < r[k + 1] /\ t[k + 1] = s[(k + 2) + 1] /\ r[k + 1] = o[(k + 2) + 1]
      BY <1>3, <1>6, <3>1 DEF LessAt, IsCell
    <3>3. QED
      BY <3>2
  <2>4. QED
    BY <2>1, <2>2, <2>3 DEF LessAt
<1>7. ASSUME s[2] = c, OidLess(t, r)
      PROVE  OidLess(s, o)
  <2>1. PICK k \in Nat : LessAt(t, r, k)
    BY <1>3, <1>7, LessWhere
  <2>2. LessAt(s, o, k + 2) /\ k + 2 \in Nat
    BY <1>6, <1>7, <2>1
  <2>3. QED
    BY <1>1, <2>2, LessWhere
<1>8. ASSUME s[2] = c, ~OidLess(t, r)
      PROVE  ~OidLess(s, o)
  <2>1. CASE t = r
    <3>1. Len(s) = Len(o)
      BY <1>1, <1>2, <1>3, <2>1
    <3>2. ASSUME NEW j \in 1 .. Len(s)
          PROVE  s[j] = o[j]
      <4>1. CASE j \in {1, 2}
        BY <1>1, <1>8, <4>1
      <4>2. CASE j \notin {1, 2}
        <5>1. j - 2 \in 1 .. Len(s) - 2 /\ j - 2 \in 1 .. Len(r) /\ (j - 2) + 2 = j
          BY <1>1, <1>2, <3>1, <4>2
        <5>2. t[j - 2] = s[j] /\ r[j - 2] = o[j]
          BY <1>3, <5>1 DEF IsCell
        <5>3. QED
          BY <2>1, <5>2
      <4>3. QED
        BY <4>1, <4>2
    <3>3. s = o
      BY <1>1, <3>1, <3>2, SameArcs
    <3>4. QED
      BY <3>3, LessIrreflexive
  <2>2. CASE t # r
    <3>1. PICK k \in Nat : LessAt(r, t, k)
      BY <1>3, <1>8, <2>2, LessTotal, LessWhere
    <3>2. LessAt(o, s, k + 2)
      <4>1. k + 2 \in Nat /\ k + 2 <= Len(o) /\ k + 2 < Len(s)
        BY <1>1, <1>2, <1>3, <3>1 DEF LessAt
      <4>2. ASSUME NEW j \in 1 .. k + 2
            PROVE  o[j] = s[j]
        <5>1. CASE j \in {1, 2}
          BY <1>1, <1>8, <5>1
        <5>2. CASE j \notin {1, 2}
          <6>1. j - 2 \in 1 .. k /\ j - 2 \in 1 .. Len(s) - 2 /\ j - 2 \in 1 .. Len(r) /\ (j - 2) + 2 = j
            BY <1>1, <1>2, <4>1, <5>2
          <6>2. t[j - 2] = r[j - 2] /\ t[j - 2] = s[j] /\ r[j - 2] = o[j]
            BY <1>3, <3>1, <6>1 DEF LessAt, IsCell
          <6>3. QED
            BY <6>2
        <5>3. QED
          BY <5>1, <5>2
      <4>3. ASSUME k + 2 < Len(o)
            PROVE  o[(k + 2) + 1] < s[(k + 2) + 1]
        <5>1. /\ k + 1 \in 1 .. Len(s) - 2 /\ k + 1 \in 1 .. Len(r) /\ (k + 1) + 2 = (k + 2) + 1
              /\ k < Len(r)
          BY <1>1, <1>2, <4>1, <4>3
        <5>2. r[k + 1] < t[k + 1] /\ t[k + 1] = s[(k + 2) + 1] /\ r[k + 1] = o[(k + 2) + 1]
          BY <1>3, <3>1, <5>1 DEF LessAt, IsCell
        <5>3. QED
          BY <5>2
      <4>4. QED
        BY <4>1, <4>2, <4>3 DEF LessAt
    <3>3. OidLess(o, s)
      <4>1. k + 2 \in Nat
        OBVIOUS
      <4>2. QED
        BY <1>1, <3>2, <4>1, LessWhere
    <3>4. QED
      BY <1>1, <3>3, LessAsymmetric
  <2>3. QED
    BY <2>1, <2>2
<1>9. QED
  BY <1>2, <1>3, <1>4, <1>5, <1>7, <1>8

-----------------------------------------------------------------------------
(* The rows of the tables.                                                 *)

Interfaces == [netif : Netifs, up : BOOLEAN, link : BOOLEAN]

\* The lists of the stack; an interface is in its list once.
ListsTyped ==
  /\ netif_list \in Seq(Interfaces)
  /\ \A i, j \in 1 .. Len(netif_list) : netif_list[i].netif = netif_list[j].netif => i = j
  /\ netif_default = NoNetif \/ \E i \in 1 .. Len(netif_list) : netif_list[i].netif = netif_default
  /\ udp_pcbs \in Seq(Pcbs)
  /\ changes \in Nat

\* A row with an OID of at most room arcs.
IsRow(row, room) ==
  /\ row = RowOf(row.oid, row.of, row.default)
  /\ row.oid \in OID /\ row.oid # <<>> /\ Len(row.oid) <= room

\* Rows are a sequence of such.
AreRows(rows, room) ==
  /\ rows \in Seq(ToSet(rows)) /\ Len(rows) \in Nat /\ DOMAIN rows = 1 .. Len(rows)
  /\ \A i \in 1 .. Len(rows) : IsRow(rows[i], room)

\* A sequence is one over its elements.
LEMMA OverElements ==
  ASSUME NEW A, NEW s \in Seq(A)
  PROVE  s \in Seq(ToSet(s)) /\ Len(s) \in Nat /\ DOMAIN s = 1 .. Len(s)
<1>1. \A i \in 1 .. Len(s) : s[i] \in ToSet(s)
  BY DEF ToSet
<1>2. QED
  BY <1>1

\* An address as four arcs.
LEMMA AddressArcs ==
  ASSUME NEW ip \in Addresses4
  PROVE  /\ ip \in OID /\ Len(ip) = 4 /\ ip # <<>> /\ DOMAIN ip = 1 .. 4
         /\ \A i \in 1 .. 4 : ip[i] \in 0 .. 255
<1>1. DOMAIN ip = 1 .. 4 /\ \A i \in 1 .. 4 : ip[i] \in 0 .. 255
  BY DEF Addresses4
<1>2. ip \in OID /\ Len(ip) = 4
  <2>1. ip = [i \in 1 .. 4 |-> ip[i]]
    BY DEF Addresses4
  <2>2. \A i \in 1 .. 4 : ip[i] \in Nat
    BY <1>1
  <2>3. QED
    BY <2>1, <2>2 DEF OID
<1>3. ip # <<>>
  <2>1. Len(<<>>) = 0 /\ 4 # 0
    OBVIOUS
  <2>2. QED
    BY <1>2, <2>1, Zenon
<1>4. QED
  BY <1>1, <1>2, <1>3

\* u are the arcs of s and then those of t.
JoinOf(u, s, t) ==
  /\ u \in OID /\ Len(s) \in Nat /\ Len(t) \in Nat /\ Len(u) = Len(s) + Len(t)
  /\ \A i \in 1 .. Len(s) : u[i] = s[i]
  /\ \A i \in 1 .. Len(t) : u[Len(s) + i] = t[i]

\* Two OIDs put together are one.
LEMMA OidsJoined ==
  ASSUME NEW s \in OID, NEW t \in OID
  PROVE  JoinOf(s \o t, s, t)
<1>1. s \o t \in OID /\ Len(s) \in Nat /\ Len(t) \in Nat /\ Len(s \o t) = Len(s) + Len(t)
  BY DEF OID
<1>2. \A i \in 1 .. Len(s) + Len(t) : (s \o t)[i] = IF i <= Len(s) THEN s[i] ELSE t[i - Len(s)]
  BY DEF OID
<1>3. \A i \in 1 .. Len(s) : (s \o t)[i] = s[i]
  BY <1>1, <1>2
<1>4. ASSUME NEW i \in 1 .. Len(t)
      PROVE  (s \o t)[Len(s) + i] = t[i]
  <2>1. Len(s) + i \in 1 .. Len(s) + Len(t) /\ ~(Len(s) + i <= Len(s)) /\ (Len(s) + i) - Len(s) = i
    BY <1>1
  <2>2. QED
    BY <1>2, <2>1
<1>5. QED
  BY <1>1, <1>3, <1>4 DEF JoinOf

\* One arc is an OID.
LEMMA OneArc ==
  ASSUME NEW a \in Nat
  PROVE  <<a>> \in OID /\ Len(<<a>>) = 1 /\ <<a>>[1] = a /\ <<a>> # <<>>
BY DEF OID

\* An address with its type and length, and a port.
LEMMA IpPortArcs ==
  ASSUME NEW ip \in Addresses4, NEW port \in Nat
  PROVE  /\ IpPortToOid(ip, port) \in OID /\ Len(IpPortToOid(ip, port)) = 7
         /\ IpPortToOid(ip, port)[1] = 1 /\ IpPortToOid(ip, port)[2] = 4
         /\ \A i \in 1 .. 4 : IpPortToOid(ip, port)[i + 2] = ip[i]
         /\ IpPortToOid(ip, port)[7] = port
<1>1. PICK h \in OID : h = <<1, 4>> /\ Len(h) = 2 /\ h[1] = 1 /\ h[2] = 4
  <2>1. <<1, 4>> \in OID /\ Len(<<1, 4>>) = 2 /\ <<1, 4>>[1] = 1 /\ <<1, 4>>[2] = 4
    BY DEF OID
  <2>2. QED
    BY <2>1, Zenon
<1>2. PICK p \in OID : p = <<port>> /\ Len(p) = 1 /\ p[1] = port
  BY OneArc, Zenon
<1>3. PICK a, u : a = h \o ip /\ u = a \o p
  OBVIOUS
<1>4. ip \in OID /\ Len(ip) = 4
  BY AddressArcs
<1>5. JoinOf(a, h, ip)
  BY <1>1, <1>3, <1>4, OidsJoined
<1>6. /\ a \in OID /\ Len(a) = 6 /\ a[1] = 1 /\ a[2] = 4
      /\ \A i \in 1 .. 4 : a[2 + i] = ip[i]
  BY <1>1, <1>4, <1>5 DEF JoinOf
<1>7. JoinOf(u, a, p)
  BY <1>2, <1>3, <1>6, OidsJoined
<1>8. u \in OID /\ Len(u) = 7 /\ (\A i \in 1 .. 6 : u[i] = a[i]) /\ u[6 + 1] = port
  BY <1>2, <1>6, <1>7 DEF JoinOf
<1>9. /\ u[1] = 1 /\ u[2] = 4 /\ u[7] = port
      /\ \A i \in 1 .. 4 : u[i + 2] = ip[i]
  <2>1. ASSUME NEW i \in 1 .. 4
        PROVE  u[i + 2] = ip[i]
    <3>1. i + 2 = 2 + i /\ i + 2 \in 1 .. 6
      OBVIOUS
    <3>2. QED
      BY <1>6, <1>8, <3>1
  <2>2. u[1] = 1 /\ u[2] = 4 /\ u[7] = port
    BY <1>6, <1>8
  <2>3. QED
    BY <2>1, <2>2
<1>10. IpPortToOid(ip, port) = u
  BY <1>1, <1>2, <1>3 DEF IpPortToOid, IpToOid
<1>11. QED
  BY <1>8, <1>9, <1>10

\* The rows of a list are as many as its elements.
LEMMA RowsOfList ==
  ASSUME NEW n \in Nat, NEW R, NEW room, R = [i \in 1 .. n |-> R[i]],
         \A i \in 1 .. n : IsRow(R[i], room)
  PROVE  AreRows(R, room) /\ Len(R) = n
<1>1. R \in Seq(ToSet(R)) /\ Len(R) = n /\ DOMAIN R = 1 .. n
  <2>1. DOMAIN R = 1 .. n
    OBVIOUS
  <2>2. \A i \in 1 .. n : R[i] \in ToSet(R)
    BY <2>1 DEF ToSet
  <2>3. QED
    BY <2>1, <2>2
<1>2. QED
  BY <1>1 DEF AreRows

\* What is assumed of an interface, and of a control block.
LEMMA NetifFacts ==
  ASSUME NEW n \in Netifs
  PROVE  /\ n # NoNetif /\ n.num \in 0 .. 254
         /\ n.ip \in Addresses4 /\ n.mask \in Addresses4 /\ n.gw \in Addresses4
         /\ NetifToNum(n) \in 1 .. 255
<1>1. /\ n # NoNetif /\ n.num \in NetifNumbers
      /\ n.ip \in Addresses4 /\ n.mask \in Addresses4 /\ n.gw \in Addresses4
  BY NetifsAssumption DEF NetifsAssumption
<1>2. n.num \in 0 .. 254 /\ NetifToNum(n) \in 1 .. 255
  BY <1>1 DEF NetifNumbers, NetifToNum
<1>3. QED
  BY <1>1, <1>2

\* Two interfaces have different numbers.
LEMMA NumbersDiffer ==
  ASSUME NEW n \in Netifs, NEW m \in Netifs, NetifToNum(n) = NetifToNum(m)
  PROVE  n = m
<1>1. n.num \in 0 .. 254 /\ m.num \in 0 .. 254
  BY NetifFacts
<1>2. n.num + 1 = m.num + 1
  BY Zenon DEF NetifToNum
<1>3. \A k, l \in 0 .. 254 : k + 1 = l + 1 => k = l
  OBVIOUS
<1>4. m.num = n.num
  BY <1>1, <1>2, <1>3
<1>5. QED
  BY <1>4, NetifsAssumption DEF NetifsAssumption

\* Both ends of a control block are addresses and ports.
LEMMA PcbFacts ==
  ASSUME NEW p \in Pcbs
  PROVE  /\ p.local_ip \in Addresses4 /\ p.remote_ip \in Addresses4
         /\ p.local_port \in Ports /\ p.remote_port \in Ports
         /\ p.local_port \in Nat /\ p.remote_port \in Nat
<1>1. /\ p.local_ip \in Addresses4 /\ p.remote_ip \in Addresses4
      /\ p.local_port \in Ports /\ p.remote_port \in Ports
  BY PcbsAssumption DEF PcbsAssumption
<1>2. \A k \in Ports : k \in Nat
  BY DEF Ports
<1>3. QED
  BY <1>1, <1>2

\* The fields of a row.
LEMMA RowFields ==
  ASSUME NEW oid, NEW of, NEW default
  PROVE  /\ RowOf(oid, of, default).oid = oid
         /\ RowOf(oid, of, default).of = of
         /\ RowOf(oid, of, default).default = default
BY DEF RowOf

\* A row made of an OID is one.
LEMMA IsRowOf ==
  ASSUME NEW oid \in OID, oid # <<>>, NEW room, Len(oid) <= room, NEW of, NEW default
  PROVE  IsRow(RowOf(oid, of, default), room)
BY RowFields DEF IsRow

\* The interfaces of the list.
LEMMA ListElements ==
  ASSUME ListsTyped
  PROVE  /\ Len(netif_list) \in Nat /\ DOMAIN netif_list = 1 .. Len(netif_list)
         /\ \A i \in 1 .. Len(netif_list) :
              netif_list[i] \in Interfaces /\ netif_list[i].netif \in Netifs
         /\ Len(udp_pcbs) \in Nat /\ DOMAIN udp_pcbs = 1 .. Len(udp_pcbs)
         /\ \A i \in 1 .. Len(udp_pcbs) : udp_pcbs[i] \in Pcbs
<1>1. netif_list \in Seq(Interfaces) /\ udp_pcbs \in Seq(Pcbs)
  BY DEF ListsTyped
<1>2. \A i \in 1 .. Len(netif_list) : netif_list[i] \in Interfaces
  BY <1>1
<1>3. \A x \in Interfaces : x.netif \in Netifs
  BY DEF Interfaces
<1>4. QED
  BY <1>1, <1>2, <1>3

\* interfaces_Table: the numbers of the interfaces.
LEMMA InterfaceRowsAre ==
  ASSUME ListsTyped
  PROVE  /\ AreRows(InterfaceRows, 1) /\ Len(InterfaceRows) = Len(netif_list)
         /\ \A i \in 1 .. Len(netif_list) :
              /\ netif_list[i] \in Interfaces /\ netif_list[i].netif \in Netifs
              /\ NetifToNum(netif_list[i].netif) \in 1 .. 255
              /\ InterfaceRows[i] = RowOf(<<NetifToNum(netif_list[i].netif)>>, netif_list[i], FALSE)
<1>1. PICK n \in Nat : n = Len(netif_list) /\ DOMAIN netif_list = 1 .. n
  BY DEF ListsTyped
<1>2. \A i \in 1 .. n : netif_list[i] \in Interfaces /\ netif_list[i].netif \in Netifs
  BY <1>1, ListElements
<1>3. \A i \in 1 .. n : NetifToNum(netif_list[i].netif) \in 1 .. 255
  BY <1>2, NetifFacts
<1>4. PICK R : R = InterfaceRows
  OBVIOUS
<1>5. /\ R = [i \in 1 .. n |-> R[i]]
      /\ \A i \in 1 .. n : R[i] = RowOf(<<NetifToNum(netif_list[i].netif)>>, netif_list[i], FALSE)
  BY <1>1, <1>4 DEF InterfaceRows
<1>6. ASSUME NEW i \in 1 .. n
      PROVE  IsRow(R[i], 1)
  <2>1. PICK a : a = <<NetifToNum(netif_list[i].netif)>>
    OBVIOUS
  <2>2. a \in OID /\ Len(a) = 1 /\ a # <<>>
    BY <1>3, <2>1, OneArc
  <2>3. R[i] = RowOf(a, netif_list[i], FALSE)
    BY <1>5, <2>1
  <2>4. Len(a) <= 1
    BY <2>2
  <2>5. IsRow(RowOf(a, netif_list[i], FALSE), 1)
    BY <2>2, <2>4, IsRowOf, Zenon
  <2>6. QED
    BY <2>3, <2>5, Zenon
<1>7. AreRows(R, 1) /\ Len(R) = n
  BY <1>5, <1>6, RowsOfList
<1>8. QED
  BY <1>1, <1>2, <1>3, <1>4, <1>5, <1>7

\* ip_AddrTable: the addresses of the interfaces.
LEMMA AddrRowsAre ==
  ASSUME ListsTyped
  PROVE  /\ AreRows(AddrRows, 4) /\ Len(AddrRows) = Len(netif_list)
         /\ \A i \in 1 .. Len(netif_list) :
              /\ netif_list[i].netif.ip \in Addresses4
              /\ AddrRows[i] = RowOf(netif_list[i].netif.ip, netif_list[i], FALSE)
<1>1. PICK n \in Nat : n = Len(netif_list) /\ DOMAIN netif_list = 1 .. n
  BY DEF ListsTyped
<1>2. \A i \in 1 .. n : netif_list[i].netif \in Netifs
  BY <1>1, InterfaceRowsAre
<1>3. \A i \in 1 .. n : netif_list[i].netif.ip \in Addresses4
  BY <1>2, NetifFacts
<1>4. PICK R : R = AddrRows
  OBVIOUS
<1>5. /\ R = [i \in 1 .. n |-> R[i]]
      /\ \A i \in 1 .. n : R[i] = RowOf(netif_list[i].netif.ip, netif_list[i], FALSE)
  BY <1>1, <1>4 DEF AddrRows
<1>6. ASSUME NEW i \in 1 .. n
      PROVE  IsRow(R[i], 4)
  <2>1. PICK a : a = netif_list[i].netif.ip
    OBVIOUS
  <2>2. a \in OID /\ Len(a) = 4 /\ a # <<>>
    BY <1>3, <2>1, AddressArcs
  <2>3. R[i] = RowOf(a, netif_list[i], FALSE)
    BY <1>5, <2>1
  <2>4. Len(a) <= 4
    BY <2>2
  <2>5. IsRow(RowOf(a, netif_list[i], FALSE), 4)
    BY <2>2, <2>4, IsRowOf, Zenon
  <2>6. QED
    BY <2>3, <2>5, Zenon
<1>7. AreRows(R, 4) /\ Len(R) = n
  BY <1>5, <1>6, RowsOfList
<1>8. QED
  BY <1>1, <1>3, <1>4, <1>5, <1>7

\* The networks of the interfaces.
LEMMA NetworkRowsAre ==
  ASSUME ListsTyped
  PROVE  /\ AreRows(NetworkRows, 4) /\ Len(NetworkRows) = Len(netif_list)
         /\ \A i \in 1 .. Len(netif_list) :
              /\ Network(netif_list[i].netif) \in Addresses4
              /\ NetworkRows[i] = RowOf(Network(netif_list[i].netif), netif_list[i], FALSE)
<1>1. PICK n \in Nat : n = Len(netif_list) /\ DOMAIN netif_list = 1 .. n
  BY DEF ListsTyped
<1>2. \A i \in 1 .. n : netif_list[i].netif \in Netifs
  BY <1>1, InterfaceRowsAre
<1>3. ASSUME NEW i \in 1 .. n
      PROVE  Network(netif_list[i].netif) \in Addresses4
  <2>1. PICK m : m = netif_list[i].netif
    OBVIOUS
  <2>2. m.ip \in Addresses4
    BY <1>2, <2>1, NetifFacts
  <2>3. \A j \in 1 .. 4 : m.ip[j] \in 0 .. 255
    BY <2>2 DEF Addresses4
  <2>4. Network(m) \in Addresses4
    BY <2>3 DEF Network, Addresses4
  <2>5. QED
    BY <2>1, <2>4
<1>4. PICK R : R = NetworkRows
  OBVIOUS
<1>5. /\ R = [i \in 1 .. n |-> R[i]]
      /\ \A i \in 1 .. n : R[i] = RowOf(Network(netif_list[i].netif), netif_list[i], FALSE)
  BY <1>1, <1>4 DEF NetworkRows
<1>6. ASSUME NEW i \in 1 .. n
      PROVE  IsRow(R[i], 4)
  <2>1. PICK a : a = Network(netif_list[i].netif)
    OBVIOUS
  <2>2. a \in OID /\ Len(a) = 4 /\ a # <<>>
    BY <1>3, <2>1, AddressArcs
  <2>3. R[i] = RowOf(a, netif_list[i], FALSE)
    BY <1>5, <2>1
  <2>4. Len(a) <= 4
    BY <2>2
  <2>5. IsRow(RowOf(a, netif_list[i], FALSE), 4)
    BY <2>2, <2>4, IsRowOf, Zenon
  <2>6. QED
    BY <2>3, <2>5, Zenon
<1>7. AreRows(R, 4) /\ Len(R) = n
  BY <1>5, <1>6, RowsOfList
<1>8. QED
  BY <1>1, <1>3, <1>4, <1>5, <1>7

\* The default route is that of an interface in the list.
LEMMA DefaultRowIs ==
  ASSUME ListsTyped
  PROVE  /\ netif_default = NoNetif => DefaultRow = <<>>
         /\ netif_default # NoNetif =>
              \E i \in 1 .. Len(netif_list) :
                /\ netif_list[i].netif = netif_default
                /\ DefaultRow = <<RowOf(AnyAddress, netif_list[i], TRUE)>>
         /\ AnyAddress \in Addresses4
<1>1. netif_default = NoNetif => DefaultRow = <<>>
  BY DEF DefaultRow
<1>2. ASSUME netif_default # NoNetif
      PROVE  \E i \in 1 .. Len(netif_list) :
                /\ netif_list[i].netif = netif_default
                /\ DefaultRow = <<RowOf(AnyAddress, netif_list[i], TRUE)>>
  <2>1. PICK i \in 1 .. Len(netif_list) : netif_list[i].netif = netif_default
    BY <1>2 DEF ListsTyped
  <2>2. PICK m : m = CHOOSE x \in ToSet(netif_list) : x.netif = netif_default
    OBVIOUS
  <2>3. netif_list[i] \in ToSet(netif_list)
    BY DEF ToSet, ListsTyped
  <2>4. m \in ToSet(netif_list) /\ m.netif = netif_default
    BY <2>1, <2>2, <2>3
  <2>5. PICK j \in 1 .. Len(netif_list) : m = netif_list[j]
    BY <2>4 DEF ToSet, ListsTyped
  <2>6. m = netif_list[i]
    BY <2>1, <2>4, <2>5 DEF ListsTyped
  <2>7. DefaultRow = <<RowOf(AnyAddress, m, TRUE)>>
    BY <1>2, <2>2 DEF DefaultRow
  <2>8. QED
    BY <2>1, <2>6, <2>7
<1>3. AnyAddress \in Addresses4
  BY DEF AnyAddress, Addresses4
<1>4. QED
  BY <1>1, <1>2, <1>3

\* Two sequences of rows, one behind the other.
LEMMA RowsJoined ==
  ASSUME NEW a, NEW b, NEW room, AreRows(a, room), AreRows(b, room)
  PROVE  /\ AreRows(a \o b, room) /\ Len(a \o b) = Len(a) + Len(b)
         /\ \A i \in 1 .. Len(a) : (a \o b)[i] = a[i]
         /\ \A i \in 1 .. Len(b) : (a \o b)[Len(a) + i] = b[i]
<1> DEFINE A == ToSet(a) \cup ToSet(b)
<1>1. a \in Seq(A) /\ b \in Seq(A) /\ Len(a) \in Nat /\ Len(b) \in Nat
  BY DEF AreRows
<1> HIDE DEF A
<1>2. PICK c : c = a \o b
  OBVIOUS
<1>3. /\ c \in Seq(A) /\ Len(c) = Len(a) + Len(b)
      /\ \A i \in 1 .. Len(a) + Len(b) : c[i] = IF i <= Len(a) THEN a[i] ELSE b[i - Len(a)]
  BY <1>1, <1>2
<1>4. \A i \in 1 .. Len(a) : c[i] = a[i]
  BY <1>1, <1>3
<1>5. ASSUME NEW i \in 1 .. Len(b)
      PROVE  c[Len(a) + i] = b[i]
  <2>1. Len(a) + i \in 1 .. Len(a) + Len(b) /\ ~(Len(a) + i <= Len(a)) /\ (Len(a) + i) - Len(a) = i
    BY <1>1
  <2>2. QED
    BY <1>3, <2>1
<1>6. ASSUME NEW i \in 1 .. Len(c)
      PROVE  IsRow(c[i], room)
  <2>1. CASE i <= Len(a)
    <3>1. i \in 1 .. Len(a)
      BY <1>1, <1>3, <2>1
    <3>2. QED
      BY <1>4, <3>1 DEF AreRows
  <2>2. CASE ~(i <= Len(a))
    <3>1. i - Len(a) \in 1 .. Len(b) /\ Len(a) + (i - Len(a)) = i
      BY <1>1, <1>3, <2>2
    <3>2. c[i] = b[i - Len(a)]
      BY <1>5, <3>1
    <3>3. QED
      BY <3>1, <3>2 DEF AreRows
  <2>3. QED
    BY <2>1, <2>2
<1>7. c \in Seq(ToSet(c)) /\ Len(c) \in Nat /\ DOMAIN c = 1 .. Len(c)
  BY <1>3, OverElements
<1>8. AreRows(c, room)
  BY <1>6, <1>7 DEF AreRows
<1>9. QED
  BY <1>2, <1>3, <1>4, <1>5, <1>8

\* ip_RouteTable: the default route, if there is one, and then the networks.
LEMMA RouteRowsAre ==
  ASSUME ListsTyped
  PROVE  /\ AreRows(RouteRows, 4)
         /\ netif_default = NoNetif => RouteRows = NetworkRows
         /\ netif_default # NoNetif =>
              /\ Len(RouteRows) = Len(NetworkRows) + 1
              /\ DefaultRow = <<RouteRows[1]>>
              /\ RouteRows[1].oid = AnyAddress /\ RouteRows[1].default = TRUE
              /\ \A i \in 1 .. Len(NetworkRows) : RouteRows[1 + i] = NetworkRows[i]
         /\ \A i \in 1 .. Len(NetworkRows) : NetworkRows[i].default = FALSE
<1>1. PICK N : N = NetworkRows
  OBVIOUS
<1>2. AreRows(N, 4)
  BY <1>1, NetworkRowsAre
<1>3. \A i \in 1 .. Len(N) : N[i].default = FALSE
  <2>1. ASSUME NEW i \in 1 .. Len(N)
        PROVE  N[i].default = FALSE
    <3>1. N[i] = RowOf(Network(netif_list[i].netif), netif_list[i], FALSE)
      BY <1>1, NetworkRowsAre
    <3>2. RowOf(Network(netif_list[i].netif), netif_list[i], FALSE).default = FALSE
      BY DEF RowOf
    <3>3. QED
      BY <3>1, <3>2, Zenon
  <2>2. QED
    BY <2>1
<1>4. CASE netif_default = NoNetif
  <2>1. DefaultRow = <<>>
    BY <1>4, DefaultRowIs
  <2>2. <<>> \o N = N
    BY <1>2 DEF AreRows
  <2>3. RouteRows = N
    BY <1>1, <2>1, <2>2, Zenon DEF RouteRows
  <2>4. QED
    BY <1>1, <1>2, <1>3, <1>4, <2>3, Zenon
<1>5. CASE netif_default # NoNetif
  <2>1. PICK r : DefaultRow = <<r>> /\ r.oid = AnyAddress /\ r.default = TRUE /\ IsRow(r, 4)
    <3>1. PICK i \in 1 .. Len(netif_list) : DefaultRow = <<RowOf(AnyAddress, netif_list[i], TRUE)>>
      BY <1>5, DefaultRowIs
    <3>2. AnyAddress \in OID /\ AnyAddress # <<>> /\ Len(AnyAddress) = 4
      BY DefaultRowIs, AddressArcs
    <3>3. Len(AnyAddress) <= 4
      BY <3>2
    <3>4. IsRow(RowOf(AnyAddress, netif_list[i], TRUE), 4)
      BY <3>2, <3>3, IsRowOf, Zenon
    <3>5. /\ RowOf(AnyAddress, netif_list[i], TRUE).oid = AnyAddress
          /\ RowOf(AnyAddress, netif_list[i], TRUE).default = TRUE
      BY DEF RowOf
    <3>6. QED
      BY <3>1, <3>4, <3>5, Zenon
  <2>2. PICK d : d = <<r>> /\ Len(d) = 1 /\ d[1] = r /\ AreRows(d, 4)
    <3>1. /\ Len(<<r>>) = 1 /\ <<r>>[1] = r /\ DOMAIN <<r>> = 1 .. 1
          /\ <<r>> \in Seq({r})
      OBVIOUS
    <3>2. PICK d : d = <<r>>
      OBVIOUS
    <3>3. Len(d) = 1 /\ d[1] = r /\ DOMAIN d = 1 .. Len(d) /\ d \in Seq({r})
      BY <3>1, <3>2, Zenon
    <3>4. d \in Seq(ToSet(d)) /\ Len(d) \in Nat
      BY <3>3, OverElements
    <3>5. \A i \in 1 .. Len(d) : IsRow(d[i], 4)
      BY <2>1, <3>3
    <3>6. QED
      BY <3>2, <3>3, <3>4, <3>5 DEF AreRows
  <2>3. RouteRows = d \o N
    BY <1>1, <2>1, <2>2, Zenon DEF RouteRows
  <2>4. /\ AreRows(d \o N, 4) /\ Len(d \o N) = Len(d) + Len(N)
        /\ \A i \in 1 .. Len(d) : (d \o N)[i] = d[i]
        /\ \A i \in 1 .. Len(N) : (d \o N)[Len(d) + i] = N[i]
    BY <1>2, <2>2, RowsJoined
  <2>5. Len(N) \in Nat
    BY <1>2 DEF AreRows
  <2>6. /\ Len(RouteRows) = Len(N) + 1 /\ RouteRows[1] = r
        /\ \A i \in 1 .. Len(N) : RouteRows[1 + i] = N[i]
    BY <2>2, <2>3, <2>4, <2>5
  <2>7. AreRows(RouteRows, 4)
    BY <2>3, <2>4, Zenon
  <2>8. QED
    BY <1>1, <1>3, <1>5, <2>1, <2>6, <2>7, Zenon
<1>6. QED
  BY <1>4, <1>5

\* udp_Table: the local address and port of the control blocks.
LEMMA UdpRowsAre ==
  ASSUME ListsTyped
  PROVE  /\ AreRows(UdpRows, 5) /\ Len(UdpRows) = Len(udp_pcbs)
         /\ \A i \in 1 .. Len(udp_pcbs) :
              /\ udp_pcbs[i] \in Pcbs
              /\ UdpRows[i].oid = udp_pcbs[i].local_ip \o <<udp_pcbs[i].local_port>>
              /\ UdpRows[i].of = udp_pcbs[i]
              /\ JoinOf(UdpRows[i].oid, udp_pcbs[i].local_ip, <<udp_pcbs[i].local_port>>)
<1>0. Len(udp_pcbs) \in Nat /\ DOMAIN udp_pcbs = 1 .. Len(udp_pcbs)
  BY ListElements
<1>1. PICK n \in Nat : n = Len(udp_pcbs) /\ DOMAIN udp_pcbs = 1 .. n
  BY <1>0, Zenon
<1>2. \A i \in 1 .. n : udp_pcbs[i] \in Pcbs
  BY <1>1, ListElements
<1>3. PICK R : R = UdpRows
  OBVIOUS
<1>4. /\ R = [i \in 1 .. n |-> R[i]]
      /\ \A i \in 1 .. n :
           R[i] = RowOf(udp_pcbs[i].local_ip \o <<udp_pcbs[i].local_port>>, udp_pcbs[i], FALSE)
  BY <1>1, <1>3 DEF UdpRows
<1>5. ASSUME NEW i \in 1 .. n
      PROVE  /\ IsRow(R[i], 5) /\ R[i].of = udp_pcbs[i]
             /\ R[i].oid = udp_pcbs[i].local_ip \o <<udp_pcbs[i].local_port>>
             /\ JoinOf(R[i].oid, udp_pcbs[i].local_ip, <<udp_pcbs[i].local_port>>)
  <2>1. PICK ip, p, a : ip = udp_pcbs[i].local_ip /\ p = <<udp_pcbs[i].local_port>> /\ a = ip \o p
    OBVIOUS
  <2>2. udp_pcbs[i].local_ip \in Addresses4 /\ udp_pcbs[i].local_port \in Nat
    BY <1>2, PcbFacts
  <2>3. ip \in OID /\ Len(ip) = 4 /\ p \in OID /\ Len(p) = 1
    BY <2>1, <2>2, AddressArcs, OneArc, Zenon
  <2>4. JoinOf(a, ip, p)
    BY <2>1, <2>3, OidsJoined, Zenon
  <2>5. a \in OID /\ Len(a) = 5
    BY <2>3, <2>4 DEF JoinOf
  <2>6. a # <<>> /\ Len(a) <= 5
    BY <2>5
  <2>7. IsRow(RowOf(a, udp_pcbs[i], FALSE), 5)
    BY <2>5, <2>6, IsRowOf, Zenon
  <2>8. R[i] = RowOf(a, udp_pcbs[i], FALSE)
    BY <1>4, <2>1, Zenon
  <2>9. R[i].oid = a /\ R[i].of = udp_pcbs[i]
    <3>1. /\ RowOf(a, udp_pcbs[i], FALSE).oid = a
          /\ RowOf(a, udp_pcbs[i], FALSE).of = udp_pcbs[i]
      BY DEF RowOf
    <3>2. QED
      BY <2>8, <3>1, Zenon
  <2>10. QED
    BY <2>1, <2>4, <2>7, <2>8, <2>9, Zenon
<1>6. AreRows(R, 5) /\ Len(R) = n
  BY <1>4, <1>5, RowsOfList
<1>7. QED
  BY <1>1, <1>2, <1>3, <1>5, <1>6

\* udp_endpointTable: both ends of the control blocks, and their instance.
LEMMA EndpointOidIs ==
  ASSUME NEW p \in Pcbs
  PROVE  EndpointOid(p) \in OID /\ Len(EndpointOid(p)) = 15 /\ EndpointOid(p)[1] = 1
<1>1. PICK l, r, z : /\ l = IpPortToOid(p.local_ip, p.local_port)
                     /\ r = IpPortToOid(p.remote_ip, p.remote_port) /\ z = <<0>>
  OBVIOUS
<1>2. /\ p.local_ip \in Addresses4 /\ p.remote_ip \in Addresses4
      /\ p.local_port \in Nat /\ p.remote_port \in Nat
  BY PcbFacts
<1>3. l \in OID /\ Len(l) = 7 /\ l[1] = 1 /\ r \in OID /\ Len(r) = 7
  BY <1>1, <1>2, IpPortArcs, Zenon
<1>4. z \in OID /\ Len(z) = 1
  BY <1>1, OneArc
<1>5. PICK b : b = l \o r
  OBVIOUS
<1>6. JoinOf(b, l, r)
  BY <1>3, <1>5, OidsJoined, Zenon
<1>7. b \in OID /\ Len(b) = 14 /\ b[1] = 1
  BY <1>3, <1>6 DEF JoinOf
<1>8. PICK e : e = b \o z
  OBVIOUS
<1>9. JoinOf(e, b, z)
  BY <1>4, <1>7, <1>8, OidsJoined, Zenon
<1>10. e \in OID /\ Len(e) = 15 /\ e[1] = 1
  BY <1>4, <1>7, <1>9 DEF JoinOf
<1>11. EndpointOid(p) = e
  BY <1>1, <1>5, <1>8, Zenon DEF EndpointOid
<1>12. QED
  BY <1>10, <1>11, Zenon

\* udp_endpointTable: the two ends of the control blocks.
LEMMA EndpointRowsAre ==
  ASSUME ListsTyped
  PROVE  AreRows(EndpointRows, 39) /\ Len(EndpointRows) = Len(udp_pcbs)
<1>0. Len(udp_pcbs) \in Nat /\ DOMAIN udp_pcbs = 1 .. Len(udp_pcbs)
  BY ListElements
<1>1. PICK n \in Nat : n = Len(udp_pcbs) /\ DOMAIN udp_pcbs = 1 .. n
  BY <1>0, Zenon
<1>2. \A i \in 1 .. n : udp_pcbs[i] \in Pcbs
  BY <1>1, ListElements
<1>3. PICK R : R = EndpointRows
  OBVIOUS
<1>4. /\ R = [i \in 1 .. n |-> R[i]]
      /\ \A i \in 1 .. n : R[i] = RowOf(EndpointOid(udp_pcbs[i]), udp_pcbs[i], FALSE)
  BY <1>1, <1>3 DEF EndpointRows
<1>5. ASSUME NEW i \in 1 .. n
      PROVE  IsRow(R[i], 39)
  <2>1. PICK a : a = EndpointOid(udp_pcbs[i])
    OBVIOUS
  <2>2. a \in OID /\ Len(a) = 15
    BY <1>2, <2>1, EndpointOidIs, Zenon
  <2>3. a # <<>> /\ Len(a) <= 39
    <3>1. Len(<<>>) = 0 /\ 15 # 0 /\ 15 <= 39
      OBVIOUS
    <3>2. QED
      BY <2>2, <3>1, Zenon
  <2>4. IsRow(RowOf(a, udp_pcbs[i], FALSE), 39)
    BY <2>2, <2>3, IsRowOf, Zenon
  <2>5. QED
    BY <1>4, <2>1, <2>4, Zenon
<1>6. AreRows(R, 39) /\ Len(R) = n
  BY <1>4, <1>5, RowsOfList
<1>7. QED
  BY <1>1, <1>3, <1>6

\* The rows of all tables.
LEMMA RowsAre ==
  ASSUME ListsTyped, NEW table \in Tables
  PROVE  AreRows(Rows(table), RowRoom(table))
<1>1. CASE table = "interfaces"
  BY <1>1, InterfaceRowsAre DEF Rows, RowRoom
<1>2. CASE table = "ipAddr"
  BY <1>2, AddrRowsAre DEF Rows, RowRoom
<1>3. CASE table = "ipRoute"
  BY <1>3, RouteRowsAre DEF Rows, RowRoom
<1>4. CASE table = "udp"
  BY <1>4, UdpRowsAre DEF Rows, RowRoom
<1>5. CASE table = "udpEndpoint"
  BY <1>5, EndpointRowsAre DEF Rows, RowRoom
<1>6. QED
  BY <1>1, <1>2, <1>3, <1>4, <1>5 DEF Tables

-----------------------------------------------------------------------------
(* The search for the next row.                                            *)

\* The row i is offered, and is behind the one searched from.
RowBehind(table, rows, after, i) == ~Skipped(table, rows[i]) /\ OidLess(after, rows[i].oid)

\* Of the first k rows, row i is the one searched for.
First(table, rows, after, k, i) ==
  /\ i \in 1 .. k /\ RowBehind(table, rows, after, i)
  /\ \A j \in 1 .. k :
       RowBehind(table, rows, after, j) =>
         OidLess(rows[i].oid, rows[j].oid) \/ (rows[i].oid = rows[j].oid /\ i <= j)

\* The state of the search after k rows.
IsState(st) ==
  st = [start |-> st.start, max |-> st.max, next |-> st.next, status |-> st.status,
        reference |-> st.reference]
Sought(table, rows, after, room, k, st) ==
  /\ IsState(st) /\ st.start = after /\ st.max = room
  /\ st.status = "noMatch" \/ st.status = "success"
  /\ st.status = "noMatch" => \A j \in 1 .. k : ~RowBehind(table, rows, after, j)
  /\ st.status = "success" =>
       \E i \in 1 .. k : /\ First(table, rows, after, k, i)
                         /\ st.next = rows[i].oid /\ st.reference = rows[i]

\* snmp_next_oid_check() takes an OID that is closer.
LEMMA RowTaken ==
  ASSUME NEW st, IsState(st), st.status # "bufTooSmall", NEW oid, ~(Len(oid) > st.max), NEW row,
         OidLess(st.start, oid), Closer(st, oid), NEW new, new = NextOidCheck(st, oid, row)
  PROVE  /\ IsState(new) /\ new.start = st.start /\ new.max = st.max
         /\ new.status = "success" /\ new.next = oid /\ new.reference = row
<1>1. new = [st EXCEPT !.status = "success", !.next = oid, !.reference = row]
  BY DEF NextOidCheck
<1>2. QED
  BY <1>1 DEF IsState

\* One more row, which is behind the one searched from or not, and closer or not.
LEMMA SoughtFurther ==
  ASSUME NEW table, NEW rows, NEW room \in Nat, AreRows(rows, room), NEW after \in OID,
         NEW k \in Nat, k + 1 <= Len(rows),
         NEW st, Sought(table, rows, after, room, k, st)
  PROVE  Sought(table, rows, after, room, k + 1, Offered(table, st, rows[k + 1]))
<1>1. PICK row, new : row = rows[k + 1] /\ new = Offered(table, st, row)
  OBVIOUS
<1>2. /\ IsRow(row, room) /\ row.oid \in OID
      /\ \A j \in 1 .. k + 1 : rows[j].oid \in OID
  <2>1. \A j \in 1 .. k + 1 : IsRow(rows[j], room)
    BY DEF AreRows
  <2>2. QED
    BY <1>1, <2>1 DEF IsRow
<1>3. \A j \in 1 .. k + 1 : j \in 1 .. k \/ j = k + 1
  OBVIOUS
<1>4. ~(Len(row.oid) > st.max) /\ st.status # "bufTooSmall" /\ IsState(st) /\ st.start = after
  <2>1. st.max = room /\ Len(row.oid) <= room
    BY <1>2 DEF Sought, IsRow
  <2>2. Len(row.oid) \in Nat
    BY <1>2 DEF OID
  <2>3. ~(Len(row.oid) > st.max)
    BY <2>1, <2>2
  <2>4. QED
    BY <2>3 DEF Sought
<1>5. CASE ~RowBehind(table, rows, after, k + 1)
  <2>1. new = st
    BY <1>1, <1>4, <1>5 DEF RowBehind, Offered, NextOidCheck
  <2>2. ASSUME NEW i \in 1 .. k, First(table, rows, after, k, i)
        PROVE  i \in 1 .. k + 1 /\ First(table, rows, after, k + 1, i)
    BY <1>3, <1>5, <2>2 DEF First
  <2>3. st.status = "noMatch" => \A j \in 1 .. k + 1 : ~RowBehind(table, rows, after, j)
    BY <1>3, <1>5 DEF Sought
  <2>4. st.status = "success" =>
          \E i \in 1 .. k + 1 : /\ First(table, rows, after, k + 1, i)
                                /\ st.next = rows[i].oid /\ st.reference = rows[i]
    BY <2>2 DEF Sought
  <2>5. Sought(table, rows, after, room, k + 1, st)
    BY <2>3, <2>4 DEF Sought
  <2>6. QED
    BY <1>1, <2>1, <2>5
<1>6. ASSUME RowBehind(table, rows, after, k + 1), Closer(st, row.oid)
      PROVE  Sought(table, rows, after, room, k + 1, new)
  <2>1. new = NextOidCheck(st, row.oid, row) /\ OidLess(st.start, row.oid)
    BY <1>1, <1>4, <1>6 DEF RowBehind, Offered
  <2>2. /\ IsState(new) /\ new.start = st.start /\ new.max = st.max
        /\ new.status = "success" /\ new.next = row.oid /\ new.reference = row
    BY <1>4, <1>6, <2>1, RowTaken
  <2>3. ASSUME NEW j \in 1 .. k, RowBehind(table, rows, after, j)
        PROVE  OidLess(row.oid, rows[j].oid)
    <3>1. st.status # "noMatch"
      BY <2>3 DEF Sought
    <3>2. PICK i \in 1 .. k : First(table, rows, after, k, i) /\ st.next = rows[i].oid
      BY <3>1 DEF Sought
    <3>3. OidLess(row.oid, rows[i].oid)
      BY <1>6, <3>1, <3>2 DEF Closer
    <3>4. rows[i].oid \in OID /\ rows[j].oid \in OID
      BY <1>2
    <3>5. OidLess(rows[i].oid, rows[j].oid) \/ rows[i].oid = rows[j].oid
      BY <2>3, <3>2 DEF First
    <3>6. QED
      BY <1>2, <3>3, <3>4, <3>5, LessTransitive
  <2>4. First(table, rows, after, k + 1, k + 1)
    <3>1. k + 1 \in 1 .. k + 1
      OBVIOUS
    <3>2. QED
      BY <1>1, <1>3, <1>6, <2>3, <3>1 DEF First
  <2>5. k + 1 \in 1 .. k + 1 /\ "success" # "noMatch"
    OBVIOUS
  <2>6. QED
    BY <1>1, <2>2, <2>4, <2>5 DEF Sought
<1>7. ASSUME RowBehind(table, rows, after, k + 1), ~Closer(st, row.oid)
      PROVE  Sought(table, rows, after, room, k + 1, new)
  <2>1. new = st
    BY <1>1, <1>7 DEF RowBehind, Offered, NextOidCheck
  <2>2. st.status = "success" /\ ~OidLess(row.oid, st.next)
    BY <1>7 DEF Closer, Sought
  <2>3. PICK i \in 1 .. k : /\ First(table, rows, after, k, i)
                            /\ st.next = rows[i].oid /\ st.reference = rows[i]
    BY <2>2 DEF Sought
  <2>4. OidLess(rows[i].oid, row.oid) \/ rows[i].oid = row.oid
    BY <1>2, <2>2, <2>3, LessTotal
  <2>5. i \in 1 .. k + 1 /\ i <= k + 1
    OBVIOUS
  <2>6. First(table, rows, after, k + 1, i)
    BY <1>1, <1>3, <2>3, <2>4, <2>5 DEF First
  <2>7. Sought(table, rows, after, room, k + 1, st)
    <3>1. "success" # "noMatch"
      OBVIOUS
    <3>2. QED
      BY <2>2, <2>3, <2>5, <2>6, <3>1 DEF Sought
  <2>8. QED
    BY <2>1, <2>7
<1>8. QED
  BY <1>1, <1>5, <1>6, <1>7

\* The states of the loop over the rows.
Searching(f, n, table, start, rows) ==
  f = [i \in 0 .. n |-> IF i = 0 THEN start ELSE Offered(table, f[i - 1], rows[i])]

\* The loop has its states.
LEMMA SearchRuns ==
  ASSUME NEW m \in Nat, NEW table, NEW start, NEW rows
  PROVE  \E f : Searching(f, m, table, start, rows)
<1> DEFINE P == {n \in Nat : \E f : Searching(f, n, table, start, rows)}
<1>1. 0 \in P
  <2>1. Searching([i \in 0 .. 0 |-> start], 0, table, start, rows)
    BY DEF Searching
  <2>2. QED
    BY <2>1
<1>2. ASSUME NEW n \in 0 .. m - 1, n \in P
      PROVE  n + 1 \in P
  <2>1. PICK f : Searching(f, n, table, start, rows)
    BY <1>2
  <2> DEFINE g == [i \in 0 .. n + 1 |-> IF i = n + 1 THEN Offered(table, f[n], rows[n + 1]) ELSE f[i]]
  <2>2. \A i \in 0 .. n : f[i] = IF i = 0 THEN start ELSE Offered(table, f[i - 1], rows[i])
    BY <2>1 DEF Searching
  <2>3. ASSUME NEW i \in 0 .. n + 1
        PROVE  g[i] = IF i = 0 THEN start ELSE Offered(table, g[i - 1], rows[i])
    <3>1. CASE i = n + 1
      <4>1. g[i] = Offered(table, f[n], rows[n + 1]) /\ g[i - 1] = f[n] /\ i # 0
        BY <3>1
      <4>2. QED
        BY <3>1, <4>1
    <3>2. CASE i # n + 1
      <4>1. i \in 0 .. n /\ g[i] = f[i] /\ (i # 0 => g[i - 1] = f[i - 1])
        BY <3>2
      <4> HIDE DEF g
      <4>2. QED
        BY <2>2, <4>1
    <3>3. QED
      BY <3>1, <3>2
  <2>4. g = [i \in 0 .. n + 1 |-> g[i]]
    OBVIOUS
  <2> HIDE DEF g
  <2>5. Searching(g, n + 1, table, start, rows)
    BY <2>3, <2>4 DEF Searching
  <2>6. QED
    BY <2>5
<1>3. m \in P
  <2> HIDE DEF P
  <2>1. QED
    BY <1>1, <1>2, CountUp
<1>4. QED
  BY <1>3

\* The search goes over all rows.
LEMMA SearchFinds ==
  ASSUME ListsTyped, NEW table \in Tables, NEW after \in OID
  PROVE  Sought(table, Rows(table), after, RowRoom(table), Len(Rows(table)), SearchRow(table, after))
<1>1. PICK rows, room, m, start : /\ rows = Rows(table) /\ room = RowRoom(table)
                                  /\ m = Len(rows) /\ start = NextOidInit(after, room)
  OBVIOUS
<1>2. AreRows(rows, room) /\ m \in Nat /\ room \in Nat
  <2>1. RowRoom(table) \in Nat
    BY DEF RowRoom, Tables
  <2>2. QED
    BY <1>1, <2>1, RowsAre DEF AreRows
<1>3. PICK f : f = CHOOSE g : Searching(g, m, table, start, rows)
  OBVIOUS
<1>4. Searching(f, m, table, start, rows)
  BY <1>2, <1>3, SearchRuns
<1>5. SearchRow(table, after) = f[m]
  BY <1>1, <1>3 DEF SearchRow, Searching
<1> DEFINE P == {i \in 0 .. m : Sought(table, rows, after, room, i, f[i])}
<1>6. 0 \in P
  <2>1. f[0] = start /\ 0 \in 0 .. m
    BY <1>2, <1>4 DEF Searching
  <2>2. Sought(table, rows, after, room, 0, start)
    <3>1. /\ IsState(start) /\ start.start = after /\ start.max = room
          /\ start.status = "noMatch"
      BY <1>1 DEF NextOidInit, IsState
    <3>2. "noMatch" # "success" /\ \A j : j \notin 1 .. 0
      OBVIOUS
    <3>3. QED
      BY <3>1, <3>2 DEF Sought
  <2>3. QED
    BY <2>1, <2>2
<1>7. ASSUME NEW i \in 0 .. m - 1, i \in P
      PROVE  i + 1 \in P
  <2>1. i + 1 \in 0 .. m /\ i + 1 # 0 /\ (i + 1) - 1 = i /\ i \in Nat /\ i + 1 <= m
    BY <1>2
  <2>2. f[i + 1] = Offered(table, f[i], rows[i + 1])
    BY <1>4, <2>1 DEF Searching
  <2>3. Sought(table, rows, after, room, i + 1, Offered(table, f[i], rows[i + 1]))
    BY <1>1, <1>2, <1>7, <2>1, SoughtFurther
  <2>4. QED
    BY <2>1, <2>2, <2>3
<1>8. m \in P
  <2> HIDE DEF P
  <2>1. QED
    BY <1>2, <1>6, <1>7, CountUp
<1>9. QED
  BY <1>1, <1>5, <1>8

-----------------------------------------------------------------------------
(* GETNEXT.                                                                *)

\* Each table has columns.
LEMMA ColumnsAre ==
  ASSUME NEW table \in Tables
  PROVE  Columns(table) \in SUBSET Nat /\ Columns(table) # {}
<1>1. CASE table = "interfaces"
  BY <1>1 DEF Columns, InterfacesColumns
<1>2. CASE table = "ipAddr"
  BY <1>2 DEF Columns, AddrColumns
<1>3. CASE table = "ipRoute"
  BY <1>3 DEF Columns, RouteColumns
<1>4. CASE table = "udp"
  BY <1>4 DEF Columns, UdpColumns
<1>5. CASE table = "udpEndpoint"
  BY <1>5 DEF Columns, EndpointColumns
<1>6. QED
  BY <1>1, <1>2, <1>3, <1>4, <1>5 DEF Tables

\* The column the code takes is the first one.
LEMMA FirstColumn ==
  ASSUME NEW S \in SUBSET Nat, S # {}, NEW first, first = CHOOSE c \in S : \A d \in S : c <= d
  PROVE  first \in S /\ \A d \in S : first <= d
<1>1. \E x \in S : \A y \in S : x <= y
  BY LeastNatural
<1>2. QED
  BY <1>1

\* Row i is one of the table.
RowIn(table, rows, i) == i \in 1 .. Len(rows) /\ ~Skipped(table, rows[i])

\* The rows of a table, and its instances.
LEMMA RowOidsAre ==
  ASSUME ListsTyped, NEW table \in Tables, NEW rows, rows = Rows(table)
  PROVE  /\ \A i \in 1 .. Len(rows) : rows[i].oid \in OID /\ rows[i].oid # <<>>
         /\ \A i : RowIn(table, rows, i) => rows[i].oid \in RowOids(table)
         /\ \A r \in RowOids(table) : \E i : RowIn(table, rows, i) /\ r = rows[i].oid
<1>1. AreRows(rows, RowRoom(table))
  BY RowsAre
<1>2. DOMAIN rows = 1 .. Len(rows) /\ \A i \in 1 .. Len(rows) : IsRow(rows[i], RowRoom(table))
  BY <1>1 DEF AreRows
<1>3. \A i \in 1 .. Len(rows) : rows[i].oid \in OID /\ rows[i].oid # <<>>
  BY <1>2 DEF IsRow
<1>4. ToSet(rows) = {rows[i] : i \in 1 .. Len(rows)}
  BY <1>2 DEF ToSet
<1>5. RowOids(table) = {q.oid : q \in {x \in ToSet(rows) : ~Skipped(table, x)}}
  BY DEF RowOids
<1>6. \A i : RowIn(table, rows, i) => rows[i].oid \in RowOids(table)
  BY <1>4, <1>5 DEF RowIn
<1>7. \A r \in RowOids(table) : \E i : RowIn(table, rows, i) /\ r = rows[i].oid
  BY <1>4, <1>5 DEF RowIn
<1>8. QED
  BY <1>3, <1>6, <1>7

\* The instances of a table are its columns of its rows.
LEMMA InstancesAre ==
  ASSUME ListsTyped, NEW table \in Tables, NEW rows, rows = Rows(table)
  PROVE  /\ \A c \in Columns(table), i \in 1 .. Len(rows) :
              RowIn(table, rows, i) => Instance(c, rows[i].oid) \in Instances(table)
         /\ \A o \in Instances(table) : \E c \in Columns(table), i \in 1 .. Len(rows) :
              RowIn(table, rows, i) /\ o = Instance(c, rows[i].oid)
<1>1. ASSUME NEW c \in Columns(table), NEW i \in 1 .. Len(rows), RowIn(table, rows, i)
      PROVE  Instance(c, rows[i].oid) \in Instances(table)
  <2>1. rows[i].oid \in RowOids(table)
    BY <1>1, RowOidsAre
  <2>2. QED
    BY <2>1 DEF Instances
<1>2. ASSUME NEW o \in Instances(table)
      PROVE  \E c \in Columns(table), i \in 1 .. Len(rows) : RowIn(table, rows, i) /\ o = Instance(c, rows[i].oid)
  <2>1. PICK c \in Columns(table), r \in RowOids(table) : o = Instance(c, r)
    BY DEF Instances
  <2>2. PICK i \in 1 .. Len(rows) : RowIn(table, rows, i) /\ r = rows[i].oid
    BY RowOidsAre DEF RowIn
  <2>3. QED
    BY <2>1, <2>2
<1>3. QED
  BY <1>1, <1>2

\* Row i is the first of the table with its OID.
Picked(table, rows, i) ==
  /\ RowIn(table, rows, i)
  /\ \A j : RowIn(table, rows, j) /\ rows[j].oid = rows[i].oid => i <= j

\* The row the search finds is the first one with its OID.
LEMMA FirstIsPicked ==
  ASSUME NEW table, NEW rows, NEW after, NEW i, First(table, rows, after, Len(rows), i),
         \A j \in 1 .. Len(rows) : rows[j].oid \in OID
  PROVE  Picked(table, rows, i)
<1>1. RowIn(table, rows, i)
  BY DEF First, RowBehind, RowIn
<1>2. ASSUME NEW j, RowIn(table, rows, j), rows[j].oid = rows[i].oid
      PROVE  i <= j
  <2>1. j \in 1 .. Len(rows) /\ RowBehind(table, rows, after, j)
    BY <1>2 DEF First, RowBehind, RowIn
  <2>2. ~OidLess(rows[i].oid, rows[j].oid)
    BY <1>2, <2>1, LessIrreflexive
  <2>3. QED
    BY <2>1, <2>2 DEF First
<1>3. QED
  BY <1>1, <1>2 DEF Picked

\* Two instances are in the order of their columns, and then in that of their rows.
LEMMA CellsOrdered ==
  ASSUME NEW c \in Nat, NEW r \in OID, NEW d \in Nat, NEW t \in OID,
         c < d \/ (c = d /\ (OidLess(r, t) \/ r = t))
  PROVE  OidAtMost(Instance(c, r), Instance(d, t))
<1>1. PICK o, p : o = Instance(c, r) /\ p = Instance(d, t)
  OBVIOUS
<1>2. IsCell(o, c, r) /\ IsCell(p, d, t)
  BY <1>1, CellOid, Zenon DEF Instance
<1>3. o \in OID /\ Len(o) >= 2 /\ o[1] = 1 /\ o[2] = c
  BY <1>2 DEF IsCell, OID
<1>4. SubSeq(o, 3, Len(o)) = r
  BY <1>2, RowOfCell
<1>5. OidLess(o, p) <=> c < d \/ (c = d /\ OidLess(r, t))
  BY <1>2, <1>3, <1>4, CellBehind
<1>6. CASE c = d /\ r = t
  <2>1. o = p
    BY <1>1, <1>6, Zenon
  <2>2. QED
    BY <1>1, <2>1, Zenon DEF OidAtMost
<1>7. CASE c < d \/ (c = d /\ OidLess(r, t))
  <2>1. OidLess(o, p)
    BY <1>5, <1>7
  <2>2. QED
    BY <1>1, <2>1, Zenon DEF OidAtMost
<1>8. QED
  BY <1>6, <1>7

\* Whether an instance in column c and row r is behind s, said of the columns from that of
\* s on, of the first of them, and of the row of s.
LEMMA BehindInColumns ==
  ASSUME NEW table \in Tables, table = walk.table, NEW s \in OID, ~RowWithoutColumn(s),
         ~(Len(s) > 0 /\ s[1] > 1),
         NEW cols, cols = {d \in Columns(table) : d >= IF Len(s) > 1 THEN s[2] ELSE 0},
         NEW c \in Columns(table), NEW r \in OID, r # <<>>
  PROVE  /\ OidLess(s, Instance(c, r)) => c \in cols
         /\ \A first \in cols : (\A d \in cols : first <= d) =>
              (OidLess(s, Instance(c, r))
                 <=> c \in cols /\ (c = first => OidLess(SubSeq(s, 3, Len(s)), r)))
<1>0. PICK n \in Nat : n = Len(s)
  BY DEF OID
<1>1. PICK q \in OID : q = SubSeq(s, 3, n) /\ (n <= 2 => q = <<>>)
  <2>1. PICK q : q = SubSeq(s, 3, n)
    OBVIOUS
  <2>2. q \in OID /\ (n < 2 => q = <<>>) /\ (n >= 2 => Len(q) = n - 2)
    BY <1>0, <2>1, RowPart
  <2>3. n = 2 => q = <<>>
    <3>1. n = 2 => Len(q) = 0
      BY <2>2
    <3>2. QED
      BY <2>2, <3>1 DEF OID
  <2>4. n <= 2 => n < 2 \/ n = 2
    OBVIOUS
  <2>5. n <= 2 => q = <<>>
    BY <2>2, <2>3, <2>4, Zenon
  <2>6. QED
    BY <2>1, <2>2, <2>5
<1>2. PICK o : o = Instance(c, r)
  OBVIOUS
<1>3. Columns(table) \in SUBSET Nat
  BY ColumnsAre
<1>4. IsCell(o, c, r) /\ c \in Nat
  BY <1>2, <1>3, CellOid, Zenon DEF Instance
<1>5. OidLess(<<>>, r)
  BY LessThanEmpty
<1>6. (n > 0 => s[1] \in Nat) /\ (n = 0 => s = <<>>)
  <2>1. n > 0 => s[1] \in Nat
    BY <1>0 DEF OID
  <2>2. n = 0 => s = <<>>
    <3>1. n = 0 => Len(s) = 0
      BY <1>0
    <3>2. Len(s) = 0 => s = <<>>
      BY DEF OID
    <3>3. QED
      BY <3>1, <3>2
  <2>3. QED
    BY <2>1, <2>2
<1>a. /\ SubSeq(s, 3, Len(s)) = q
      /\ n > 1 => s[1] # 0 /\ (n > 2 => s[2] \in Columns(table))
      /\ ~(n > 0 /\ s[1] > 1)
      /\ cols = {d \in Columns(table) : d >= IF n > 1 THEN s[2] ELSE 0}
  BY <1>0, <1>1 DEF RowWithoutColumn
<1>7. CASE n < 2
  <2>1. cols = Columns(table)
    BY <1>3, <1>7, <1>a
  <2>2. OidLess(s, o)
    <3>1. s = <<>> \/ s[1] = 0 \/ (n = 1 /\ s[1] = 1)
      BY <1>6, <1>7, <1>a
    <3>2. QED
      BY <1>0, <1>4, <3>1, CellBehindEntry
  <2>3. OidLess(q, r)
    <3>1. n <= 2
      BY <1>7
    <3>2. QED
      BY <1>1, <1>5, <3>1, Zenon
  <2>4. QED
    BY <1>2, <1>a, <2>1, <2>2, <2>3
<1>8. CASE ~(n < 2)
  <2>1. n >= 2 /\ s[1] = 1
    BY <1>6, <1>8, <1>a
  <2>2. /\ s[2] \in Nat
        /\ OidLess(s, o) <=> s[2] < c \/ (s[2] = c /\ OidLess(q, r))
    BY <1>0, <1>4, <1>a, <2>1, CellBehind
  <2>3. PICK x \in Nat : x = s[2] /\ cols = {d \in Columns(table) : d >= x}
    BY <1>a, <2>1, <2>2
  <2>4. OidLess(s, o) <=> x < c \/ (x = c /\ OidLess(q, r))
    BY <2>2, <2>3
  <2>5. n > 2 => x \in cols
    <3>1. n > 2 => s[2] \in Columns(table)
      BY <1>8, <1>a
    <3>2. QED
      BY <2>3, <3>1
  <2>6. n = 2 => OidLess(q, r)
    <3>1. n = 2 => n <= 2
      OBVIOUS
    <3>2. QED
      BY <1>1, <1>5, <3>1, Zenon
  <2>7. n > 2 \/ n = 2
    BY <1>8
  <2>8. c \in cols <=> c >= x
    BY <2>3
  <2>9. OidLess(s, o) => c \in cols
    BY <1>4, <2>4, <2>8
  <2>10. ASSUME NEW first \in cols, \A d \in cols : first <= d
         PROVE  OidLess(s, o) <=> c \in cols /\ (c = first => OidLess(q, r))
    <3>1. first \in Nat /\ first >= x
      BY <1>3, <2>3, <2>10
    <3>2. CASE n > 2
      <4>1. first = x
        BY <2>5, <2>10, <3>1, <3>2
      <4>2. QED
        BY <1>4, <2>4, <2>8, <4>1
    <3>3. CASE n = 2
      <4>1. OidLess(q, r)
        BY <2>6, <3>3
      <4>2. QED
        BY <1>4, <2>4, <2>8, <4>1
    <3>4. QED
      BY <2>7, <3>2, <3>3
  <2>11. QED
    BY <1>2, <1>a, <2>9, <2>10
<1>9. QED
  BY <1>7, <1>8

\* What GETNEXT finds: row i of the table in column c.
FoundAt(table, rows, instance, c, i) ==
  /\ c \in Columns(table) /\ Picked(table, rows, i)
  /\ instance.oid = Instance(c, rows[i].oid) /\ instance.row = rows[i]

\* It is the next one behind s.
LeastBehind(table, rows, s, c, i) ==
  /\ OidLess(s, Instance(c, rows[i].oid))
  /\ \A d \in Columns(table), j \in 1 .. Len(rows) :
       RowIn(table, rows, j) /\ OidLess(s, Instance(d, rows[j].oid)) =>
         OidAtMost(Instance(c, rows[i].oid), Instance(d, rows[j].oid))

\* There is none behind s.
NoneBehind(table, rows, s) ==
  \A d \in Columns(table), j \in 1 .. Len(rows) :
    RowIn(table, rows, j) => ~OidLess(s, Instance(d, rows[j].oid))

\* snmp_table_simple_get_next_instance(): the row behind in the first column, or the first
\* one of the next column.
LEMMA ColumnsSearched ==
  ASSUME ListsTyped, NEW table \in Tables, NEW q \in OID, NEW rows, rows = Rows(table),
         NEW cols \in SUBSET Columns(table), NEW instance, instance = NextInColumns(table, cols, q)
  PROVE  \/ /\ instance = NothingFound
            /\ \A first \in cols : (\A d \in cols : first <= d) =>
                 /\ \A j \in 1 .. Len(rows) : ~RowBehind(table, rows, q, j)
                 /\ \A d \in cols \ {first}, j \in 1 .. Len(rows) : ~RowBehind(table, rows, <<>>, j)
         \/ \E first \in cols, i \in 1 .. Len(rows) :
              /\ \A d \in cols : first <= d
              /\ FoundAt(table, rows, instance, first, i)
              /\ First(table, rows, q, Len(rows), i)
         \/ \E first, second \in cols, i \in 1 .. Len(rows) :
              /\ \A d \in cols : first <= d
              /\ second # first /\ \A d \in cols \ {first} : second <= d
              /\ \A j \in 1 .. Len(rows) : ~RowBehind(table, rows, q, j)
              /\ FoundAt(table, rows, instance, second, i)
              /\ First(table, rows, <<>>, Len(rows), i)
<1>1. PICK here, top : here = SearchRow(table, q) /\ top = SearchRow(table, <<>>)
  OBVIOUS
<1>2. Sought(table, rows, q, RowRoom(table), Len(rows), here)
  BY <1>1, SearchFinds
<1>3. Sought(table, rows, <<>>, RowRoom(table), Len(rows), top)
  <2>1. <<>> \in OID
    BY DEF OID
  <2>2. QED
    BY <1>1, <2>1, SearchFinds
<1>4. CASE cols = {}
  <2>1. instance = NothingFound
    BY <1>4 DEF NextInColumns
  <2>2. QED
    BY <1>4, <2>1
<1>5. CASE cols # {}
  <2>1. Columns(table) \in SUBSET Nat /\ cols \in SUBSET Nat
    BY ColumnsAre
  <2>2. PICK first : first = CHOOSE c \in cols : \A d \in cols : c <= d
    OBVIOUS
  <2>3. first \in cols /\ \A d \in cols : first <= d
    BY <1>5, <2>1, <2>2, FirstColumn
  <2>4. PICK later : later = cols \ {first}
    OBVIOUS
  <2>5. \A f \in cols : (\A d \in cols : f <= d) => f = first
    BY <2>1, <2>3
  <2>6. instance = IF here.status = "success" THEN FoundInColumn(first, here)
                   ELSE IF later # {} /\ top.status = "success"
                   THEN FoundInColumn(CHOOSE c \in later : \A d \in later : c <= d, top)
                   ELSE NothingFound
    BY <1>1, <1>5, <2>2, <2>4 DEF NextInColumns
  <2>7. \A j \in 1 .. Len(rows) : rows[j].oid \in OID
    BY RowOidsAre
  <2>8. ASSUME NEW c \in cols, NEW st, NEW i \in 1 .. Len(rows), NEW after,
               First(table, rows, after, Len(rows), i),
               st.next = rows[i].oid, st.reference = rows[i], instance = FoundInColumn(c, st)
        PROVE  FoundAt(table, rows, instance, c, i)
    <3>1. Picked(table, rows, i)
      BY <2>7, <2>8, FirstIsPicked
    <3>2. instance.oid = Instance(c, rows[i].oid) /\ instance.row = rows[i]
      BY <2>8 DEF FoundInColumn
    <3>3. QED
      BY <3>1, <3>2 DEF FoundAt
  <2>9. CASE here.status = "success"
    <3>1. PICK i \in 1 .. Len(rows) : /\ First(table, rows, q, Len(rows), i)
                                      /\ here.next = rows[i].oid /\ here.reference = rows[i]
      BY <1>2, <2>9 DEF Sought
    <3>2. instance = FoundInColumn(first, here)
      BY <2>6, <2>9
    <3>3. FoundAt(table, rows, instance, first, i)
      BY <2>3, <2>8, <3>1, <3>2
    <3>4. QED
      BY <2>3, <3>1, <3>3
  <2>10. CASE here.status # "success"
    <3>1. \A j \in 1 .. Len(rows) : ~RowBehind(table, rows, q, j)
      BY <1>2, <2>10 DEF Sought
    <3>2. CASE later # {} /\ top.status = "success"
      <4>1. PICK second : second = CHOOSE c \in later : \A d \in later : c <= d
        OBVIOUS
      <4>2. second \in later /\ \A d \in later : second <= d
        <5>1. later \in SUBSET Nat
          BY <2>1, <2>4
        <5>2. QED
          BY <3>2, <4>1, <5>1, FirstColumn
      <4>3. PICK i \in 1 .. Len(rows) : /\ First(table, rows, <<>>, Len(rows), i)
                                        /\ top.next = rows[i].oid /\ top.reference = rows[i]
        BY <1>3, <3>2 DEF Sought
      <4>4. instance = FoundInColumn(second, top)
        BY <2>6, <2>10, <3>2, <4>1
      <4>5. FoundAt(table, rows, instance, second, i)
        BY <2>4, <2>8, <4>2, <4>3, <4>4
      <4>6. QED
        BY <2>3, <2>4, <3>1, <4>2, <4>3, <4>5
    <3>3. CASE later = {} \/ top.status # "success"
      <4>1. instance = NothingFound
        BY <2>6, <2>10, <3>3
      <4>2. \A d \in later, j \in 1 .. Len(rows) : ~RowBehind(table, rows, <<>>, j)
        BY <1>3, <3>3 DEF Sought
      <4>3. QED
        BY <2>4, <2>5, <3>1, <4>1, <4>2
    <3>4. QED
      BY <3>2, <3>3
  <2>11. QED
    BY <2>9, <2>10
<1>6. QED
  BY <1>4, <1>5

\* snmp_table_simple_get_next_instance() and snmp_table_get_next_instance(): what they find is
\* a row of the table, the first with its OID, and the next instance; they find one if there
\* is one.
LEMMA NextIs ==
  ASSUME ListsTyped, walk.table \in Tables, NEW s \in OID,
         NEW rows, rows = Rows(walk.table),
         NEW instance, instance = GetNextInstance(walk.table, s)
  PROVE  \/ /\ instance = NothingFound
            /\ ~RowWithoutColumn(s) => NoneBehind(walk.table, rows, s)
         \/ \E c \in Columns(walk.table), i \in 1 .. Len(rows) :
              /\ FoundAt(walk.table, rows, instance, c, i)
              /\ ~RowWithoutColumn(s) => LeastBehind(walk.table, rows, s, c, i)
<1>1. PICK table \in Tables : table = walk.table
  OBVIOUS
<1>2. \A j \in 1 .. Len(rows) : rows[j].oid \in OID /\ rows[j].oid # <<>>
  BY <1>1, RowOidsAre
<1>3. Columns(table) \in SUBSET Nat /\ Columns(table) # {}
  BY ColumnsAre
<1>4. CASE Len(s) > 0 /\ s[1] > 1
  <2>1. instance = NothingFound
    BY <1>4 DEF GetNextInstance
  <2>2. ASSUME NEW d \in Columns(table), NEW j \in 1 .. Len(rows)
        PROVE  ~OidLess(s, Instance(d, rows[j].oid))
    <3>1. d \in Nat /\ rows[j].oid \in OID
      BY <1>2, <1>3
    <3>2. IsCell(Instance(d, rows[j].oid), d, rows[j].oid)
      BY <3>1, CellOid, Zenon DEF Instance
    <3>3. s # <<>> /\ s[1] > 1
      BY <1>4
    <3>4. QED
      BY <3>1, <3>2, <3>3, CellBehindEntry
  <2>3. QED
    BY <1>1, <2>1, <2>2 DEF NoneBehind
<1>5. CASE ~(Len(s) > 0 /\ s[1] > 1)
  <2>1. PICK cols, q : /\ cols = {c \in Columns(table) : c >= IF Len(s) > 1 THEN s[2] ELSE 0}
                       /\ q = SubSeq(s, 3, Len(s))
    OBVIOUS
  <2>2. cols \in SUBSET Columns(table) /\ q \in OID
    BY <2>1, RowPart
  <2>3. instance = NextInColumns(table, cols, q)
    BY <1>1, <1>5, <2>1 DEF GetNextInstance
  <2>4. ASSUME ~RowWithoutColumn(s), NEW c \in Columns(table), NEW j \in 1 .. Len(rows)
        PROVE  /\ OidLess(s, Instance(c, rows[j].oid)) => c \in cols
               /\ \A first \in cols : (\A d \in cols : first <= d) =>
                    (OidLess(s, Instance(c, rows[j].oid))
                       <=> c \in cols /\ (c = first => OidLess(q, rows[j].oid)))
    BY <1>1, <1>2, <1>5, <2>1, <2>4, BehindInColumns
  <2>5. ASSUME instance = NothingFound,
               NEW first \in cols, \A d \in cols : first <= d,
               \A j \in 1 .. Len(rows) : ~RowBehind(table, rows, q, j),
               \A d \in cols \ {first}, j \in 1 .. Len(rows) : ~RowBehind(table, rows, <<>>, j),
               ~RowWithoutColumn(s)
        PROVE  NoneBehind(table, rows, s)
    <3> SUFFICES ASSUME NEW d \in Columns(table), NEW j \in 1 .. Len(rows),
                        RowIn(table, rows, j), OidLess(s, Instance(d, rows[j].oid))
                 PROVE  FALSE
      BY DEF NoneBehind
    <3>1. d \in cols /\ (d = first => OidLess(q, rows[j].oid))
      BY <2>4, <2>5
    <3>2. d # first
      BY <2>5, <3>1 DEF RowBehind, RowIn
    <3>3. OidLess(<<>>, rows[j].oid)
      BY <1>2, LessThanEmpty
    <3>4. RowBehind(table, rows, <<>>, j)
      BY <3>3 DEF RowBehind, RowIn
    <3>5. QED
      BY <2>5, <3>1, <3>2, <3>4
  <2>6. ASSUME NEW first \in cols, \A d \in cols : first <= d, NEW i \in 1 .. Len(rows),
               First(table, rows, q, Len(rows), i), ~RowWithoutColumn(s)
        PROVE  LeastBehind(table, rows, s, first, i)
    <3>1. OidLess(s, Instance(first, rows[i].oid))
      <4>1. OidLess(q, rows[i].oid) /\ first \in Columns(table)
        BY <2>2, <2>6 DEF First, RowBehind
      <4>2. QED
        BY <2>4, <2>6, <4>1
    <3>2. ASSUME NEW d \in Columns(table), NEW j \in 1 .. Len(rows),
                 RowIn(table, rows, j), OidLess(s, Instance(d, rows[j].oid))
          PROVE  OidAtMost(Instance(first, rows[i].oid), Instance(d, rows[j].oid))
      <4>1. d \in cols /\ (d = first => OidLess(q, rows[j].oid))
        BY <2>4, <2>6, <3>2
      <4>2. first <= d /\ first \in Nat /\ d \in Nat
        BY <1>3, <2>2, <2>6, <4>1
      <4>3. d = first => OidLess(rows[i].oid, rows[j].oid) \/ rows[i].oid = rows[j].oid
        BY <2>6, <3>2, <4>1 DEF First, RowBehind, RowIn
      <4>4. first < d \/ (first = d /\ (OidLess(rows[i].oid, rows[j].oid) \/ rows[i].oid = rows[j].oid))
        BY <4>2, <4>3
      <4>5. QED
        BY <1>2, <4>2, <4>4, CellsOrdered
    <3>3. QED
      BY <3>1, <3>2 DEF LeastBehind
  <2>7. ASSUME NEW first \in cols, NEW second \in cols, NEW i \in 1 .. Len(rows),
               \A d \in cols : first <= d,
               second # first, \A d \in cols \ {first} : second <= d,
               \A j \in 1 .. Len(rows) : ~RowBehind(table, rows, q, j),
               First(table, rows, <<>>, Len(rows), i), ~RowWithoutColumn(s)
        PROVE  LeastBehind(table, rows, s, second, i)
    <3>1. OidLess(s, Instance(second, rows[i].oid))
      BY <2>2, <2>4, <2>7
    <3>2. ASSUME NEW d \in Columns(table), NEW j \in 1 .. Len(rows),
                 RowIn(table, rows, j), OidLess(s, Instance(d, rows[j].oid))
          PROVE  OidAtMost(Instance(second, rows[i].oid), Instance(d, rows[j].oid))
      <4>1. d \in cols /\ (d = first => OidLess(q, rows[j].oid))
        BY <2>4, <2>7, <3>2
      <4>2. d # first
        BY <2>7, <3>2, <4>1 DEF RowBehind, RowIn
      <4>3. second <= d /\ second \in Nat /\ d \in Nat
        BY <1>3, <2>2, <2>7, <4>1, <4>2
      <4>4. RowBehind(table, rows, <<>>, j)
        BY <1>2, <3>2, LessThanEmpty DEF RowBehind, RowIn
      <4>5. OidLess(rows[i].oid, rows[j].oid) \/ rows[i].oid = rows[j].oid
        BY <2>7, <4>4 DEF First
      <4>6. second < d \/ (second = d /\ (OidLess(rows[i].oid, rows[j].oid) \/ rows[i].oid = rows[j].oid))
        BY <4>3, <4>5
      <4>7. QED
        BY <1>2, <4>3, <4>6, CellsOrdered
    <3>3. QED
      BY <3>1, <3>2 DEF LeastBehind
  <2>8. ASSUME cols = {}, ~RowWithoutColumn(s)
        PROVE  NoneBehind(table, rows, s)
    BY <2>4, <2>8 DEF NoneBehind
  <2>9. \/ /\ instance = NothingFound
           /\ \A first \in cols : (\A d \in cols : first <= d) =>
                /\ \A j \in 1 .. Len(rows) : ~RowBehind(table, rows, q, j)
                /\ \A d \in cols \ {first}, j \in 1 .. Len(rows) : ~RowBehind(table, rows, <<>>, j)
        \/ \E first \in cols, i \in 1 .. Len(rows) :
             /\ \A d \in cols : first <= d
             /\ FoundAt(table, rows, instance, first, i)
             /\ First(table, rows, q, Len(rows), i)
        \/ \E first, second \in cols, i \in 1 .. Len(rows) :
             /\ \A d \in cols : first <= d
             /\ second # first /\ \A d \in cols \ {first} : second <= d
             /\ \A j \in 1 .. Len(rows) : ~RowBehind(table, rows, q, j)
             /\ FoundAt(table, rows, instance, second, i)
             /\ First(table, rows, <<>>, Len(rows), i)
    BY <1>1, <2>2, <2>3, ColumnsSearched
  <2>10. CASE /\ instance = NothingFound
              /\ \A first \in cols : (\A d \in cols : first <= d) =>
                   /\ \A j \in 1 .. Len(rows) : ~RowBehind(table, rows, q, j)
                   /\ \A d \in cols \ {first}, j \in 1 .. Len(rows) : ~RowBehind(table, rows, <<>>, j)
    <3>1. CASE cols = {}
      BY <1>1, <2>8, <2>10, <3>1
    <3>2. CASE cols # {}
      <4>1. cols \in SUBSET Nat
        BY <1>3, <2>2
      <4>2. PICK first \in cols : \A d \in cols : first <= d
        BY <3>2, <4>1, LeastNatural
      <4>3. ~RowWithoutColumn(s) => NoneBehind(table, rows, s)
        BY <2>5, <2>10, <4>2
      <4>4. QED
        BY <1>1, <2>10, <4>3
    <3>3. QED
      BY <3>1, <3>2
  <2>11. CASE \E first \in cols, i \in 1 .. Len(rows) :
                /\ \A d \in cols : first <= d
                /\ FoundAt(table, rows, instance, first, i)
                /\ First(table, rows, q, Len(rows), i)
    BY <1>1, <2>2, <2>6, <2>11
  <2>12. CASE \E first, second \in cols, i \in 1 .. Len(rows) :
                /\ \A d \in cols : first <= d
                /\ second # first /\ \A d \in cols \ {first} : second <= d
                /\ \A j \in 1 .. Len(rows) : ~RowBehind(table, rows, q, j)
                /\ FoundAt(table, rows, instance, second, i)
                /\ First(table, rows, <<>>, Len(rows), i)
    BY <1>1, <2>2, <2>7, <2>12
  <2>13. QED
    BY <2>9, <2>10, <2>11, <2>12
<1>6. QED
  BY <1>4, <1>5

\* An OID with the row entry and a column is the instance of these and of the rest.
LEMMA InstanceAgain ==
  ASSUME NEW s \in OID, Len(s) >= 2, s[1] = 1, s[2] \in Nat
  PROVE  s = Instance(s[2], SubSeq(s, 3, Len(s)))
<1>1. PICK q \in OID : /\ q = SubSeq(s, 3, Len(s)) /\ Len(q) = Len(s) - 2
                       /\ \A j \in 1 .. Len(s) - 2 : q[j] = s[j + 2]
  BY RowPart
<1>2. PICK o : o = Instance(s[2], q)
  OBVIOUS
<1>3. IsCell(o, s[2], q)
  BY <1>2, CellOid, Zenon DEF Instance
<1>4. PICK n \in Nat : n = Len(s) /\ n >= 2
  BY DEF OID
<1>5. /\ o \in OID /\ Len(o) = n /\ o[1] = 1 /\ o[2] = s[2]
      /\ \A j \in 1 .. n - 2 : o[j + 2] = s[j + 2]
  BY <1>1, <1>3, <1>4 DEF IsCell
<1>6. ASSUME NEW j \in 1 .. n
      PROVE  s[j] = o[j]
  <2>1. CASE j \in {1, 2}
    BY <1>5, <2>1
  <2>2. CASE j \notin {1, 2}
    <3>1. j - 2 \in 1 .. n - 2 /\ (j - 2) + 2 = j
      BY <1>4, <2>2
    <3>2. QED
      BY <1>5, <3>1
  <2>3. QED
    BY <2>1, <2>2
<1>7. s = o
  BY <1>4, <1>5, <1>6, SameArcs
<1>8. QED
  BY <1>1, <1>2, <1>7

\* Column and row of an instance can be read off it.
LEMMA InstanceParts ==
  ASSUME NEW c \in Nat, NEW r \in OID, NEW o, o = Instance(c, r)
  PROVE  /\ o \in OID /\ Len(o) = Len(r) + 2 /\ Len(r) \in Nat /\ o[1] = 1 /\ o[2] = c
         /\ SubSeq(o, 3, Len(o)) = r /\ o # <<>>
<1>1. IsCell(o, c, r)
  BY CellOid, Zenon DEF Instance
<1>2. o \in OID /\ Len(o) = Len(r) + 2 /\ o[1] = 1 /\ o[2] = c /\ Len(r) \in Nat
  BY <1>1 DEF IsCell, OID
<1>3. SubSeq(o, 3, Len(o)) = r
  BY <1>1, RowOfCell
<1>4. o # <<>>
  <2>1. Len(o) # 0
    BY <1>2
  <2>2. Len(<<>>) = 0
    OBVIOUS
  <2>3. QED
    BY <2>1, <2>2, Zenon
<1>5. QED
  BY <1>2, <1>3, <1>4

\* The row with an OID in a list.
LEMMA RowWithOidIs ==
  ASSUME NEW rows, NEW n \in Nat, DOMAIN rows = 1 .. n, NEW oid
  PROVE  /\ (\A i \in 1 .. n : rows[i].oid # oid) => RowWithOid(rows, oid) = <<>>
         /\ \A i \in 1 .. n :
              rows[i].oid = oid /\ (\A j \in 1 .. n : rows[j].oid = oid => i <= j) =>
                RowWithOid(rows, oid) = <<rows[i]>>
<1>1. PICK fitting : fitting = {i \in DOMAIN rows : rows[i].oid = oid}
  OBVIOUS
<1>2. RowWithOid(rows, oid) = IF fitting = {} THEN <<>>
                              ELSE <<rows[CHOOSE i \in fitting : \A j \in fitting : i <= j]>>
  BY <1>1 DEF RowWithOid, FirstFit
<1>3. (\A i \in 1 .. n : rows[i].oid # oid) => RowWithOid(rows, oid) = <<>>
  BY <1>1, <1>2
<1>4. ASSUME NEW i \in 1 .. n, rows[i].oid = oid, \A j \in 1 .. n : rows[j].oid = oid => i <= j
      PROVE  RowWithOid(rows, oid) = <<rows[i]>>
  <2>1. fitting \in SUBSET Nat /\ i \in fitting /\ \A j \in fitting : i <= j
    BY <1>1, <1>4
  <2>2. (CHOOSE x \in fitting : \A j \in fitting : x <= j) = i
    BY <2>1, LeastChosen
  <2>3. fitting # {}
    BY <2>1
  <2>4. QED
    BY <1>2, <2>2, <2>3, Zenon
<1>5. QED
  BY <1>3, <1>4

\* A row with the OID, and the first one, unless there is none.
LEMMA RowWithOidExists ==
  ASSUME NEW rows, NEW n \in Nat, DOMAIN rows = 1 .. n, NEW oid, NEW k \in 1 .. n, rows[k].oid = oid
  PROVE  \E i \in 1 .. n : /\ rows[i].oid = oid /\ \A j \in 1 .. n : rows[j].oid = oid => i <= j
                           /\ RowWithOid(rows, oid) = <<rows[i]>>
<1> DEFINE fitting == {i \in 1 .. n : rows[i].oid = oid}
<1>1. fitting \in SUBSET Nat /\ fitting # {}
  OBVIOUS
<1>2. PICK i \in fitting : \A j \in fitting : i <= j
  <2> HIDE DEF fitting
  <2>1. QED
    BY <1>1, LeastNatural
<1>3. i \in 1 .. n /\ rows[i].oid = oid /\ \A j \in 1 .. n : rows[j].oid = oid => i <= j
  BY <1>2
<1>4. RowWithOid(rows, oid) = <<rows[i]>>
  BY <1>3, RowWithOidIs
<1>5. QED
  BY <1>3, <1>4

\* The networks gone through and not offered come behind the default route.
LEMMA SkippedLater ==
  ASSUME ListsTyped, NEW table \in Tables, NEW rows, rows = Rows(table),
         NEW i, RowIn(table, rows, i), NEW j \in 1 .. Len(rows), Skipped(table, rows[j]),
         rows[j].oid = rows[i].oid
  PROVE  i <= j
<1>1. table = "ipRoute" /\ rows = RouteRows /\ rows[i].oid = AnyAddress /\ i \in 1 .. Len(rows)
  BY DEF Skipped, Rows, RowIn
<1>2. rows[i].default # FALSE
  BY <1>1 DEF Skipped, RowIn
<1>3. Len(NetworkRows) \in Nat
  BY NetworkRowsAre DEF AreRows
<1>4. CASE netif_default = NoNetif
  <2>1. rows = NetworkRows
    BY <1>1, <1>4, RouteRowsAre
  <2>2. rows[i].default = FALSE
    BY <1>1, <2>1, RouteRowsAre
  <2>3. QED
    BY <1>2, <2>2
<1>5. CASE netif_default # NoNetif
  <2>1. Len(rows) = Len(NetworkRows) + 1 /\ \A k \in 1 .. Len(NetworkRows) : rows[1 + k] = NetworkRows[k]
    BY <1>1, <1>5, RouteRowsAre
  <2>2. ASSUME i # 1
        PROVE  FALSE
    <3>1. i - 1 \in 1 .. Len(NetworkRows) /\ 1 + (i - 1) = i
      BY <1>1, <1>3, <2>1, <2>2
    <3>2. rows[i] = NetworkRows[i - 1]
      BY <2>1, <3>1
    <3>3. rows[i].default = FALSE
      BY <3>1, <3>2, RouteRowsAre
    <3>4. QED
      BY <1>2, <3>3
  <2>3. QED
    BY <2>2
<1>6. QED
  BY <1>4, <1>5

\* The value of an instance is that of the first row with its OID.
LEMMA ValueIs ==
  ASSUME ListsTyped, NEW table \in Tables, NEW rows, rows = Rows(table),
         NEW c \in Columns(table), NEW i, Picked(table, rows, i)
  PROVE  Value(table, Instance(c, rows[i].oid)) = Cell(table, rows[i], c)
<1>1. i \in 1 .. Len(rows) /\ c \in Nat /\ rows[i].oid \in OID
  BY ColumnsAre, RowOidsAre DEF Picked, RowIn
<1>2. PICK o : o = Instance(c, rows[i].oid)
  OBVIOUS
<1>3. o[2] = c /\ SubSeq(o, 3, Len(o)) = rows[i].oid
  <2>1. PICK r \in OID : r = rows[i].oid
    BY <1>1
  <2>2. o = Instance(c, r) /\ c \in Nat
    BY <1>1, <1>2, <2>1
  <2>3. o[2] = c /\ SubSeq(o, 3, Len(o)) = r
    BY <2>2, InstanceParts
  <2>4. QED
    BY <2>1, <2>3
<1>4. DOMAIN rows = 1 .. Len(rows) /\ Len(rows) \in Nat
  BY RowsAre DEF AreRows
<1>5. ASSUME NEW j \in 1 .. Len(rows), rows[j].oid = rows[i].oid
      PROVE  i <= j
  <2>1. CASE RowIn(table, rows, j)
    BY <1>5, <2>1 DEF Picked
  <2>2. CASE ~RowIn(table, rows, j)
    <3>1. Skipped(table, rows[j])
      BY <2>2 DEF RowIn
    <3>2. QED
      BY <1>5, <3>1, SkippedLater DEF Picked
  <2>3. QED
    BY <2>1, <2>2
<1>6. RowWithOid(rows, rows[i].oid) = <<rows[i]>>
  BY <1>1, <1>4, <1>5, RowWithOidIs
<1>7. Value(table, o) = Cell(table, <<rows[i]>>[1], c)
  BY <1>3, <1>6 DEF Value
<1>8. <<rows[i]>>[1] = rows[i]
  OBVIOUS
<1>9. QED
  BY <1>2, <1>7, <1>8

-----------------------------------------------------------------------------
(* GET.                                                                    *)

\* GET has found an instance of the table, has found none, or one no walk comes by.
Hit(table, rows, s, found) ==
  \E c \in Columns(table), i \in 1 .. Len(rows) :
    Picked(table, rows, i) /\ s = Instance(c, rows[i].oid) /\ found = <<rows[i]>>
Miss(table, s, found) == found = <<>> /\ (s \in Instances(table) => Unfit(s))
Aliased(table, s, found) ==
  /\ found # <<>> /\ Alias(s)
  /\ s \in Instances(table) => Cell(table, found[1], s[2]) = Value(table, s)

\* s has the row entry, a column of the table, and the arcs t.
AsksFor(table, s, t) ==
  /\ s \in OID /\ Len(s) >= 3 /\ s[1] = 1 /\ s[2] \in Columns(table)
  /\ t = SubSeq(s, 3, Len(s))

\* It is the instance of these.
LEMMA RowAskedFor ==
  ASSUME NEW table \in Tables, NEW s, NEW t, AsksFor(table, s, t)
  PROVE  s = Instance(s[2], t) /\ t \in OID /\ s[2] \in Nat
<1>1. s \in OID /\ Len(s) >= 3 /\ s[1] = 1 /\ s[2] \in Columns(table) /\ t = SubSeq(s, 3, Len(s))
  BY DEF AsksFor
<1>2. s[2] \in Nat /\ Len(s) >= 2
  <2>1. Len(s) \in Nat
    BY <1>1 DEF OID
  <2>2. QED
    BY <1>1, <2>1, ColumnsAre
<1>3. QED
  BY <1>1, <1>2, InstanceAgain, RowPart

\* It is one of the table only if t is a row.
IsRowOid(table, rows, t) == \E i \in 1 .. Len(rows) : RowIn(table, rows, i) /\ rows[i].oid = t
LEMMA InstanceAskedFor ==
  ASSUME ListsTyped, NEW table \in Tables, NEW rows, rows = Rows(table),
         NEW s, NEW t, AsksFor(table, s, t), s \in Instances(table)
  PROVE  IsRowOid(table, rows, t)
<1>1. PICK c \in Columns(table), i \in 1 .. Len(rows) :
        RowIn(table, rows, i) /\ s = Instance(c, rows[i].oid)
  BY InstancesAre
<1>2. PICK r \in OID : r = rows[i].oid
  BY RowOidsAre
<1>3. s = Instance(c, r) /\ c \in Nat
  BY <1>1, <1>2, ColumnsAre
<1>4. SubSeq(s, 3, Len(s)) = r
  BY <1>3, InstanceParts
<1>5. t = SubSeq(s, 3, Len(s))
  BY DEF AsksFor
<1>6. QED
  BY <1>1, <1>2, <1>4, <1>5 DEF IsRowOid

\* The row is looked for in the list.
LEMMA RowLookedUp ==
  ASSUME ListsTyped, NEW table \in Tables, NEW rows, rows = Rows(table),
         NEW s, NEW t, AsksFor(table, s, t),
         \A j \in 1 .. Len(rows) : rows[j].oid = t => ~Skipped(table, rows[j]),
         NEW found, found = RowWithOid(rows, t)
  PROVE  Hit(table, rows, s, found) \/ Miss(table, s, found)
<1>1. DOMAIN rows = 1 .. Len(rows) /\ Len(rows) \in Nat
  BY RowsAre DEF AreRows
<1>2. CASE \A i \in 1 .. Len(rows) : rows[i].oid # t
  <2>1. found = <<>>
    BY <1>1, <1>2, RowWithOidIs
  <2>2. s \notin Instances(table)
    <3>1. s \in Instances(table) => IsRowOid(table, rows, t)
      BY InstanceAskedFor
    <3>2. QED
      BY <1>2, <3>1 DEF IsRowOid
  <2>3. QED
    BY <2>1, <2>2 DEF Miss
<1>3. CASE ~(\A i \in 1 .. Len(rows) : rows[i].oid # t)
  <2>1. PICK k \in 1 .. Len(rows) : rows[k].oid = t
    BY <1>3
  <2>2. PICK i \in 1 .. Len(rows) : /\ rows[i].oid = t
                                    /\ \A j \in 1 .. Len(rows) : rows[j].oid = t => i <= j
                                    /\ RowWithOid(rows, t) = <<rows[i]>>
    BY <1>1, <2>1, RowWithOidExists
  <2>3. Picked(table, rows, i)
    BY <2>2 DEF Picked, RowIn
  <2>4. s = Instance(s[2], rows[i].oid) /\ s[2] \in Columns(table)
    <3>1. s = Instance(s[2], t)
      BY RowAskedFor
    <3>a. s[2] \in Columns(table)
      BY DEF AsksFor
    <3>2. QED
      BY <2>2, <3>1, <3>a
  <2>5. QED
    BY <2>2, <2>3, <2>4 DEF Hit
<1>4. QED
  BY <1>2, <1>3

\* The range checks let the rows through.
LEMMA AddressInRange ==
  ASSUME NEW ip \in Addresses4
  PROVE  OidInRange(ip, Octets(4))
<1>1. Len(ip) = 4 /\ DOMAIN ip = 1 .. 4 /\ \A i \in 1 .. 4 : ip[i] \in 0 .. 255
  BY AddressArcs
<1>2. Len(Octets(4)) = 4 /\ \A i \in 1 .. 4 : Octets(4)[i][1] = 0 /\ Octets(4)[i][2] = 255
  BY DEF Octets
<1>3. QED
  BY <1>1, <1>2 DEF OidInRange

\* interfaces_Table_oid_ranges holds the numbers of the interfaces.
LEMMA NumberInRange ==
  ASSUME NEW a \in 1 .. 255
  PROVE  OidInRange(<<a>>, <<NumberRange>>)
<1>0. NumberRange[1] = 1 /\ NumberRange[2] = 255
  BY DEF NumberRange
<1>1. PICK p : p = NumberRange /\ p[1] = 1 /\ p[2] = 255
  BY <1>0
<1>2. a \in p[1] .. p[2]
  BY <1>1
<1>3. Len(<<a>>) = 1 /\ Len(<<p>>) = 1 /\ DOMAIN <<a>> = {1} /\ <<a>>[1] = a /\ <<p>>[1] = p
  OBVIOUS
<1>4. OidInRange(<<a>>, <<p>>)
  BY <1>2, <1>3, Zenon DEF OidInRange
<1>5. QED
  BY <1>1, <1>4, Zenon

\* The elements of two sequences, one behind the other.
LEMMA JoinedElements ==
  ASSUME NEW A, NEW s \in Seq(A), NEW t \in Seq(A)
  PROVE  /\ Len(s \o t) = Len(s) + Len(t) /\ Len(s) \in Nat /\ Len(t) \in Nat
         /\ \A i \in 1 .. Len(s) + Len(t) : (s \o t)[i] = IF i <= Len(s) THEN s[i] ELSE t[i - Len(s)]
<1>1. Len(s \o t) = Len(s) + Len(t) /\ Len(s) \in Nat /\ Len(t) \in Nat
  OBVIOUS
<1>2. \A i \in 1 .. Len(s) + Len(t) : (s \o t)[i] = IF i <= Len(s) THEN s[i] ELSE t[i - Len(s)]
  OBVIOUS
<1>3. QED
  BY <1>1, <1>2

\* Four elements and one.
LEMMA FiveRanges ==
  ASSUME NEW A, NEW s \in Seq(A), NEW t \in Seq(A), Len(s) = 4, Len(t) = 1
  PROVE  /\ Len(s \o t) = 5 /\ (\A i \in 1 .. 4 : (s \o t)[i] = s[i])
         /\ (s \o t)[5] = t[1]
<1>1. /\ Len(s \o t) = Len(s) + Len(t)
      /\ \A i \in 1 .. Len(s) + Len(t) : (s \o t)[i] = IF i <= Len(s) THEN s[i] ELSE t[i - Len(s)]
  BY JoinedElements, Zenon
<1>2. (s \o t)[5] = t[5 - 4]
  BY <1>1
<1>3. QED
  BY <1>1, <1>2

\* The ranges of udpTable: four octets and a port.
FourOctetsAndPort(ranges) ==
  /\ Len(ranges) = 5 /\ ranges[5][1] = 1 /\ ranges[5][2] = MaxPort
  /\ \A i \in 1 .. 4 : ranges[i][1] = 0 /\ ranges[i][2] = 255
LEMMA UdpRanges == FourOctetsAndPort(Octets(4) \o <<PortRange>>)
<1>1. PortRange[1] = 1 /\ PortRange[2] = MaxPort
  BY DEF PortRange
<1>2. PICK p : p = PortRange /\ p[1] = 1 /\ p[2] = MaxPort
  BY <1>1
<1>3. PICK octets, ports : octets = Octets(4) /\ ports = <<p>>
  OBVIOUS
<1> DEFINE Ranges == {octets[i] : i \in 1 .. 4} \cup {p}
<1>4. /\ octets \in Seq(Ranges) /\ Len(octets) = 4
      /\ \A i \in 1 .. 4 : octets[i][1] = 0 /\ octets[i][2] = 255
  BY <1>3 DEF Octets
<1>5. ports \in Seq(Ranges) /\ Len(ports) = 1 /\ ports[1] = p
  BY <1>3
<1> HIDE DEF Ranges
<1>6. PICK ranges : ranges = octets \o ports
  OBVIOUS
<1>7. /\ Len(ranges) = 5 /\ (\A i \in 1 .. 4 : ranges[i] = octets[i]) /\ ranges[5] = ports[1]
  <2>1. octets \in Seq(Ranges) /\ ports \in Seq(Ranges) /\ Len(octets) = 4 /\ Len(ports) = 1
    BY <1>4, <1>5
  <2>2. QED
    BY <1>6, <2>1, FiveRanges, Zenon
<1>8. FourOctetsAndPort(ranges)
  BY <1>2, <1>4, <1>5, <1>7 DEF FourOctetsAndPort
<1>9. QED
  BY <1>2, <1>3, <1>6, <1>8, Zenon

\* An address and a port are in them, if the port is not 0.
LEMMA PortInRange ==
  ASSUME NEW ip \in Addresses4, NEW port \in Ports, port # 0, NEW u, JoinOf(u, ip, <<port>>)
  PROVE  OidInRange(u, Octets(4) \o <<PortRange>>)
<1>1. port \in 1 .. MaxPort
  BY DEF Ports
<1>2. PICK ranges : ranges = Octets(4) \o <<PortRange>>
  OBVIOUS
<1>3. /\ Len(ranges) = 5 /\ ranges[5][1] = 1 /\ ranges[5][2] = MaxPort
      /\ \A i \in 1 .. 4 : ranges[i][1] = 0 /\ ranges[i][2] = 255
  <2>1. FourOctetsAndPort(ranges)
    BY <1>2, UdpRanges, Zenon
  <2>2. QED
    BY <2>1 DEF FourOctetsAndPort
<1>4. Len(ip) = 4 /\ \A i \in 1 .. 4 : ip[i] \in 0 .. 255
  BY AddressArcs
<1>5. Len(<<port>>) = 1 /\ <<port>>[1] = port
  OBVIOUS
<1>6. Len(u) = 5 /\ u \in OID /\ (\A i \in 1 .. 4 : u[i] = ip[i]) /\ u[5] = port
  BY <1>4, <1>5 DEF JoinOf
<1>7. DOMAIN u = 1 .. 5
  BY <1>6 DEF OID
<1>8. ASSUME NEW i \in 1 .. 5
       PROVE  u[i] \in ranges[i][1] .. ranges[i][2]
  <2>1. CASE i \in 1 .. 4
    <3>1. ranges[i][1] = 0 /\ ranges[i][2] = 255
      BY <1>3, <2>1
    <3>2. u[i] \in 0 .. 255
      BY <1>4, <1>6, <2>1
    <3>3. QED
      BY <3>1, <3>2
  <2>2. CASE i = 5
    BY <1>1, <1>3, <1>6, <2>2
  <2>3. QED
    BY <2>1, <2>2
<1>9. OidInRange(u, ranges)
  BY <1>3, <1>6, <1>7, <1>8 DEF OidInRange
<1>10. QED
  BY <1>2, <1>9, Zenon

\* interfaces_Table_get_cell_instance()
LEMMA InterfaceFound ==
  ASSUME ListsTyped, NEW s, NEW t, AsksFor("interfaces", s, t), NEW found, found = InterfaceFor(t)
  PROVE  Hit("interfaces", InterfaceRows, s, found) \/ Miss("interfaces", s, found)
<1>1. PICK table \in Tables : table = "interfaces"
  BY DEF Tables
<1>2. PICK rows : rows = Rows(table) /\ rows = InterfaceRows
  BY <1>1 DEF Rows
<1>3. AsksFor(table, s, t) /\ \A j : ~Skipped(table, rows[j])
  BY <1>1 DEF Skipped
<1>4. CASE OidInRange(t, <<NumberRange>>)
  <2>1. found = RowWithOid(rows, t)
    BY <1>2, <1>4 DEF InterfaceFor
  <2>2. Hit(table, rows, s, found) \/ Miss(table, s, found)
    BY <1>2, <1>3, <2>1, RowLookedUp
  <2>3. QED
    BY <1>1, <1>2, <2>2
<1>5. CASE ~OidInRange(t, <<NumberRange>>)
  <2>1. ASSUME NEW i \in 1 .. Len(rows), rows[i].oid = t
        PROVE  FALSE
    <3>1. i \in 1 .. Len(netif_list)
      BY <1>2, InterfaceRowsAre
    <3>2. PICK a \in 1 .. 255 : a = NetifToNum(netif_list[i].netif)
      <4>1. netif_list[i].netif \in Netifs
        BY <3>1, ListElements
      <4>2. NetifToNum(netif_list[i].netif) \in 1 .. 255
        BY <4>1, NetifFacts
      <4>3. QED
        BY <4>2
    <3>3. rows[i] = RowOf(<<a>>, netif_list[i], FALSE)
      <4>1. InterfaceRows[i] = RowOf(<<NetifToNum(netif_list[i].netif)>>, netif_list[i], FALSE)
        BY <3>1, InterfaceRowsAre
      <4>2. QED
        BY <1>2, <3>2, <4>1
    <3>4. rows[i].oid = <<a>>
      BY <3>3 DEF RowOf
    <3>5. QED
      BY <1>5, <2>1, <3>4, NumberInRange, Zenon
  <2>2. s \notin Instances(table)
    <3>1. s \in Instances(table) => IsRowOid(table, rows, t)
      BY <1>2, <1>3, InstanceAskedFor
    <3>2. QED
      BY <2>1, <3>1 DEF IsRowOid
  <2>3. found = <<>>
    BY <1>5 DEF InterfaceFor
  <2>4. QED
    BY <1>1, <2>2, <2>3 DEF Miss
<1>6. QED
  BY <1>4, <1>5

\* ip_AddrTable_get_cell_value()
LEMMA AddrFound ==
  ASSUME ListsTyped, NEW s, NEW t, AsksFor("ipAddr", s, t), NEW found, found = AddrFor(t)
  PROVE  Hit("ipAddr", AddrRows, s, found) \/ Miss("ipAddr", s, found)
<1>1. PICK table \in Tables : table = "ipAddr"
  BY DEF Tables
<1>2. PICK rows : rows = Rows(table) /\ rows = AddrRows
  BY <1>1 DEF Rows
<1>3. AsksFor(table, s, t) /\ \A j : ~Skipped(table, rows[j])
  BY <1>1 DEF Skipped
<1>4. CASE OidInRange(t, Octets(4))
  <2>1. found = RowWithOid(rows, t)
    BY <1>2, <1>4 DEF AddrFor
  <2>2. Hit(table, rows, s, found) \/ Miss(table, s, found)
    BY <1>2, <1>3, <2>1, RowLookedUp
  <2>3. QED
    BY <1>1, <1>2, <2>2
<1>5. CASE ~OidInRange(t, Octets(4))
  <2>1. ASSUME NEW i \in 1 .. Len(rows), rows[i].oid = t
        PROVE  FALSE
    <3>1. i \in 1 .. Len(netif_list)
      BY <1>2, AddrRowsAre
    <3>2. PICK ip \in Addresses4 : ip = netif_list[i].netif.ip
      BY <3>1, AddrRowsAre
    <3>3. rows[i] = RowOf(ip, netif_list[i], FALSE)
      BY <1>2, <3>1, <3>2, AddrRowsAre
    <3>4. rows[i].oid = ip
      BY <3>3 DEF RowOf
    <3>5. QED
      BY <1>5, <2>1, <3>4, AddressInRange
  <2>2. s \notin Instances(table)
    <3>1. s \in Instances(table) => IsRowOid(table, rows, t)
      BY <1>2, <1>3, InstanceAskedFor
    <3>2. QED
      BY <2>1, <3>1 DEF IsRowOid
  <2>3. found = <<>>
    BY <1>5 DEF AddrFor
  <2>4. QED
    BY <1>1, <2>2, <2>3 DEF Miss
<1>6. QED
  BY <1>4, <1>5

\* udp_Table_get_cell_value(): the row with port 0 is not found.
LEMMA UdpFound ==
  ASSUME ListsTyped, walk.table = "udp", NEW s, NEW t, AsksFor("udp", s, t),
         NEW found, found = UdpFor(t)
  PROVE  Hit("udp", UdpRows, s, found) \/ Miss("udp", s, found)
<1>1. PICK table \in Tables : table = "udp"
  BY DEF Tables
<1>2. PICK rows : rows = Rows(table) /\ rows = UdpRows
  BY <1>1 DEF Rows
<1>3. AsksFor(table, s, t) /\ \A j : ~Skipped(table, rows[j])
  BY <1>1 DEF Skipped
<1>4. CASE OidInRange(t, Octets(4) \o <<PortRange>>)
  <2>1. found = RowWithOid(rows, t)
    BY <1>2, <1>4 DEF UdpFor
  <2>2. Hit(table, rows, s, found) \/ Miss(table, s, found)
    BY <1>2, <1>3, <2>1, RowLookedUp
  <2>3. QED
    BY <1>1, <1>2, <2>2
<1>5. CASE ~OidInRange(t, Octets(4) \o <<PortRange>>)
  <2>1. ASSUME NEW i \in 1 .. Len(rows), rows[i].oid = t
        PROVE  Unfit(s)
    <3>1. i \in 1 .. Len(udp_pcbs) /\ udp_pcbs[i] \in Pcbs
      BY <1>2, UdpRowsAre
    <3>2. PICK ip \in Addresses4, port \in Ports :
            ip = udp_pcbs[i].local_ip /\ port = udp_pcbs[i].local_port
      BY <3>1, PcbFacts
    <3>3. JoinOf(t, ip, <<port>>)
      BY <1>2, <2>1, <3>1, <3>2, UdpRowsAre
    <3>4. port = 0
      BY <1>5, <3>3, PortInRange
    <3>5. Len(t) = 5 /\ t[5] = 0
      <4>1. Len(ip) = 4
        BY AddressArcs
      <4>2. Len(<<port>>) = 1 /\ <<port>>[1] = port
        OBVIOUS
      <4>3. QED
        BY <3>3, <3>4, <4>1, <4>2 DEF JoinOf
    <3>6. s \in OID /\ t = SubSeq(s, 3, Len(s)) /\ Len(s) >= 2
      <4>1. s \in OID /\ t = SubSeq(s, 3, Len(s)) /\ Len(s) >= 3
        BY <1>3 DEF AsksFor
      <4>2. Len(s) \in Nat
        BY <4>1 DEF OID
      <4>3. QED
        BY <4>1, <4>2
    <3>7. Len(t) = Len(s) - 2 /\ \A j \in 1 .. Len(s) - 2 : t[j] = s[j + 2]
      BY <3>6, RowPart
    <3>8. Len(s) = 7 /\ s[7] = 0
      <4>1. PICK n \in Nat : n = Len(s)
        BY <3>6 DEF OID
      <4>a. 5 = n - 2
        BY <3>5, <3>7, <4>1, Zenon
      <4>b. n = 7
        BY <4>a
      <4>2. Len(s) = 7
        BY <4>1, <4>b, Zenon
      <4>3. t[5] = s[5 + 2]
        BY <3>7, <4>2
      <4>4. QED
        BY <3>5, <4>2, <4>3
    <3>9. QED
      BY <3>8 DEF Unfit, Last
  <2>2. s \in Instances(table) => Unfit(s)
    <3>1. s \in Instances(table) => IsRowOid(table, rows, t)
      BY <1>2, <1>3, InstanceAskedFor
    <3>2. QED
      BY <2>1, <3>1 DEF IsRowOid
  <2>3. found = <<>>
    BY <1>5 DEF UdpFor
  <2>4. QED
    BY <1>1, <2>2, <2>3 DEF Miss
<1>6. QED
  BY <1>4, <1>5

\* It finds no row whose port is 0.
LEMMA UnfitMissed ==
  ASSUME NEW s, NEW t, AsksFor("udp", s, t), UdpFor(t) # <<>>
  PROVE  Last(s) # 0
<1>1. PICK ranges : ranges = Octets(4) \o <<PortRange>>
  OBVIOUS
<1>2. OidInRange(t, ranges)
  BY <1>1 DEF UdpFor
<1>3. Len(ranges) = 5 /\ ranges[5][1] = 1
  <2>1. FourOctetsAndPort(ranges)
    BY <1>1, UdpRanges, Zenon
  <2>2. QED
    BY <2>1 DEF FourOctetsAndPort
<1>4. s \in OID /\ t = SubSeq(s, 3, Len(s)) /\ Len(s) >= 3
  BY DEF AsksFor
<1>5. PICK n \in Nat : n = Len(s) /\ n >= 3
  BY <1>4 DEF OID
<1>6. t \in OID /\ Len(t) = n - 2 /\ \A j \in 1 .. n - 2 : t[j] = s[j + 2]
  BY <1>4, <1>5, RowPart
<1>7. Len(t) = 5 /\ DOMAIN t = 1 .. 5
  <2>1. Len(t) = 5
    BY <1>2, <1>3 DEF OidInRange
  <2>2. DOMAIN t = 1 .. Len(t)
    BY <1>6 DEF OID
  <2>3. QED
    BY <2>1, <2>2
<1>8. t[5] \in 1 .. ranges[5][2]
  BY <1>2, <1>3, <1>7 DEF OidInRange
<1>9. n = 7 /\ t[5] = s[5 + 2]
  <2>1. n - 2 = 5
    BY <1>6, <1>7
  <2>2. n = 7
    BY <2>1
  <2>3. QED
    BY <1>6, <2>1, <2>2
<1>10. s[7] # 0
  BY <1>8, <1>9
<1>11. QED
  BY <1>5, <1>9, <1>10 DEF Last

\* Behind the default route, the networks are found as in their own list.
LEMMA NetworkLookedUp ==
  ASSUME ListsTyped, netif_default # NoNetif, NEW t, t # AnyAddress
  PROVE  RowWithOid(NetworkRows, t) = RowWithOid(RouteRows, t)
<1>1. PICK N, R : N = NetworkRows /\ R = RouteRows
  OBVIOUS
<1>a. AreRows(N, 4)
  BY <1>1, NetworkRowsAre
<1>b. Len(N) \in Nat /\ DOMAIN N = 1 .. Len(N)
  BY <1>a DEF AreRows
<1>2. PICK n \in Nat : n = Len(N) /\ DOMAIN N = 1 .. n
  BY <1>b, Zenon
<1>3. Len(R) = n + 1 /\ R[1].oid = AnyAddress /\ \A i \in 1 .. n : R[1 + i] = N[i]
  BY <1>1, <1>2, RouteRowsAre
<1>4. DOMAIN R = 1 .. n + 1 /\ n + 1 \in Nat
  BY <1>1, <1>2, <1>3, RouteRowsAre DEF AreRows
<1>5. ASSUME NEW j \in 1 .. n + 1, R[j].oid = t
      PROVE  j - 1 \in 1 .. n /\ N[j - 1].oid = t
  <2>1. j # 1
    BY <1>3, <1>5
  <2>2. j - 1 \in 1 .. n /\ 1 + (j - 1) = j
    BY <2>1
  <2>3. QED
    BY <1>3, <1>5, <2>2
<1>6. CASE \A i \in 1 .. n : N[i].oid # t
  <2>1. \A j \in 1 .. n + 1 : R[j].oid # t
    BY <1>5, <1>6
  <2>2. RowWithOid(N, t) = <<>>
    BY <1>2, <1>6, RowWithOidIs
  <2>3. RowWithOid(R, t) = <<>>
    BY <1>4, <2>1, RowWithOidIs
  <2>4. QED
    BY <1>1, <2>2, <2>3
<1>7. CASE ~(\A i \in 1 .. n : N[i].oid # t)
  <2>1. PICK k \in 1 .. n : N[k].oid = t
    BY <1>7
  <2>2. PICK i \in 1 .. n : /\ N[i].oid = t /\ \A j \in 1 .. n : N[j].oid = t => i <= j
                            /\ RowWithOid(N, t) = <<N[i]>>
    BY <1>2, <2>1, RowWithOidExists
  <2>3. 1 + i \in 1 .. n + 1 /\ R[1 + i] = N[i]
    BY <1>3
  <2>4. ASSUME NEW j \in 1 .. n + 1, R[j].oid = t
        PROVE  1 + i <= j
    <3>1. j - 1 \in 1 .. n /\ i <= j - 1
      BY <1>5, <2>2, <2>4
    <3>2. QED
      BY <3>1
  <2>5. RowWithOid(R, t) = <<R[1 + i]>>
    BY <1>4, <2>2, <2>3, <2>4, RowWithOidIs
  <2>6. QED
    BY <1>1, <2>2, <2>3, <2>5
<1>8. QED
  BY <1>6, <1>7

\* ip_RouteTable_get_cell_value(): without a default route, 0.0.0.0 finds a network without
\* address.
LEMMA RouteFound ==
  ASSUME ListsTyped, walk.table = "ipRoute", NEW s, NEW t, AsksFor("ipRoute", s, t),
         NEW found, found = RouteFor(t)
  PROVE  \/ Hit("ipRoute", RouteRows, s, found) \/ Miss("ipRoute", s, found)
         \/ Aliased("ipRoute", s, found)
<1>1. PICK table \in Tables : table = "ipRoute"
  BY DEF Tables
<1>2. PICK rows : rows = Rows(table) /\ rows = RouteRows
  BY <1>1 DEF Rows
<1>3. AsksFor(table, s, t)
  BY <1>1
<1>4. AreRows(rows, 4) /\ AreRows(NetworkRows, 4)
  BY <1>2, RouteRowsAre, NetworkRowsAre
<1>5. Len(NetworkRows) \in Nat /\ Len(NetworkRows) = Len(netif_list)
  BY <1>4, NetworkRowsAre DEF AreRows
<1>6. ASSUME NEW i \in 1 .. Len(rows)
      PROVE  rows[i].oid \in Addresses4
  <2>1. ASSUME NEW k \in 1 .. Len(NetworkRows)
        PROVE  NetworkRows[k].oid \in Addresses4
    <3>1. PICK a \in Addresses4 : NetworkRows[k] = RowOf(a, netif_list[k], FALSE)
      BY <1>5, NetworkRowsAre
    <3>2. NetworkRows[k].oid = a
      BY <3>1 DEF RowOf
    <3>3. QED
      BY <3>2
  <2>2. CASE netif_default = NoNetif
    <3>1. rows = NetworkRows
      BY <1>2, <2>2, RouteRowsAre
    <3>2. QED
      BY <2>1, <3>1
  <2>3. CASE netif_default # NoNetif
    <3>1. /\ Len(rows) = Len(NetworkRows) + 1 /\ rows[1].oid = AnyAddress
          /\ \A k \in 1 .. Len(NetworkRows) : rows[1 + k] = NetworkRows[k]
      BY <1>2, <2>3, RouteRowsAre
    <3>2. CASE i = 1
      BY <3>1, <3>2, DefaultRowIs
    <3>3. CASE i # 1
      <4>1. i - 1 \in 1 .. Len(NetworkRows) /\ 1 + (i - 1) = i
        BY <1>5, <3>1, <3>3
      <4>2. rows[i] = NetworkRows[i - 1]
        BY <3>1, <4>1
      <4>3. QED
        BY <2>1, <4>1, <4>2
    <3>4. QED
      BY <3>2, <3>3
  <2>4. QED
    BY <2>2, <2>3
<1>7. CASE ~OidInRange(t, Octets(4))
  <2>1. found = <<>>
    BY <1>7 DEF RouteFor
  <2>2. \A i \in 1 .. Len(rows) : rows[i].oid # t
    BY <1>6, <1>7, AddressInRange
  <2>3. s \in Instances(table) => IsRowOid(table, rows, t)
    BY <1>2, <1>3, InstanceAskedFor
  <2>4. s \notin Instances(table)
    BY <2>2, <2>3 DEF IsRowOid
  <2>5. QED
    BY <1>1, <2>1, <2>4 DEF Miss
<1>8. CASE OidInRange(t, Octets(4)) /\ t = AnyAddress /\ netif_default # NoNetif
  <2>1. found = DefaultRow
    BY <1>8 DEF RouteFor
  <2>2. /\ DefaultRow = <<rows[1]>> /\ rows[1].oid = AnyAddress /\ rows[1].default = TRUE
        /\ Len(rows) = Len(NetworkRows) + 1
    BY <1>2, <1>8, RouteRowsAre
  <2>3. 1 \in 1 .. Len(rows)
    BY <1>5, <2>2
  <2>4. Picked(table, rows, 1)
    <3>1. RowIn(table, rows, 1)
      BY <2>2, <2>3 DEF RowIn, Skipped
    <3>2. \A j : RowIn(table, rows, j) => 1 <= j
      BY DEF RowIn
    <3>3. QED
      BY <3>1, <3>2 DEF Picked
  <2>5. s = Instance(s[2], t) /\ s[2] \in Columns(table)
    BY <1>3, RowAskedFor DEF AsksFor
  <2>6. s = Instance(s[2], rows[1].oid)
    BY <1>8, <2>2, <2>5
  <2>7. found = <<rows[1]>>
    BY <2>1, <2>2
  <2>8. Hit(table, rows, s, found)
    BY <2>3, <2>4, <2>5, <2>6, <2>7 DEF Hit
  <2>9. QED
    BY <1>1, <1>2, <2>8
<1>9. CASE OidInRange(t, Octets(4)) /\ t # AnyAddress
  <2>1. found = RowWithOid(NetworkRows, t)
    BY <1>9 DEF RouteFor
  <2>2. found = RowWithOid(rows, t)
    <3>1. CASE netif_default = NoNetif
      BY <1>2, <2>1, <3>1, RouteRowsAre
    <3>2. CASE netif_default # NoNetif
      BY <1>2, <1>9, <2>1, <3>2, NetworkLookedUp
    <3>3. QED
      BY <3>1, <3>2
  <2>3. \A j \in 1 .. Len(rows) : rows[j].oid = t => ~Skipped(table, rows[j])
    BY <1>9 DEF Skipped
  <2>4. Hit(table, rows, s, found) \/ Miss(table, s, found)
    BY <1>2, <1>3, <2>2, <2>3, RowLookedUp
  <2>5. QED
    BY <1>1, <1>2, <2>4
<1>10. CASE OidInRange(t, Octets(4)) /\ t = AnyAddress /\ netif_default = NoNetif
  <2>1. rows = NetworkRows
    BY <1>2, <1>10, RouteRowsAre
  <2>2. ASSUME NEW i \in 1 .. Len(rows), RowIn(table, rows, i), rows[i].oid = t
        PROVE  FALSE
    <3>1. rows[i].default = FALSE
      BY <2>1, RouteRowsAre
    <3>2. QED
      BY <1>1, <1>10, <2>2, <3>1 DEF RowIn, Skipped
  <2>3. s \notin Instances(table)
    <3>1. s \in Instances(table) => IsRowOid(table, rows, t)
      BY <1>2, <1>3, InstanceAskedFor
    <3>2. QED
      BY <2>2, <3>1 DEF IsRowOid
  <2>4. Alias(s)
    <3>1. s \in OID /\ t = SubSeq(s, 3, Len(s)) /\ Len(s) >= 3
      BY <1>3 DEF AsksFor
    <3>2. PICK n \in Nat : n = Len(s) /\ n >= 3
      BY <3>1 DEF OID
    <3>3. Len(t) = n - 2
      BY <3>1, <3>2, RowPart
    <3>4. Len(t) = 4
      <4>1. Len(AnyAddress) = 4
        BY DefaultRowIs, AddressArcs
      <4>2. QED
        BY <1>10, <4>1, Zenon
    <3>a. 4 = n - 2
      BY <3>3, <3>4, Zenon
    <3>5. n = 6
      BY <3>a
    <3>6. SubSeq(s, 3, 6) = AnyAddress
      BY <1>10, <3>1, <3>2, <3>5, Zenon
    <3>7. QED
      BY <1>10, <3>6 DEF Alias
  <2>5. QED
    BY <1>1, <2>3, <2>4 DEF Miss, Aliased
<1>11. QED
  BY <1>7, <1>8, <1>9, <1>10

\* u has the address ip and the port, with type and length, from its first arc on.
EndAt(u, ip, port) ==
  /\ u \in OID /\ Len(u) >= 7 /\ u[1] = 1 /\ u[2] = 4
  /\ \A i \in 1 .. 4 : u[i + 2] = ip[i]
  /\ u[7] = port

\* snmp_oid_to_ip_port() reads it back.
LEMMA EndRead ==
  ASSUME NEW ip \in Addresses4, NEW port \in Ports, NEW u, EndAt(u, ip, port)
  PROVE  /\ OidToIpPort(u).read = 7 /\ OidToIpPort(u).ip = ip /\ OidToIpPort(u).port = port
<1>1. PICK n \in Nat : n = Len(u) /\ n >= 7 /\ u \in OID
  BY DEF EndAt, OID
<1>2. PICK a : a = SubSeq(u, 3, 6)
  OBVIOUS
<1>3. a = ip
  <2>1. a \in OID /\ Len(a) = 4 /\ \A j \in 1 .. 4 : a[j] = u[(3 + j) - 1]
    <3>1. Len(a) = 4
      BY <1>1, <1>2 DEF OID
    <3>2. \A j \in 1 .. 4 : a[j] = u[(3 + j) - 1]
      BY <1>1, <1>2 DEF OID
    <3>3. a \in OID
      BY <1>1, <1>2, SubSeqProperties DEF OID
    <3>4. QED
      BY <3>1, <3>2, <3>3
  <2>2. \A j \in 1 .. 4 : a[j] = ip[j]
    <3>1. \A j \in 1 .. 4 : (3 + j) - 1 = j + 2
      OBVIOUS
    <3>2. \A j \in 1 .. 4 : u[j + 2] = ip[j]
      BY DEF EndAt
    <3>3. QED
      BY <2>1, <3>1, <3>2
  <2>3. ip \in OID /\ Len(ip) = 4
    BY AddressArcs
  <2>4. QED
    BY <2>1, <2>2, <2>3, SameArcs
<1>4. OidToIp(u) = [read |-> 6, ip |-> ip]
  <2>1. OidInRange(a, Octets(4))
    BY <1>3, AddressInRange
  <2>2. u[1] = 1 /\ u[2] = 4 /\ Len(u) >= 6
    <3>1. u[1] = 1 /\ u[2] = 4
      BY DEF EndAt
    <3>2. QED
      BY <1>1, <3>1
  <2>3. ~(Len(u) >= 2 /\ u[1] = 0 /\ u[2] = 0)
    BY <2>2
  <2>4. QED
    BY <1>2, <1>3, <2>1, <2>2, <2>3 DEF OidToIp
<1>5. u[7] = port /\ ~(port > MaxPort) /\ MaxPort \in Nat /\ port \in Nat
  <2>1. u[7] = port
    BY DEF EndAt
  <2>2. MaxPort \in Nat
    BY DEF MaxPort
  <2>3. port \in 0 .. MaxPort
    BY DEF Ports
  <2>4. QED
    BY <2>1, <2>2, <2>3
<1>a. [read |-> 6, ip |-> ip].read = 6 /\ [read |-> 6, ip |-> ip].ip = ip
  OBVIOUS
<1>6. PICK at : at = [read |-> 6, ip |-> ip] /\ at.read = 6 /\ at.ip = ip
  BY <1>a, Zenon
<1>7. ~(at.read = 0 \/ Len(u) < at.read + 1 \/ u[at.read + 1] > MaxPort)
  BY <1>1, <1>5, <1>6
<1>8. at.read + 1 = 7
  BY <1>6
<1>9. OidToIpPort(u) = [read |-> 7, ip |-> ip, port |-> port]
  BY <1>4, <1>5, <1>6, <1>7, <1>8 DEF OidToIpPort, PortBehind
<1>10. QED
  BY <1>9

\* Some arcs of an OID.
LEMMA ArcsOfOid ==
  ASSUME NEW t \in OID, NEW m \in Nat, NEW n \in Nat, m >= 1, n <= Len(t)
  PROVE  SubSeq(t, m, n) \in OID
<1>1. \A i \in m .. n : t[i] \in Nat
  BY DEF OID
<1>2. QED
  BY <1>1, SubSeqProperties DEF OID

\* Both ends of a control block stand in its instance.
LEMMA EndsInOid ==
  ASSUME NEW p \in Pcbs, NEW e, e = EndpointOid(p)
  PROVE  /\ EndAt(e, p.local_ip, p.local_port) /\ Len(e) = 15
         /\ EndAt(SubSeq(e, 8, 15), p.remote_ip, p.remote_port)
         /\ e[15] = 0
<1>1. PICK l, r, z : /\ l = IpPortToOid(p.local_ip, p.local_port)
                     /\ r = IpPortToOid(p.remote_ip, p.remote_port) /\ z = <<0>>
  OBVIOUS
<1>2. /\ p.local_ip \in Addresses4 /\ p.remote_ip \in Addresses4
      /\ p.local_port \in Nat /\ p.remote_port \in Nat
  BY PcbFacts
<1>3. /\ l \in OID /\ Len(l) = 7 /\ l[1] = 1 /\ l[2] = 4
      /\ (\A i \in 1 .. 4 : l[i + 2] = p.local_ip[i]) /\ l[7] = p.local_port
  BY <1>1, <1>2, IpPortArcs, Zenon
<1>4. /\ r \in OID /\ Len(r) = 7 /\ r[1] = 1 /\ r[2] = 4
      /\ (\A i \in 1 .. 4 : r[i + 2] = p.remote_ip[i]) /\ r[7] = p.remote_port
  BY <1>1, <1>2, IpPortArcs, Zenon
<1>5. z \in OID /\ Len(z) = 1 /\ z[1] = 0
  BY <1>1, OneArc
<1>6. PICK b, o : b = l \o r /\ o = b \o z
  OBVIOUS
<1>7. b \in OID /\ Len(b) = 14 /\ (\A i \in 1 .. 7 : b[i] = l[i]) /\ \A i \in 1 .. 7 : b[7 + i] = r[i]
  <2>1. l \in OID /\ r \in OID /\ Len(l) = 7 /\ Len(r) = 7
    BY <1>3, <1>4
  <2>2. JoinOf(b, l, r)
    BY <1>6, <2>1, OidsJoined, Zenon
  <2>3. QED
    BY <2>1, <2>2 DEF JoinOf
<1>8. o \in OID /\ Len(o) = 15 /\ (\A i \in 1 .. 14 : o[i] = b[i]) /\ o[15] = 0
  <2>1. JoinOf(o, b, z)
    BY <1>5, <1>6, <1>7, OidsJoined, Zenon
  <2>2. o \in OID /\ Len(o) = 15 /\ (\A i \in 1 .. 14 : o[i] = b[i]) /\ o[14 + 1] = z[1]
    BY <1>5, <1>7, <2>1 DEF JoinOf
  <2>3. QED
    BY <1>5, <2>2
<1>9. o = e
  BY <1>1, <1>6, Zenon DEF EndpointOid
<1>10. EndAt(o, p.local_ip, p.local_port)
  <2>1. \A i \in 1 .. 7 : o[i] = l[i]
    BY <1>7, <1>8
  <2>2. o[1] = 1 /\ o[2] = 4 /\ o[7] = p.local_port
    BY <1>3, <2>1
  <2>3. \A i \in 1 .. 4 : o[i + 2] = p.local_ip[i]
    BY <1>3, <2>1
  <2>4. Len(o) >= 7
    BY <1>8
  <2>5. QED
    BY <1>8, <2>2, <2>3, <2>4 DEF EndAt
<1>11. PICK q : q = SubSeq(o, 8, 15)
  OBVIOUS
<1>12. EndAt(q, p.remote_ip, p.remote_port)
  <2>1. q \in OID
    <3>1. 8 \in Nat /\ 15 \in Nat /\ 8 >= 1 /\ 15 <= Len(o)
      BY <1>8
    <3>2. QED
      BY <1>8, <1>11, <3>1, ArcsOfOid
  <2>2. Len(q) = 8
    BY <1>8, <1>11 DEF OID
  <2>3. \A j \in 1 .. 8 : q[j] = o[(8 + j) - 1]
    BY <1>8, <1>11 DEF OID
  <2>4. ASSUME NEW i \in 1 .. 7
        PROVE  q[i] = r[i]
    <3>1. i \in 1 .. 8 /\ 7 + i \in 1 .. 14 /\ (8 + i) - 1 = 7 + i
      OBVIOUS
    <3>2. QED
      BY <1>7, <1>8, <2>3, <3>1
  <2>5. q[1] = 1 /\ q[2] = 4 /\ q[7] = p.remote_port
    BY <1>4, <2>4
  <2>6. \A i \in 1 .. 4 : q[i + 2] = p.remote_ip[i]
    BY <1>4, <2>4
  <2>7. Len(q) >= 7
    BY <2>2
  <2>8. QED
    BY <2>1, <2>5, <2>6, <2>7 DEF EndAt
<1>13. QED
  BY <1>8, <1>9, <1>10, <1>11, <1>12

\* udp_endpointTable_get_cell_value(): it finds the control blocks of the list, and others.
LEMMA EndpointFound ==
  ASSUME ListsTyped, walk.table = "udpEndpoint", NEW s, NEW t, AsksFor("udpEndpoint", s, t),
         NEW found \in EndpointsFor(t)
  PROVE  Miss("udpEndpoint", s, found) \/ Aliased("udpEndpoint", s, found)
<1>1. PICK table \in Tables : table = "udpEndpoint"
  BY DEF Tables
<1>2. PICK rows : rows = Rows(table) /\ rows = EndpointRows
  BY <1>1 DEF Rows
<1>3. AsksFor(table, s, t)
  BY <1>1
<1>4. CASE found # <<>>
  <2>1. Alias(s)
    BY DEF Alias
  <2>2. Cell(table, found[1], s[2]) = Value(table, s)
    BY <1>1 DEF Cell, Value
  <2>3. QED
    BY <1>1, <1>4, <2>1, <2>2 DEF Aliased
<1>5. ASSUME s \in Instances(table)
      PROVE  found # <<>>
  <2>1. IsRowOid(table, rows, t)
    BY <1>2, <1>3, <1>5, InstanceAskedFor
  <2>2. PICK i \in 1 .. Len(rows) : rows[i].oid = t
    BY <2>1 DEF IsRowOid
  <2>3. i \in 1 .. Len(udp_pcbs) /\ DOMAIN rows = 1 .. Len(rows)
    BY <1>2, EndpointRowsAre DEF AreRows
  <2>4. PICK p \in Pcbs : p = udp_pcbs[i]
    BY <2>3, ListElements
  <2>5. rows[i] = RowOf(EndpointOid(p), p, FALSE)
    BY <1>2, <2>3, <2>4, ListElements DEF EndpointRows
  <2>6. rows[i].of = p /\ t = EndpointOid(p)
    BY <2>2, <2>5 DEF RowOf
  <2>7. /\ p.local_ip \in Addresses4 /\ p.local_port \in Ports
        /\ p.remote_ip \in Addresses4 /\ p.remote_port \in Ports
    BY PcbFacts
  <2>8. /\ EndAt(t, p.local_ip, p.local_port) /\ Len(t) = 15 /\ t[15] = 0
        /\ EndAt(SubSeq(t, 8, 15), p.remote_ip, p.remote_port)
    BY <2>6, EndsInOid
  <2>9. PICK local : /\ local = OidToIpPort(t)
                     /\ local.read = 7 /\ local.ip = p.local_ip /\ local.port = p.local_port
    BY <2>7, <2>8, EndRead
  <2>10. PICK remote : /\ remote = OidToIpPort(SubSeq(t, 8, 15))
                       /\ remote.read = 7 /\ remote.ip = p.remote_ip /\ remote.port = p.remote_port
    BY <2>7, <2>8, EndRead
  <2>11. EndpointsFor(t) = EndpointsBetween(t, local, remote)
    <3>1. local.read + 1 = 8
      BY <2>9
    <3>2. QED
      BY <2>8, <2>9, <2>10, <3>1 DEF EndpointsFor
  <2>12. EndpointsBetween(t, local, remote) = {EndpointWith(local, remote)}
    <3>1. /\ local.read + remote.read = 14 /\ local.read # 0 /\ remote.read > 0
          /\ ~(Len(t) < 14 + 1) /\ t[14 + 1] = 0
      BY <2>8, <2>9, <2>10
    <3>2. QED
      BY <3>1 DEF EndpointsBetween
  <2>13. found = EndpointWith(local, remote)
    BY <2>11, <2>12
  <2>14. PICK fitting : fitting = {j \in DOMAIN rows : /\ rows[j].of.local_ip = local.ip
                                                       /\ rows[j].of.local_port = local.port
                                                       /\ rows[j].of.remote_ip = remote.ip
                                                       /\ rows[j].of.remote_port = remote.port}
    OBVIOUS
  <2>15. i \in fitting
    BY <2>3, <2>6, <2>9, <2>10, <2>14
  <2>16. EndpointWith(local, remote) =
           IF fitting = {} THEN <<>> ELSE <<rows[CHOOSE j \in fitting : \A k \in fitting : j <= k]>>
    BY <1>2, <2>14 DEF EndpointWith, FirstFit
  <2>17. PICK k : EndpointWith(local, remote) = <<rows[k]>>
    BY <2>15, <2>16
  <2>18. <<rows[k]>> # <<>>
    OBVIOUS
  <2>19. QED
    BY <2>13, <2>17, <2>18
<1>6. CASE found = <<>>
  BY <1>1, <1>5, <1>6 DEF Miss
<1>7. QED
  BY <1>4, <1>6

\* An instance names the row entry, a column of the table and a row.
LEMMA InstanceShape ==
  ASSUME ListsTyped, NEW table \in Tables, NEW s \in Instances(table)
  PROVE  s \in OID /\ Len(s) >= 3 /\ s[1] = 1 /\ s[2] \in Columns(table)
<1>1. PICK rows : rows = Rows(table)
  OBVIOUS
<1>2. PICK c \in Columns(table), i \in 1 .. Len(rows) :
        RowIn(table, rows, i) /\ s = Instance(c, rows[i].oid)
  BY <1>1, InstancesAre
<1>3. PICK r \in OID : r = rows[i].oid /\ r # <<>>
  BY <1>1, RowOidsAre
<1>4. s = Instance(c, r) /\ c \in Nat
  BY <1>2, <1>3, ColumnsAre
<1>5. s \in OID /\ Len(s) = Len(r) + 2 /\ Len(r) \in Nat /\ s[1] = 1 /\ s[2] = c
  <2>1. PICK o : o = Instance(c, r)
    OBVIOUS
  <2>2. o \in OID /\ Len(o) = Len(r) + 2 /\ Len(r) \in Nat /\ o[1] = 1 /\ o[2] = c
    <3>1. c \in Nat /\ r \in OID
      BY <1>4
    <3>2. o = Instance(c, r)
      BY <2>1
    <3>6. IsCell(o, c, r)
      BY <3>1, <3>2, CellOid, Zenon DEF Instance
    <3>3. o[1] = 1 /\ o[2] = c
      BY <3>6 DEF IsCell
    <3>4. o \in OID /\ Len(o) = Len(r) + 2
      BY <3>6 DEF IsCell
    <3>5. Len(r) \in Nat
      BY <3>1 DEF OID
    <3>7. QED
      BY <3>3, <3>4, <3>5
  <2>3. s = o
    BY <1>4, <2>1
  <2>4. QED
    BY <2>2, <2>3
<1>6. Len(r) # 0
  BY <1>3 DEF OID
<1>7. Len(s) >= 3
  BY <1>5, <1>6
<1>8. QED
  BY <1>5, <1>7

\* snmp_table_get_instance(): what GET finds.
LEMMA GetIs ==
  ASSUME ListsTyped, walk.table \in Tables, NEW s \in OID,
         NEW rows, rows = Rows(walk.table),
         NEW found \in GetInstance(walk.table, s)
  PROVE  \/ Hit(walk.table, rows, s, found) \/ Miss(walk.table, s, found)
         \/ Aliased(walk.table, s, found)
<1>1. PICK table \in Tables : table = walk.table
  OBVIOUS
<1>2. CASE Len(s) >= 3 /\ s[1] = 1 /\ s[2] \in Columns(table)
  <2>1. PICK t : t = SubSeq(s, 3, Len(s))
    OBVIOUS
  <2>2. AsksFor(table, s, t)
    BY <1>2, <2>1 DEF AsksFor
  <2>3. found \in Lookups(table, t)
    BY <1>1, <1>2, <2>1 DEF GetInstance
  <2>4. CASE table = "interfaces"
    <3>1. found = InterfaceFor(t) /\ rows = InterfaceRows
      BY <1>1, <2>3, <2>4 DEF Lookups, Rows
    <3>2. AsksFor("interfaces", s, t)
      BY <2>2, <2>4
    <3>3. Hit("interfaces", InterfaceRows, s, found) \/ Miss("interfaces", s, found)
      BY <3>1, <3>2, InterfaceFound
    <3>4. QED
      BY <1>1, <2>4, <3>1, <3>3
  <2>5. CASE table = "ipAddr"
    <3>1. found = AddrFor(t) /\ rows = AddrRows
      BY <1>1, <2>3, <2>5 DEF Lookups, Rows
    <3>2. AsksFor("ipAddr", s, t)
      BY <2>2, <2>5
    <3>3. Hit("ipAddr", AddrRows, s, found) \/ Miss("ipAddr", s, found)
      BY <3>1, <3>2, AddrFound
    <3>4. QED
      BY <1>1, <2>5, <3>1, <3>3
  <2>6. CASE table = "ipRoute"
    <3>1. found = RouteFor(t) /\ rows = RouteRows
      BY <1>1, <2>3, <2>6 DEF Lookups, Rows
    <3>2. AsksFor("ipRoute", s, t) /\ walk.table = "ipRoute"
      BY <1>1, <2>2, <2>6
    <3>3. \/ Hit("ipRoute", RouteRows, s, found) \/ Miss("ipRoute", s, found)
          \/ Aliased("ipRoute", s, found)
      BY <3>1, <3>2, RouteFound
    <3>4. QED
      BY <1>1, <2>6, <3>1, <3>3
  <2>7. CASE table = "udp"
    <3>1. found = UdpFor(t) /\ rows = UdpRows
      BY <1>1, <2>3, <2>7 DEF Lookups, Rows
    <3>2. AsksFor("udp", s, t) /\ walk.table = "udp"
      BY <1>1, <2>2, <2>7
    <3>3. Hit("udp", UdpRows, s, found) \/ Miss("udp", s, found)
      BY <3>1, <3>2, UdpFound
    <3>4. QED
      BY <1>1, <2>7, <3>1, <3>3
  <2>8. CASE table = "udpEndpoint"
    <3>1. found \in EndpointsFor(t)
      BY <1>1, <2>3, <2>8 DEF Lookups
    <3>2. AsksFor("udpEndpoint", s, t) /\ walk.table = "udpEndpoint"
      BY <1>1, <2>2, <2>8
    <3>3. Miss("udpEndpoint", s, found) \/ Aliased("udpEndpoint", s, found)
      BY <3>1, <3>2, EndpointFound
    <3>4. QED
      BY <1>1, <2>8, <3>3
  <2>9. QED
    BY <2>4, <2>5, <2>6, <2>7, <2>8 DEF Tables
<1>3. CASE ~(Len(s) >= 3 /\ s[1] = 1 /\ s[2] \in Columns(table))
  <2>1. found = <<>>
    BY <1>1, <1>3 DEF GetInstance
  <2>2. s \notin Instances(table)
    BY <1>3, InstanceShape
  <2>3. QED
    BY <1>1, <2>1, <2>2 DEF Miss
<1>4. QED
  BY <1>2, <1>3

\* It finds nothing the range check of its table leaves out.
LEMMA FoundIsFit ==
  ASSUME walk.table \in Tables, NEW s \in OID, NEW found \in GetInstance(walk.table, s), found # <<>>
  PROVE  ~Unfit(s)
<1>1. CASE walk.table # "udp"
  BY <1>1 DEF Unfit
<1>2. CASE walk.table = "udp"
  <2>1. Len(s) >= 3 /\ s[1] = 1 /\ s[2] \in Columns(walk.table)
    BY DEF GetInstance
  <2>2. PICK t : t = SubSeq(s, 3, Len(s))
    OBVIOUS
  <2>3. AsksFor("udp", s, t)
    BY <1>2, <2>1, <2>2 DEF AsksFor
  <2>4. found = UdpFor(t)
    BY <1>2, <2>1, <2>2 DEF GetInstance, Lookups
  <2>5. QED
    BY <2>3, <2>4, UnfitMissed DEF Unfit
<1>3. QED
  BY <1>1, <1>2

-----------------------------------------------------------------------------
(* The agent's steps and those of the stack below.                         *)

\* What a walk has of the table it goes through: it is at the last instance answered, which
\* has a column, and the rows it is to have come by are there.
WalkTyped ==
  /\ walk = [table |-> walk.table, start |-> walk.start, at |-> walk.at, seen |-> walk.seen,
             ended |-> walk.ended, stable |-> walk.stable]
  /\ walk.table \in Tables /\ walk.start \in OID /\ walk.at \in OID /\ walk.seen \in Seq(OID)
WalkKept ==
  /\ walk.seen = <<>> => walk.at = walk.start
  /\ walk.seen # <<>> => walk.at = walk.seen[Len(walk.seen)] /\ ~RowWithoutColumn(walk.at)
  /\ walk.stable \subseteq RowOids(walk.table)

\* The next instance behind s, and that there is none.
IsNext(s, o) ==
  /\ o \in Instances(walk.table) /\ OidLess(s, o)
  /\ \A i \in Instances(walk.table) : OidLess(s, i) => OidAtMost(o, i)
NoNext(s) == \A i \in Instances(walk.table) : ~OidLess(s, i)

\* An instance of interfacesTable is that of an interface, in the list or not.
OfInterface(o, row) ==
  \E c \in InterfacesColumns, n \in Netifs :
    o = Instance(c, <<NetifToNum(n)>>) /\ row.of.netif = n

\* The instance whose value is still to be read is the one that was asked for as long as
\* nothing has changed.
HeldKept ==
  held.holds =>
    /\ walk.table = "interfaces" /\ held.op \in {"next", "get"} /\ held.asked \in OID
    /\ held.changes \in Nat /\ held.changes <= changes
    /\ OfInterface(held.oid, held.row)
    /\ held.changes = changes => held.oid \in Instances(walk.table)
    /\ held.changes = changes /\ held.op = "next" /\ ~RowWithoutColumn(held.asked) =>
         IsNext(held.asked, held.oid)
    /\ held.op = "get" => held.oid = held.asked

TablesIInv ==
  ListsTyped /\ WalkTyped /\ WalkKept /\ HeldKept /\ AnswersMatchTable /\ StableRowsVisited

\* A row of the table is found: o is the instance, and row what is kept of it.
OfTable(o, row) ==
  \E c \in Columns(walk.table), i \in 1 .. Len(Rows(walk.table)) :
    /\ Picked(walk.table, Rows(walk.table), i)
    /\ o = Instance(c, Rows(walk.table)[i].oid) /\ row = Rows(walk.table)[i]

\* What is known of it.
LEMMA OfTableFacts ==
  ASSUME ListsTyped, walk.table \in Tables, NEW o, NEW row, OfTable(o, row)
  PROVE  /\ o \in Instances(walk.table) /\ o \in OID /\ o # NoInstance /\ ~RowWithoutColumn(o)
         /\ Cell(walk.table, row, o[2]) = Value(walk.table, o)
         /\ walk.table = "interfaces" => OfInterface(o, row)
<1>1. PICK table \in Tables : table = walk.table
  OBVIOUS
<1>2. PICK rows : rows = Rows(table)
  OBVIOUS
<1>3. PICK c \in Columns(table), i \in 1 .. Len(rows) :
        Picked(table, rows, i) /\ o = Instance(c, rows[i].oid) /\ row = rows[i]
  BY <1>1, <1>2 DEF OfTable
<1>4. RowIn(table, rows, i)
  BY <1>3 DEF Picked
<1>5. o \in Instances(table)
  BY <1>2, <1>3, <1>4, InstancesAre
<1>6. o \in OID /\ Len(o) >= 3 /\ o[1] = 1 /\ o[2] \in Columns(table)
  BY <1>5, InstanceShape
<1>7. o # NoInstance
  BY <1>6 DEF NoInstance
<1>8. ~RowWithoutColumn(o)
  BY <1>1, <1>6 DEF RowWithoutColumn
<1>9. o[2] = c
  <2>1. PICK r \in OID : r = rows[i].oid
    BY <1>2, RowOidsAre
  <2>2. o = Instance(c, r) /\ c \in Nat
    BY <1>3, <2>1, ColumnsAre
  <2>3. QED
    BY <2>2, InstanceParts
<1>10. Value(table, o) = Cell(table, row, c)
  BY <1>2, <1>3, ValueIs
<1>11. ASSUME table = "interfaces"
       PROVE  OfInterface(o, row)
  <2>1. rows = InterfaceRows /\ c \in InterfacesColumns
    BY <1>2, <1>11 DEF Rows, Columns
  <2>2. i \in 1 .. Len(netif_list)
    BY <2>1, InterfaceRowsAre
  <2>3. rows[i] = RowOf(<<NetifToNum(netif_list[i].netif)>>, netif_list[i], FALSE)
    BY <2>1, <2>2, InterfaceRowsAre
  <2>4. rows[i].oid = <<NetifToNum(netif_list[i].netif)>> /\ rows[i].of = netif_list[i]
    BY <2>3 DEF RowOf
  <2>5. netif_list[i].netif \in Netifs
    BY <2>2, ListElements
  <2>6. QED
    BY <1>3, <2>1, <2>4, <2>5 DEF OfInterface
<1>12. QED
  BY <1>1, <1>5, <1>6, <1>7, <1>8, <1>9, <1>10, <1>11

\* snmp_table_get_next_instance(): what GETNEXT finds, said of the instances.
LEMMA NextInstanceIs ==
  ASSUME ListsTyped, walk.table \in Tables, NEW s \in OID,
         NEW instance, instance = GetNextInstance(walk.table, s)
  PROVE  \/ instance.oid = NoInstance /\ (~RowWithoutColumn(s) => NoNext(s))
         \/ /\ OfTable(instance.oid, instance.row)
            /\ ~RowWithoutColumn(s) => IsNext(s, instance.oid)
<1>1. PICK table \in Tables : table = walk.table
  OBVIOUS
<1>2. PICK rows : rows = Rows(table)
  OBVIOUS
<1>a. \A o \in Instances(table) : \E c \in Columns(table), i \in 1 .. Len(rows) :
        RowIn(table, rows, i) /\ o = Instance(c, rows[i].oid)
  BY <1>2, InstancesAre
<1>3. CASE instance = NothingFound /\ (~RowWithoutColumn(s) => NoneBehind(table, rows, s))
  <2>1. instance.oid = NoInstance
    BY <1>3 DEF NothingFound
  <2>2. NoneBehind(table, rows, s) => NoNext(s)
    <3> SUFFICES ASSUME NoneBehind(table, rows, s), NEW o \in Instances(table)
                 PROVE  ~OidLess(s, o)
      BY <1>1 DEF NoNext
    <3>1. PICK c \in Columns(table), i \in 1 .. Len(rows) :
            RowIn(table, rows, i) /\ o = Instance(c, rows[i].oid)
      BY <1>a
    <3>2. QED
      BY <3>1 DEF NoneBehind
  <2>3. QED
    BY <1>3, <2>1, <2>2
<1>4. ASSUME NEW c \in Columns(table), NEW i \in 1 .. Len(rows),
             FoundAt(table, rows, instance, c, i),
             ~RowWithoutColumn(s) => LeastBehind(table, rows, s, c, i)
      PROVE  /\ OfTable(instance.oid, instance.row)
             /\ ~RowWithoutColumn(s) => IsNext(s, instance.oid)
  <2>1. OfTable(instance.oid, instance.row)
    BY <1>1, <1>2, <1>4 DEF FoundAt, OfTable
  <2>2. instance.oid \in Instances(table)
    BY <1>1, <2>1, OfTableFacts
  <2>3. LeastBehind(table, rows, s, c, i) => IsNext(s, instance.oid)
    <3> SUFFICES ASSUME LeastBehind(table, rows, s, c, i)
                 PROVE  IsNext(s, instance.oid)
      OBVIOUS
    <3>1. PICK p : p = Instance(c, rows[i].oid) /\ instance.oid = p
      BY <1>4 DEF FoundAt
    <3>2. OidLess(s, p)
      BY <3>1 DEF LeastBehind
    <3>3. ASSUME NEW o \in Instances(table), OidLess(s, o)
          PROVE  OidAtMost(p, o)
      <4>1. PICK d \in Columns(table), j \in 1 .. Len(rows) :
              RowIn(table, rows, j) /\ o = Instance(d, rows[j].oid)
        BY <1>a
      <4>2. QED
        BY <3>1, <3>3, <4>1 DEF LeastBehind
    <3>4. QED
      BY <1>1, <2>2, <3>1, <3>2, <3>3 DEF IsNext
  <2>4. QED
    BY <1>4, <2>1, <2>3
<1>5. QED
  <2>1. \/ instance = NothingFound /\ (~RowWithoutColumn(s) => NoneBehind(table, rows, s))
        \/ \E c \in Columns(table), i \in 1 .. Len(rows) :
             /\ FoundAt(table, rows, instance, c, i)
             /\ ~RowWithoutColumn(s) => LeastBehind(table, rows, s, c, i)
    BY <1>1, <1>2, NextIs
  <2>2. QED
    BY <1>3, <1>4, <2>1

\* A sequence with an element in front.
LEMMA InFront ==
  ASSUME NEW A, NEW s \in Seq(A), NEW x \in A, NEW q, q = <<x>> \o s
  PROVE  /\ q \in Seq(A) /\ Len(q) = Len(s) + 1 /\ q[1] = x
         /\ \A j \in 1 .. Len(s) : q[j + 1] = s[j]
<1>1. PICK n \in Nat : n = Len(s)
  OBVIOUS
<1>2. PICK h : h = <<x>> /\ h \in Seq(A) /\ Len(h) = 1 /\ h[1] = x
  <2>1. <<x>> \in Seq(A) /\ Len(<<x>>) = 1 /\ <<x>>[1] = x
    OBVIOUS
  <2>2. QED
    BY <2>1, Zenon
<1>3. q = h \o s
  BY <1>2
<1>4. q \in Seq(A) /\ Len(q) = 1 + n
  BY <1>1, <1>2, <1>3
<1>5. \A i \in 1 .. 1 + n : q[i] = IF i <= 1 THEN h[i] ELSE s[i - 1]
  BY <1>1, <1>2, <1>3
<1>6. q[1] = x
  BY <1>1, <1>2, <1>5
<1>7. ASSUME NEW j \in 1 .. n
      PROVE  q[j + 1] = s[j]
  <2>1. j + 1 \in 1 .. 1 + n /\ ~(j + 1 <= 1) /\ (j + 1) - 1 = j
    OBVIOUS
  <2>2. QED
    BY <1>5, <2>1
<1>8. QED
  BY <1>1, <1>4, <1>6, <1>7

\* A sequence without one of its elements.
LEMMA WithoutElement ==
  ASSUME NEW A, NEW s \in Seq(A), NEW k \in 1 .. Len(s), NEW q, q = RemoveAt(s, k)
  PROVE  /\ q \in Seq(A) /\ Len(q) = Len(s) - 1
         /\ \A j \in 1 .. Len(q) : q[j] = IF j < k THEN s[j] ELSE s[j + 1]
<1>1. PICK n \in Nat : n = Len(s)
  OBVIOUS
<1>2. PICK h, t : h = SubSeq(s, 1, k - 1) /\ t = SubSeq(s, k + 1, n)
  OBVIOUS
<1>3. k \in 1 .. n /\ k \in Nat /\ k - 1 \in Int /\ k + 1 \in Int /\ n \in Int
  BY <1>1
<1>4. \A i \in 1 .. n : s[i] \in A
  BY <1>1
<1>5. h \in Seq(A) /\ Len(h) = k - 1 /\ \A j \in 1 .. k - 1 : h[j] = s[j]
  <2>1. \A i \in 1 .. k - 1 : s[i] \in A
    BY <1>3, <1>4
  <2>2. h \in Seq(A)
    BY <1>2, <1>3, <2>1, SubSeqProperties
  <2>3. QED
    BY <1>1, <1>2, <1>3, <2>2
<1>6. t \in Seq(A) /\ Len(t) = n - k /\ \A j \in 1 .. n - k : t[j] = s[k + j]
  <2>1. \A i \in k + 1 .. n : s[i] \in A
    BY <1>3, <1>4
  <2>2. t \in Seq(A)
    BY <1>2, <1>3, <2>1, SubSeqProperties
  <2>3. \A j \in 1 .. n - k : ((k + 1) + j) - 1 = k + j
    BY <1>3
  <2>4. Len(t) = n - k
    BY <1>1, <1>2, <1>3
  <2>5. \A j \in 1 .. n - k : t[j] = s[((k + 1) + j) - 1]
    BY <1>1, <1>2, <1>3
  <2>6. QED
    BY <2>2, <2>3, <2>4, <2>5
<1>7. q = h \o t
  BY <1>1, <1>2 DEF RemoveAt
<1>8. q \in Seq(A) /\ Len(q) = n - 1
  <2>1. q \in Seq(A)
    BY <1>5, <1>6, <1>7
  <2>2. Len(q) = Len(h) + Len(t)
    <3>1. h \in Seq(A) /\ t \in Seq(A)
      BY <1>5, <1>6
    <3>2. QED
      BY <1>7, <3>1
  <2>3. (k - 1) + (n - k) = n - 1
    BY <1>3
  <2>4. QED
    BY <1>5, <1>6, <2>1, <2>2, <2>3
<1>9. \A j \in 1 .. n - 1 : q[j] = IF j <= k - 1 THEN h[j] ELSE t[j - (k - 1)]
  BY <1>3, <1>5, <1>6, <1>7
<1>10. ASSUME NEW j \in 1 .. n - 1
       PROVE  q[j] = IF j < k THEN s[j] ELSE s[j + 1]
  <2>1. CASE j < k
    <3>1. j <= k - 1 /\ j \in 1 .. k - 1
      BY <1>3, <2>1
    <3>2. QED
      BY <1>5, <1>9, <2>1, <3>1
  <2>2. CASE ~(j < k)
    <3>1. ~(j <= k - 1) /\ j - (k - 1) \in 1 .. n - k /\ k + (j - (k - 1)) = j + 1
      BY <1>3, <2>2
    <3>2. QED
      BY <1>6, <1>9, <2>2, <3>1
  <2>3. QED
    BY <2>1, <2>2
<1>11. QED
  BY <1>1, <1>8, <1>10

\* The lists stay lists: an interface comes in front of them, ...
LEMMA NetifAddKeeps ==
  ASSUME ListsTyped, NEW n \in Netifs, NetifAdd(n)
  PROVE  ListsTyped'
<1>1. PICK x : x = [netif |-> n, up |-> TRUE, link |-> TRUE]
  OBVIOUS
<1>2. x \in Interfaces /\ x.netif = n
  BY <1>1 DEF Interfaces
<1>3. PICK s, q : s = netif_list /\ q = <<x>> \o s /\ s \in Seq(Interfaces)
  BY DEF ListsTyped
<1>4. netif_list' = q /\ netif_default' = netif_default /\ udp_pcbs' = udp_pcbs /\ changes' = changes + 1
  BY <1>1, <1>3 DEF NetifAdd, StackChanges
<1>5. PICK k \in Nat : k = Len(s)
  BY <1>3
<1>6. /\ q \in Seq(Interfaces) /\ Len(q) = k + 1 /\ q[1] = x
      /\ \A j \in 1 .. k : q[j + 1] = s[j]
  BY <1>2, <1>3, <1>5, InFront
<1>7. \A j \in 1 .. k : s[j].netif # n
  <2>1. DOMAIN s = 1 .. k
    BY <1>3, <1>5
  <2>2. ToSet(netif_list) = {s[j] : j \in 1 .. k}
    BY <1>3, <2>1 DEF ToSet
  <2>3. n \notin ListedNetifs
    BY DEF NetifAdd
  <2>4. QED
    BY <2>2, <2>3 DEF ListedNetifs
<1>8. \A j \in 1 .. k + 1 : j = 1 \/ (j - 1 \in 1 .. k /\ q[j] = s[j - 1])
  <2> SUFFICES ASSUME NEW j \in 1 .. k + 1, j # 1
               PROVE  j - 1 \in 1 .. k /\ q[j] = s[j - 1]
    OBVIOUS
  <2>1. j - 1 \in 1 .. k /\ (j - 1) + 1 = j
    OBVIOUS
  <2>2. QED
    BY <1>6, <2>1
<1>9. \A i, j \in 1 .. k : s[i].netif = s[j].netif => i = j
  BY <1>3, <1>5 DEF ListsTyped
<1>10. ASSUME NEW i \in 1 .. k + 1, NEW j \in 1 .. k + 1, q[i].netif = q[j].netif
       PROVE  i = j
  <2>1. CASE i = 1
    <3>1. q[j].netif = n
      BY <1>2, <1>6, <1>10, <2>1
    <3>2. QED
      BY <1>7, <1>8, <2>1, <3>1
  <2>2. CASE j = 1
    <3>1. q[i].netif = n
      BY <1>2, <1>6, <1>10, <2>2
    <3>2. QED
      BY <1>7, <1>8, <2>2, <3>1
  <2>3. CASE i # 1 /\ j # 1
    <3>1. i - 1 \in 1 .. k /\ j - 1 \in 1 .. k /\ s[i - 1].netif = s[j - 1].netif
      BY <1>8, <1>10, <2>3
    <3>2. i - 1 = j - 1
      BY <1>9, <3>1
    <3>3. QED
      BY <3>2
  <2>4. QED
    BY <2>1, <2>2, <2>3
<1>11. netif_default = NoNetif \/ \E i \in 1 .. k + 1 : q[i].netif = netif_default
  <2>1. ASSUME NEW i \in 1 .. k, s[i].netif = netif_default
        PROVE  \E j \in 1 .. k + 1 : q[j].netif = netif_default
    <3>1. i + 1 \in 1 .. k + 1 /\ q[i + 1] = s[i]
      BY <1>6
    <3>2. QED
      BY <2>1, <3>1
  <2>2. netif_default = NoNetif \/ \E i \in 1 .. k : s[i].netif = netif_default
    BY <1>3, <1>5 DEF ListsTyped
  <2>3. QED
    BY <2>1, <2>2
<1>12. udp_pcbs \in Seq(Pcbs) /\ changes + 1 \in Nat
  BY DEF ListsTyped
<1>13. QED
  BY <1>4, <1>6, <1>10, <1>11, <1>12 DEF ListsTyped

\* ... goes from anywhere, ...
LEMMA NetifRemoveKeeps ==
  ASSUME ListsTyped, NEW k \in DOMAIN netif_list, NetifRemove(k)
  PROVE  ListsTyped'
<1>1. PICK s, q : s = netif_list /\ q = RemoveAt(s, k) /\ s \in Seq(Interfaces)
  BY DEF ListsTyped
<1>2. /\ netif_list' = q /\ udp_pcbs' = udp_pcbs /\ changes' = changes + 1
      /\ netif_default' = IF netif_default = s[k].netif THEN NoNetif ELSE netif_default
  BY <1>1 DEF NetifRemove, StackChanges
<1>3. PICK n \in Nat : n = Len(s)
  BY <1>1
<1>4. k \in 1 .. n
  BY <1>1, <1>3
<1>5. /\ q \in Seq(Interfaces) /\ Len(q) = n - 1
      /\ \A j \in 1 .. n - 1 : q[j] = IF j < k THEN s[j] ELSE s[j + 1]
  BY <1>1, <1>3, <1>4, WithoutElement
<1>6. \A i, j \in 1 .. n : s[i].netif = s[j].netif => i = j
  BY <1>1, <1>3 DEF ListsTyped
<1>7. ASSUME NEW i \in 1 .. n - 1, NEW j \in 1 .. n - 1, q[i].netif = q[j].netif
      PROVE  i = j
  <2>1. i \in 1 .. n /\ i + 1 \in 1 .. n /\ j \in 1 .. n /\ j + 1 \in 1 .. n
    BY <1>3
  <2>2. PICK a, b \in 1 .. n : /\ q[i] = s[a] /\ (a = IF i < k THEN i ELSE i + 1)
                               /\ q[j] = s[b] /\ (b = IF j < k THEN j ELSE j + 1)
    BY <1>5, <2>1
  <2>3. a = b
    BY <1>6, <1>7, <2>2
  <2>4. QED
    BY <1>4, <2>2, <2>3
<1>8. ASSUME netif_default # NoNetif, netif_default # s[k].netif
      PROVE  \E j \in 1 .. n - 1 : q[j].netif = netif_default
  <2>1. PICK i \in 1 .. n : s[i].netif = netif_default
    BY <1>1, <1>3, <1>8 DEF ListsTyped
  <2>2. i # k
    BY <1>8, <2>1
  <2>3. CASE i < k
    <3>1. i \in 1 .. n - 1
      BY <1>4, <2>3
    <3>2. q[i] = s[i]
      BY <1>5, <2>3, <3>1
    <3>3. QED
      BY <2>1, <3>1, <3>2
  <2>4. CASE ~(i < k)
    <3>1. i - 1 \in 1 .. n - 1 /\ ~(i - 1 < k) /\ (i - 1) + 1 = i
      BY <1>4, <2>2, <2>4
    <3>2. q[i - 1] = s[i]
      BY <1>5, <3>1
    <3>3. QED
      BY <2>1, <3>1, <3>2
  <2>5. QED
    BY <2>3, <2>4
<1>9. netif_default' = NoNetif \/ \E j \in 1 .. n - 1 : q[j].netif = netif_default'
  BY <1>2, <1>8
<1>10. udp_pcbs \in Seq(Pcbs) /\ changes + 1 \in Nat
  BY DEF ListsTyped
<1>11. QED
  BY <1>2, <1>5, <1>7, <1>9, <1>10 DEF ListsTyped

\* ... and is the default one or changes its state where it is.
LEMMA NetifSetDefaultKeeps ==
  ASSUME ListsTyped, NEW n \in Netifs, NetifSetDefault(n)
  PROVE  ListsTyped'
<1>1. /\ netif_list' = netif_list /\ udp_pcbs' = udp_pcbs /\ changes' = changes + 1
      /\ netif_default' = n /\ n \in ListedNetifs
  BY DEF NetifSetDefault, StackChanges
<1>2. DOMAIN netif_list = 1 .. Len(netif_list)
  BY ListElements
<1>3. \E i \in 1 .. Len(netif_list) : netif_list[i].netif = n
  BY <1>1, <1>2 DEF ListedNetifs, ToSet
<1>4. changes + 1 \in Nat
  BY DEF ListsTyped
<1>5. QED
  BY <1>1, <1>3, <1>4 DEF ListsTyped

LEMMA NetifSetLinkKeeps ==
  ASSUME ListsTyped, NEW k \in DOMAIN netif_list, NEW up \in BOOLEAN, NEW link \in BOOLEAN,
         NetifSetLink(k, up, link)
  PROVE  ListsTyped'
<1>1. PICK s : s = netif_list /\ s \in Seq(Interfaces)
  BY DEF ListsTyped
<1>2. PICK q : q = [netif_list EXCEPT ![k].up = up, ![k].link = link]
  OBVIOUS
<1>3. /\ netif_list' = q /\ netif_default' = netif_default /\ udp_pcbs' = udp_pcbs
      /\ changes' = changes + 1
  BY <1>2 DEF NetifSetLink, StackChanges
<1>4. PICK n \in Nat : n = Len(s) /\ DOMAIN s = 1 .. n
  BY <1>1
<1>5. k \in 1 .. n /\ \A i \in 1 .. n : s[i] \in Interfaces
  BY <1>1, <1>4
<1>6. PICK x : x = [s[k] EXCEPT !.up = up, !.link = link] /\ x \in Interfaces /\ x.netif = s[k].netif
  <2>1. s[k] \in [netif : Netifs, up : BOOLEAN, link : BOOLEAN]
    BY <1>5 DEF Interfaces
  <2>2. [s[k] EXCEPT !.up = up, !.link = link] \in [netif : Netifs, up : BOOLEAN, link : BOOLEAN]
    BY <2>1
  <2>3. [s[k] EXCEPT !.up = up, !.link = link].netif = s[k].netif
    BY <2>1
  <2>4. QED
    BY <2>2, <2>3 DEF Interfaces
<1>7. q = [s EXCEPT ![k] = x]
  BY <1>1, <1>2, <1>4, <1>5, <1>6
<1>8. q \in Seq(Interfaces) /\ Len(q) = n /\ \A i \in 1 .. n : q[i] = IF i = k THEN x ELSE s[i]
  BY <1>1, <1>4, <1>5, <1>6, <1>7
<1>9. \A i \in 1 .. n : q[i].netif = s[i].netif
  BY <1>6, <1>8
<1>10. /\ \A i, j \in 1 .. n : s[i].netif = s[j].netif => i = j
       /\ netif_default = NoNetif \/ \E i \in 1 .. n : s[i].netif = netif_default
       /\ udp_pcbs \in Seq(Pcbs) /\ changes + 1 \in Nat
  BY <1>1, <1>4 DEF ListsTyped
<1>11. /\ \A i, j \in 1 .. n : q[i].netif = q[j].netif => i = j
       /\ netif_default = NoNetif \/ \E i \in 1 .. n : q[i].netif = netif_default
  BY <1>9, <1>10
<1>12. QED
  BY <1>3, <1>8, <1>10, <1>11 DEF ListsTyped

\* The same of the control blocks.
LEMMA UdpListKept ==
  ASSUME ListsTyped, netif_list' = netif_list, netif_default' = netif_default,
         udp_pcbs' \in Seq(Pcbs), changes' = changes + 1
  PROVE  ListsTyped'
BY DEF ListsTyped

LEMMA UdpBindKeeps ==
  ASSUME ListsTyped, NEW p \in Pcbs, UdpBind(p)
  PROVE  ListsTyped'
<1>1. PICK s, q : s = udp_pcbs /\ q = <<p>> \o s /\ s \in Seq(Pcbs)
  BY DEF ListsTyped
<1>2. /\ udp_pcbs' = q /\ netif_list' = netif_list /\ netif_default' = netif_default
      /\ changes' = changes + 1
  BY <1>1 DEF UdpBind, StackChanges
<1>3. q \in Seq(Pcbs)
  BY <1>1, InFront
<1>4. QED
  BY <1>2, <1>3, UdpListKept

LEMMA UdpRemoveKeeps ==
  ASSUME ListsTyped, NEW k \in DOMAIN udp_pcbs, UdpRemove(k)
  PROVE  ListsTyped'
<1>1. PICK s, q : s = udp_pcbs /\ q = RemoveAt(s, k) /\ s \in Seq(Pcbs)
  BY DEF ListsTyped
<1>2. /\ udp_pcbs' = q /\ netif_list' = netif_list /\ netif_default' = netif_default
      /\ changes' = changes + 1
  BY <1>1 DEF UdpRemove, StackChanges
<1>3. k \in 1 .. Len(s)
  BY <1>1
<1>4. q \in Seq(Pcbs)
  BY <1>1, <1>3, WithoutElement
<1>5. QED
  BY <1>2, <1>4, UdpListKept

\* Whatever happens to the lists, the walk keeps to the rows that are still there, what was
\* found counts as late and the last answer is forgotten.
LEMMA StackKeeps ==
  ASSUME TablesIInv, ListsTyped', StackChanges
  PROVE  TablesIInv'
<1>1. /\ ListsTyped /\ WalkTyped /\ WalkKept /\ HeldKept
      /\ changes' = changes + 1 /\ changes \in Nat /\ answer' = NoAnswer /\ held' = held
  BY DEF TablesIInv, StackChanges, ListsTyped
<1>2. PICK t : t = walk.table /\ walk' = [walk EXCEPT !.stable = walk.stable \cap RowOids(t)']
  BY DEF StackChanges
<1>3. /\ walk'.table = t /\ walk'.start = walk.start /\ walk'.at = walk.at
      /\ walk'.seen = walk.seen /\ walk'.ended = walk.ended
      /\ walk'.stable = walk.stable \cap RowOids(t)'
      /\ walk' = [table |-> walk'.table, start |-> walk'.start, at |-> walk'.at,
                  seen |-> walk'.seen, ended |-> walk'.ended, stable |-> walk'.stable]
  BY <1>1, <1>2 DEF WalkTyped
<1>4. WalkTyped'
  BY <1>1, <1>2, <1>3 DEF WalkTyped
<1>5. WalkKept'
  <2>1. walk'.stable \subseteq RowOids(walk.table)'
    BY <1>3
  <2>2. RowWithoutColumn(walk.at)' <=> RowWithoutColumn(walk.at)
    BY <1>2, <1>3 DEF RowWithoutColumn
  <2>3. QED
    BY <1>1, <1>3, <2>1, <2>2 DEF WalkKept
<1>6. HeldKept'
  <2> SUFFICES ASSUME held.holds
               PROVE  HeldKept'
    BY <1>1 DEF HeldKept
  <2>1. /\ walk.table = "interfaces" /\ held.op \in {"next", "get"} /\ held.asked \in OID
        /\ held.changes \in Nat /\ held.changes <= changes /\ OfInterface(held.oid, held.row)
        /\ held.op = "get" => held.oid = held.asked
    BY <1>1 DEF HeldKept
  <2>2. held.changes <= changes + 1 /\ held.changes # changes + 1
    BY <1>1, <2>1
  <2>3. QED
    BY <1>1, <1>2, <1>3, <2>1, <2>2 DEF HeldKept, OfInterface
<1>7. AnswersMatchTable'
  <2>1. answer'.op = "none"
    BY <1>1 DEF NoAnswer
  <2>2. QED
    BY <2>1 DEF AnswersMatchTable
<1>8. StableRowsVisited'
  <2>1. RowWithoutColumn(walk.start)' <=> RowWithoutColumn(walk.start)
    BY <1>2, <1>3 DEF RowWithoutColumn
  <2>2. StableRowsVisited
    BY DEF TablesIInv
  <2>3. QED
    BY <1>2, <1>3, <2>1, <2>2 DEF StableRowsVisited
<1>9. QED
  BY <1>4, <1>5, <1>6, <1>7, <1>8 DEF TablesIInv

\* The steps of the stack.
LEMMA StackStepKeeps ==
  ASSUME TablesIInv, StackStep
  PROVE  TablesIInv'
<1>1. ListsTyped
  BY DEF TablesIInv
<1>2. ASSUME NEW n \in Netifs, NetifAdd(n)
      PROVE  TablesIInv'
  BY <1>1, <1>2, NetifAddKeeps, StackKeeps DEF NetifAdd
<1>3. ASSUME NEW k \in DOMAIN netif_list, NetifRemove(k)
      PROVE  TablesIInv'
  BY <1>1, <1>3, NetifRemoveKeeps, StackKeeps DEF NetifRemove
<1>4. ASSUME NEW n \in Netifs, NetifSetDefault(n)
      PROVE  TablesIInv'
  BY <1>1, <1>4, NetifSetDefaultKeeps, StackKeeps DEF NetifSetDefault
<1>5. ASSUME NEW k \in DOMAIN netif_list, NEW up \in BOOLEAN, NEW link \in BOOLEAN,
             NetifSetLink(k, up, link)
      PROVE  TablesIInv'
  <2>1. StackChanges
    BY <1>5 DEF NetifSetLink
  <2>2. ListsTyped'
    BY <1>1, <1>5, NetifSetLinkKeeps
  <2>3. QED
    BY <2>1, <2>2, StackKeeps
<1>6. ASSUME NEW p \in Pcbs, UdpBind(p)
      PROVE  TablesIInv'
  BY <1>1, <1>6, UdpBindKeeps, StackKeeps DEF UdpBind
<1>7. ASSUME NEW k \in DOMAIN udp_pcbs, UdpRemove(k)
      PROVE  TablesIInv'
  BY <1>1, <1>7, UdpRemoveKeeps, StackKeeps DEF UdpRemove
<1>8. QED
  BY <1>2, <1>3, <1>4, <1>5, <1>6, <1>7 DEF StackStep

\* What makes an answer one AnswersMatchTable allows.
AnswerFits(a) ==
  /\ a.op = "next" /\ ~a.late /\ ~RowWithoutColumn(a.asked) =>
       \/ a.oid = NoInstance /\ NoNext(a.asked)
       \/ IsNext(a.asked, a.oid) /\ a.value = Value(walk.table, a.oid)
  /\ a.op = "get" /\ ~a.late =>
       IF a.asked \in Instances(walk.table) /\ ~Unfit(a.asked)
       THEN a.oid = a.asked
       ELSE a.oid = NoInstance \/ Alias(a.oid)
  /\ a.oid \in Instances(walk.table) => a.value = Value(walk.table, a.oid)

\* The agent does not change what the answers are about.
LEMMA TablesAreAsBefore ==
  ASSUME stackVars' = stackVars, NEW t
  PROVE  /\ Rows(t)' = Rows(t) /\ RowOids(t)' = RowOids(t) /\ Instances(t)' = Instances(t)
         /\ \A o : Value(t, o)' = Value(t, o)
<1>1. netif_list' = netif_list /\ netif_default' = netif_default /\ udp_pcbs' = udp_pcbs
  BY DEF stackVars
<1>2. /\ InterfaceRows' = InterfaceRows /\ AddrRows' = AddrRows /\ UdpRows' = UdpRows
      /\ EndpointRows' = EndpointRows
  BY <1>1 DEF InterfaceRows, AddrRows, UdpRows, EndpointRows
<1>3. RouteRows' = RouteRows
  BY <1>1 DEF RouteRows, DefaultRow, NetworkRows
<1>4. Rows(t)' = Rows(t)
  BY <1>2, <1>3 DEF Rows
<1>5. RowOids(t)' = RowOids(t)
  BY <1>4 DEF RowOids
<1>6. Instances(t)' = Instances(t)
  BY <1>5 DEF Instances
<1>7. \A o : Value(t, o)' = Value(t, o)
  BY <1>4 DEF Value
<1>8. QED
  BY <1>4, <1>5, <1>6, <1>7

\* An answer is one AnswersMatchTable allows if it fits the table it is about.
LEMMA AnswerAllowed ==
  ASSUME stackVars' = stackVars, walk'.table = walk.table, AnswerFits(answer')
  PROVE  AnswersMatchTable'
<1>1. PICK t : t = walk.table
  OBVIOUS
<1>2. PICK I : I = Instances(t)
  OBVIOUS
<1>3. Instances(walk.table)' = I
  BY <1>1, <1>2, TablesAreAsBefore
<1>4. \A o : Value(walk.table, o)' = Value(t, o)
  BY <1>1, TablesAreAsBefore
<1>5. /\ RowWithoutColumn(answer.asked)' <=> RowWithoutColumn(answer'.asked)
      /\ Unfit(answer.asked)' <=> Unfit(answer'.asked)
      /\ Alias(answer.oid)' <=> Alias(answer'.oid)
  <2>1. netif_default' = netif_default
    BY DEF stackVars
  <2>2. QED
    BY <2>1 DEF RowWithoutColumn, Unfit, Alias
<1>6. ASSUME answer'.op = "next", ~answer'.late, ~RowWithoutColumn(answer'.asked)
      PROVE  NextAnswered({i \in Instances(walk.table) : OidLess(answer.asked, i)})'
  <2>1. PICK B : B = {i \in I : OidLess(answer'.asked, i)}
    OBVIOUS
  <2>2. CASE answer'.oid = NoInstance /\ NoNext(answer'.asked)
    <3>1. B = {}
      BY <1>1, <1>2, <2>1, <2>2 DEF NoNext
    <3>2. QED
      BY <1>3, <2>1, <2>2, <3>1 DEF NextAnswered
  <2>3. CASE IsNext(answer'.asked, answer'.oid) /\ answer'.value = Value(t, answer'.oid)
    <3>1. answer'.oid \in B /\ \A i \in B : OidAtMost(answer'.oid, i)
      BY <1>1, <1>2, <2>1, <2>3 DEF IsNext
    <3>2. B # {}
      BY <3>1
    <3>3. QED
      BY <1>3, <1>4, <2>1, <2>3, <3>1, <3>2 DEF NextAnswered
  <2>4. QED
    BY <1>1, <1>6, <2>2, <2>3 DEF AnswerFits
<1>7. QED
  BY <1>1, <1>2, <1>3, <1>4, <1>5, <1>6 DEF AnswerFits, AnswersMatchTable

\* A sequence with an element at its end.
LEMMA AtEnd ==
  ASSUME NEW A, NEW s \in Seq(A), NEW x \in A, NEW q, q = Append(s, x)
  PROVE  /\ q \in Seq(A) /\ Len(q) = Len(s) + 1 /\ q[Len(s) + 1] = x
         /\ \A j \in 1 .. Len(s) : q[j] = s[j]
OBVIOUS

\* Its elements.
LEMMA ElementsAtEnd ==
  ASSUME NEW s, NEW q, NEW x, NEW n \in Nat, DOMAIN s = 1 .. n, DOMAIN q = 1 .. n + 1,
         q[n + 1] = x, \A j \in 1 .. n : q[j] = s[j]
  PROVE  ToSet(q) = ToSet(s) \cup {x}
<1>1. ToSet(q) = {q[i] : i \in 1 .. n + 1} /\ ToSet(s) = {s[i] : i \in 1 .. n}
  BY DEF ToSet
<1>2. \A i \in 1 .. n + 1 : i = n + 1 \/ i \in 1 .. n
  OBVIOUS
<1>3. n + 1 \in 1 .. n + 1 /\ \A i \in 1 .. n : i \in 1 .. n + 1
  OBVIOUS
<1>4. QED
  BY <1>1, <1>2, <1>3

\* Of two OIDs that are not behind each other.
LEMMA AtMostBoth ==
  ASSUME NEW s \in OID, NEW t \in OID, OidAtMost(s, t), OidAtMost(t, s)
  PROVE  s = t
BY LessAsymmetric DEF OidAtMost

\* The rows a walk is to come by are rows of the table, and each of its columns of them is
\* an instance.
LEMMA StableInstances ==
  ASSUME ListsTyped, NEW table \in Tables, NEW r \in RowOids(table), NEW c \in Columns(table)
  PROVE  Instance(c, r) \in Instances(table) /\ Instance(c, r) \in OID
<1>1. Instance(c, r) \in Instances(table)
  BY DEF Instances
<1>2. QED
  BY <1>1, InstanceShape

\* The next instance joins those answered.
LEMMA FoundKeepsWalk ==
  ASSUME TablesIInv, NEW o, NEW row, OfTable(o, row), ~RowWithoutColumn(walk.at) => IsNext(walk.at, o),
         ~walk.ended, stackVars' = stackVars,
         walk' = [walk EXCEPT !.at = o, !.seen = Append(walk.seen, o), !.stable = Stable]
  PROVE  WalkTyped' /\ WalkKept' /\ StableRowsVisited'
<1>1. ListsTyped /\ WalkTyped /\ WalkKept /\ StableRowsVisited /\ walk.table \in Tables
  BY DEF TablesIInv, WalkTyped
<1>2. PICK table \in Tables : table = walk.table
  BY <1>1
<1>3. o \in Instances(table) /\ o \in OID /\ ~RowWithoutColumn(o)
  BY <1>1, <1>2, OfTableFacts
<1>4. PICK seen, w : seen = walk.seen /\ w = Append(seen, o) /\ seen \in Seq(OID)
  BY <1>1 DEF WalkTyped
<1>5. PICK n \in Nat : n = Len(seen)
  BY <1>4
<1>6. /\ w \in Seq(OID) /\ Len(w) = n + 1 /\ w[n + 1] = o
      /\ (\A j \in 1 .. n : w[j] = seen[j]) /\ ToSet(w) = ToSet(seen) \cup {o}
  <2>1. w = Append(seen, o) /\ seen \in Seq(OID) /\ o \in OID
    BY <1>3, <1>4
  <2>2. w \in Seq(OID) /\ Len(w) = n + 1 /\ w[n + 1] = o
    BY <1>5, <2>1, AtEnd
  <2>3. \A j \in 1 .. n : w[j] = seen[j]
    BY <1>5, <2>1, AtEnd
  <2>4. DOMAIN seen = 1 .. n /\ DOMAIN w = 1 .. n + 1
    BY <1>5, <2>1, <2>2
  <2>5. ToSet(w) = ToSet(seen) \cup {o}
    BY <2>2, <2>3, <2>4, ElementsAtEnd
  <2>6. QED
    BY <2>2, <2>3, <2>5
<1>7. /\ walk'.table = table /\ walk'.start = walk.start /\ walk'.at = o /\ walk'.seen = w
      /\ walk'.ended = FALSE /\ walk'.stable = Stable
      /\ walk' = [table |-> walk'.table, start |-> walk'.start, at |-> walk'.at,
                  seen |-> walk'.seen, ended |-> walk'.ended, stable |-> walk'.stable]
  <2>1. walk.ended = FALSE
    OBVIOUS
  <2>2. QED
    BY <1>1, <1>2, <1>4, <2>1 DEF WalkTyped
<1>8. WalkTyped'
  BY <1>1, <1>3, <1>6, <1>7 DEF WalkTyped
<1>9. RowOids(walk.table)' = RowOids(table) /\ Stable \subseteq RowOids(table)
  <2>1. RowOids(walk.table)' = RowOids(table)
    BY <1>7, TablesAreAsBefore
  <2>2. Stable \subseteq RowOids(table)
    BY <1>1, <1>2 DEF WalkKept, Stable
  <2>3. QED
    BY <2>1, <2>2
<1>10. w # <<>>
  BY <1>5, <1>6
<1>11. WalkKept'
  <2>1. walk'.at = walk'.seen[Len(walk'.seen)]
    BY <1>6, <1>7
  <2>2. ~RowWithoutColumn(walk.at)'
    BY <1>3, <1>7, <1>2 DEF RowWithoutColumn
  <2>3. QED
    BY <1>7, <1>9, <1>10, <2>1, <2>2 DEF WalkKept
<1>12. ASSUME seen # <<>>
       PROVE  walk.at = seen[n] /\ n >= 1 /\ IsNext(walk.at, o) /\ walk.at \in OID
  BY <1>1, <1>4, <1>5, <1>12 DEF WalkKept, WalkTyped
<1>13. ASSUME NEW i \in 1 .. n
       PROVE  OidLess(w[i], w[i + 1])
  <2>1. seen # <<>>
    BY <1>4, <1>5
  <2>2. CASE i = n
    <3>1. w[i] = walk.at /\ w[i + 1] = o
      BY <1>6, <1>12, <2>1, <2>2
    <3>2. QED
      BY <1>12, <2>1, <3>1 DEF IsNext
  <2>3. CASE i # n
    <3>1. i \in 1 .. n - 1 /\ i + 1 \in 1 .. n
      BY <2>3
    <3>2. OidLess(seen[i], seen[i + 1])
      BY <1>1, <1>4, <1>5, <3>1 DEF StableRowsVisited
    <3>3. w[i] = seen[i] /\ w[i + 1] = seen[i + 1]
      BY <1>6, <3>1
    <3>4. QED
      BY <3>2, <3>3
  <2>4. QED
    BY <2>2, <2>3
<1>14. ASSUME ~RowWithoutColumn(walk.start), NEW c \in Columns(table), NEW r \in Stable,
              OidLess(walk.start, Instance(c, r)), OidAtMost(Instance(c, r), o)
       PROVE  Instance(c, r) \in ToSet(w)
  <2>1. PICK x : x = Instance(c, r)
    OBVIOUS
  <2>2. x \in Instances(table) /\ x \in OID
    BY <1>1, <1>9, <2>1, StableInstances
  <2>3. ASSUME IsNext(walk.at, o), OidLess(walk.at, x)
        PROVE  x \in ToSet(w)
    <3>1. OidAtMost(o, x)
      BY <1>2, <2>2, <2>3 DEF IsNext
    <3>2. x = o
      BY <1>3, <1>14, <2>1, <2>2, <3>1, AtMostBoth
    <3>3. QED
      BY <1>6, <3>2
  <2>4. CASE seen = <<>>
    <3>1. walk.at = walk.start
      BY <1>1, <1>4, <2>4 DEF WalkKept
    <3>2. IsNext(walk.at, o) /\ OidLess(walk.at, x)
      BY <1>14, <2>1, <3>1
    <3>3. QED
      BY <2>1, <2>3, <3>2
  <2>5. CASE seen # <<>>
    <3>1. r \in walk.stable
      BY <1>4, <1>14, <2>5 DEF Stable
    <3>2. CASE OidAtMost(x, walk.at)
      <4>1. x \in ToSet(seen)
        BY <1>1, <1>2, <1>4, <1>14, <2>1, <2>5, <3>1, <3>2 DEF StableRowsVisited
      <4>2. QED
        BY <1>6, <2>1, <4>1
    <3>3. CASE ~OidAtMost(x, walk.at)
      <4>1. OidLess(walk.at, x)
        BY <1>12, <2>2, <2>5, <3>3, LessTotal DEF OidAtMost
      <4>2. QED
        BY <1>12, <2>1, <2>3, <2>5, <4>1
    <3>4. QED
      BY <3>2, <3>3
  <2>6. QED
    BY <2>4, <2>5
<1>15. StableRowsVisited'
  <2>1. Len(w) - 1 = n
    BY <1>6
  <2>2. \A i \in 1 .. Len(w) - 1 : OidLess(w[i], w[i + 1])
    BY <1>13, <2>1
  <2>3. RowWithoutColumn(walk.start)' <=> RowWithoutColumn(walk.start)
    BY <1>2, <1>7 DEF RowWithoutColumn
  <2>4. QED
    BY <1>7, <1>14, <2>2, <2>3 DEF StableRowsVisited
<1>16. QED
  BY <1>8, <1>11, <1>15

\* The walk ends where there is no next instance.
LEMMA NotFoundKeepsWalk ==
  ASSUME TablesIInv, ~RowWithoutColumn(walk.at) => NoNext(walk.at), stackVars' = stackVars,
         walk' = [walk EXCEPT !.ended = TRUE, !.stable = Stable]
  PROVE  WalkTyped' /\ WalkKept' /\ StableRowsVisited'
<1>1. ListsTyped /\ WalkTyped /\ WalkKept /\ StableRowsVisited /\ walk.table \in Tables
  BY DEF TablesIInv, WalkTyped
<1>2. PICK table \in Tables : table = walk.table
  BY <1>1
<1>3. /\ walk'.table = table /\ walk'.start = walk.start /\ walk'.at = walk.at
      /\ walk'.seen = walk.seen /\ walk'.stable = Stable
      /\ walk' = [table |-> walk'.table, start |-> walk'.start, at |-> walk'.at,
                  seen |-> walk'.seen, ended |-> walk'.ended, stable |-> walk'.stable]
  BY <1>1, <1>2 DEF WalkTyped
<1>4. WalkTyped'
  BY <1>1, <1>3 DEF WalkTyped
<1>5. RowOids(walk.table)' = RowOids(table) /\ Stable \subseteq RowOids(table)
  <2>1. RowOids(walk.table)' = RowOids(table)
    BY <1>3, TablesAreAsBefore
  <2>2. Stable \subseteq RowOids(table)
    BY <1>1, <1>2 DEF WalkKept, Stable
  <2>3. QED
    BY <2>1, <2>2
<1>6. /\ RowWithoutColumn(walk.at)' <=> RowWithoutColumn(walk.at)
      /\ RowWithoutColumn(walk.start)' <=> RowWithoutColumn(walk.start)
  BY <1>2, <1>3 DEF RowWithoutColumn
<1>7. WalkKept'
  BY <1>1, <1>3, <1>5, <1>6 DEF WalkKept
<1>8. ASSUME ~RowWithoutColumn(walk.start), NEW c \in Columns(table), NEW r \in Stable,
             OidLess(walk.start, Instance(c, r))
      PROVE  Instance(c, r) \in ToSet(walk.seen)
  <2>1. PICK x : x = Instance(c, r)
    OBVIOUS
  <2>2. x \in Instances(table) /\ x \in OID
    BY <1>1, <1>5, <2>1, StableInstances
  <2>3. ASSUME NoNext(walk.at), OidLess(walk.at, x)
        PROVE  FALSE
    BY <1>2, <2>2, <2>3 DEF NoNext
  <2>4. CASE walk.seen = <<>>
    <3>1. walk.at = walk.start
      BY <1>1, <2>4 DEF WalkKept
    <3>2. NoNext(walk.at) /\ OidLess(walk.at, x)
      BY <1>8, <2>1, <3>1
    <3>3. QED
      BY <2>3, <3>2
  <2>5. CASE walk.seen # <<>>
    <3>1. NoNext(walk.at) /\ walk.at \in OID
      BY <1>1, <2>5 DEF WalkKept, WalkTyped
    <3>2. OidAtMost(x, walk.at)
      BY <2>2, <2>3, <3>1, LessTotal DEF OidAtMost
    <3>3. r \in walk.stable
      BY <1>8, <2>5 DEF Stable
    <3>4. QED
      BY <1>1, <1>2, <1>8, <2>1, <2>5, <3>2, <3>3 DEF StableRowsVisited
  <2>6. QED
    BY <2>4, <2>5
<1>9. StableRowsVisited'
  BY <1>1, <1>3, <1>6, <1>8 DEF StableRowsVisited
<1>10. QED
  BY <1>4, <1>7, <1>9

\* Answers of the agent keep the invariant if they fit the table.
LEMMA AnsweredKeeps ==
  ASSUME TablesIInv, ~held.holds, stackVars' = stackVars, changes' = changes,
         walk'.table = walk.table,
         NEW op \in {"next", "get"}, NEW s \in OID, NEW o, NEW row, Answered(op, s, o, row),
         AnswerFits([op |-> op, asked |-> s, oid |-> o, late |-> FALSE,
                     value |-> Cell(walk.table, row, o[2])]),
         walk.table = "interfaces" => OfTable(o, row),
         op = "next" /\ ~RowWithoutColumn(s) => IsNext(s, o),
         op = "get" => o = s
  PROVE  HeldKept' /\ AnswersMatchTable'
<1>1. PICK table \in Tables : table = walk.table
  BY DEF TablesIInv, WalkTyped
<1>2. CASE table = "interfaces"
  <2>1. /\ held' = [holds |-> TRUE, op |-> op, asked |-> s, oid |-> o, row |-> row,
                    changes |-> changes]
        /\ answer' = NoAnswer
    BY <1>1, <1>2 DEF Answered
  <2>2. /\ held'.op = op /\ held'.asked = s /\ held'.oid = o /\ held'.row = row
        /\ held'.changes = changes
    BY <2>1
  <2>3. ListsTyped /\ OfTable(o, row) /\ changes \in Nat
    BY <1>1, <1>2 DEF TablesIInv, ListsTyped
  <2>4. o \in Instances(table) /\ OfInterface(o, row)
    BY <1>1, <1>2, <2>3, OfTableFacts
  <2>5. Instances(walk.table)' = Instances(table)
    BY <1>1, TablesAreAsBefore
  <2>6. OfInterface(held.oid, held.row)'
    BY <2>2, <2>4 DEF OfInterface
  <2>7. RowWithoutColumn(held.asked)' <=> RowWithoutColumn(s)
    BY <1>1, <2>2 DEF RowWithoutColumn
  <2>8. IsNext(held.asked, held.oid)' <=> IsNext(s, o)
    BY <1>1, <2>2, <2>5 DEF IsNext
  <2>9. HeldKept'
    BY <1>1, <1>2, <2>2, <2>3, <2>4, <2>5, <2>6, <2>7, <2>8 DEF HeldKept
  <2>10. AnswersMatchTable'
    <3>1. answer'.op = "none"
      BY <2>1 DEF NoAnswer
    <3>2. QED
      BY <3>1 DEF AnswersMatchTable
  <2>11. QED
    BY <2>9, <2>10
<1>3. CASE table # "interfaces"
  <2>1. /\ answer' = [op |-> op, asked |-> s, oid |-> o, late |-> FALSE,
                      value |-> Cell(walk.table, row, o[2])]
        /\ held' = held
    BY <1>1, <1>3 DEF Answered
  <2>2. AnswerFits(answer')
    BY <2>1
  <2>3. AnswersMatchTable'
    BY <2>2, AnswerAllowed
  <2>4. HeldKept'
    BY <2>1 DEF HeldKept
  <2>5. QED
    BY <2>3, <2>4
<1>4. QED
  BY <1>2, <1>3

\* So does the answer that there is no instance.
LEMMA NotAnsweredKeeps ==
  ASSUME TablesIInv, ~held.holds, stackVars' = stackVars, walk'.table = walk.table,
         NEW op \in {"next", "get"}, NEW s \in OID, NotAnswered(op, s),
         op = "next" /\ ~RowWithoutColumn(s) => NoNext(s),
         op = "get" => ~(s \in Instances(walk.table) /\ ~Unfit(s))
  PROVE  HeldKept' /\ AnswersMatchTable'
<1>1. PICK table \in Tables : table = walk.table
  BY DEF TablesIInv, WalkTyped
<1>2. answer' = [op |-> op, asked |-> s, oid |-> NoInstance, late |-> FALSE] /\ held' = held
  BY DEF NotAnswered
<1>3. /\ answer'.op = op /\ answer'.asked = s /\ answer'.oid = NoInstance
      /\ answer'.late = FALSE
  BY <1>2
<1>4. NoInstance \notin Instances(table)
  <2>1. ListsTyped
    BY DEF TablesIInv
  <2>2. ~(Len(NoInstance) >= 3)
    BY DEF NoInstance
  <2>3. QED
    BY <2>1, <2>2, InstanceShape
<1>5. AnswerFits(answer')
  BY <1>1, <1>3, <1>4 DEF AnswerFits
<1>6. AnswersMatchTable'
  BY <1>5, AnswerAllowed
<1>7. HeldKept'
  BY <1>2 DEF HeldKept
<1>8. QED
  BY <1>6, <1>7

\* An answer that is a row of the table fits it.
LEMMA RowFits ==
  ASSUME ListsTyped, walk.table \in Tables, NEW op \in {"next", "get"}, NEW s, NEW o, NEW row,
         OfTable(o, row), op = "next" /\ ~RowWithoutColumn(s) => IsNext(s, o),
         op = "get" => o = s /\ ~Unfit(s)
  PROVE  AnswerFits([op |-> op, asked |-> s, oid |-> o, late |-> FALSE,
                     value |-> Cell(walk.table, row, o[2])])
<1>1. PICK v : v = Cell(walk.table, row, o[2])
  OBVIOUS
<1>2. v = Value(walk.table, o) /\ o \in Instances(walk.table)
  BY <1>1, OfTableFacts
<1>3. PICK a : a = [op |-> op, asked |-> s, oid |-> o, late |-> FALSE, value |-> v]
  OBVIOUS
<1>4. a.op = op /\ a.asked = s /\ a.oid = o /\ a.late = FALSE /\ a.value = v
  BY <1>3
<1>5. AnswerFits(a)
  BY <1>2, <1>4 DEF AnswerFits
<1>6. QED
  BY <1>1, <1>3, <1>5

\* snmp_get_next() on a table.
LEMMA GetNextKeeps ==
  ASSUME TablesIInv, GetNext
  PROVE  TablesIInv'
<1>1. /\ ListsTyped /\ WalkTyped /\ walk.table \in Tables /\ walk.at \in OID
      /\ ~held.holds /\ ~walk.ended /\ stackVars' = stackVars /\ changes' = changes
  BY DEF TablesIInv, WalkTyped, GetNext
<1>2. PICK instance : /\ instance = GetNextInstance(walk.table, walk.at)
                      /\ IF instance.oid = NoInstance THEN NotFound ELSE Found(instance)
  BY DEF GetNext
<1>3. \/ instance.oid = NoInstance /\ (~RowWithoutColumn(walk.at) => NoNext(walk.at))
      \/ /\ OfTable(instance.oid, instance.row)
         /\ ~RowWithoutColumn(walk.at) => IsNext(walk.at, instance.oid)
  BY <1>1, <1>2, NextInstanceIs
<1>4. ListsTyped'
  BY <1>1 DEF ListsTyped, stackVars
<1>5. CASE instance.oid = NoInstance
  <2>1. ~RowWithoutColumn(walk.at) => NoNext(walk.at)
    BY <1>1, <1>3, <1>5, OfTableFacts
  <2>2. NotAnswered("next", walk.at) /\ walk' = [walk EXCEPT !.ended = TRUE, !.stable = Stable]
    BY <1>2, <1>5 DEF NotFound
  <2>3. WalkTyped' /\ WalkKept' /\ StableRowsVisited'
    BY <1>1, <2>1, <2>2, NotFoundKeepsWalk
  <2>4. walk'.table = walk.table
    BY <1>1, <2>2 DEF WalkTyped
  <2>5. HeldKept' /\ AnswersMatchTable'
    BY <1>1, <2>1, <2>2, <2>4, NotAnsweredKeeps
  <2>6. QED
    BY <1>4, <2>3, <2>5 DEF TablesIInv
<1>6. CASE instance.oid # NoInstance
  <2>1. PICK o, row : o = instance.oid /\ row = instance.row
    OBVIOUS
  <2>2. OfTable(o, row) /\ (~RowWithoutColumn(walk.at) => IsNext(walk.at, o))
    BY <1>3, <1>6, <2>1
  <2>3. /\ Answered("next", walk.at, o, row)
        /\ walk' = [walk EXCEPT !.at = o, !.seen = Append(walk.seen, o), !.stable = Stable]
    BY <1>2, <1>6, <2>1 DEF Found
  <2>4. WalkTyped' /\ WalkKept' /\ StableRowsVisited'
    BY <1>1, <2>2, <2>3, FoundKeepsWalk, Zenon
  <2>5. walk'.table = walk.table
    BY <1>1, <2>3 DEF WalkTyped
  <2>6. AnswerFits([op |-> "next", asked |-> walk.at, oid |-> o, late |-> FALSE,
                    value |-> Cell(walk.table, row, o[2])])
    BY <1>1, <2>2, RowFits
  <2>7. HeldKept' /\ AnswersMatchTable'
    BY <1>1, <2>2, <2>3, <2>5, <2>6, AnsweredKeeps
  <2>8. QED
    BY <1>4, <2>4, <2>7 DEF TablesIInv
<1>7. QED
  BY <1>5, <1>6

\* The other steps leave the walk as it is.
LEMMA WalkAsBefore ==
  ASSUME TablesIInv, stackVars' = stackVars, changes' = changes, walk' = walk
  PROVE  ListsTyped' /\ WalkTyped' /\ WalkKept' /\ StableRowsVisited'
<1>1. ListsTyped /\ WalkTyped /\ WalkKept /\ StableRowsVisited
  BY DEF TablesIInv
<1>2. ListsTyped'
  BY <1>1 DEF ListsTyped, stackVars
<1>3. WalkTyped'
  BY <1>1 DEF WalkTyped
<1>4. PICK t : t = walk.table
  OBVIOUS
<1>5. RowOids(walk.table)' = RowOids(t)
  BY <1>4, TablesAreAsBefore
<1>6. /\ RowWithoutColumn(walk.at)' <=> RowWithoutColumn(walk.at)
      /\ RowWithoutColumn(walk.start)' <=> RowWithoutColumn(walk.start)
  BY DEF RowWithoutColumn
<1>7. WalkKept'
  BY <1>1, <1>4, <1>5, <1>6 DEF WalkKept
<1>8. StableRowsVisited'
  BY <1>1, <1>6 DEF StableRowsVisited
<1>9. QED
  BY <1>2, <1>3, <1>7, <1>8

\* snmp_get() on a table.
LEMMA GetKeeps ==
  ASSUME TablesIInv, NEW s \in OID, Get(s)
  PROVE  TablesIInv'
<1>1. /\ ListsTyped /\ walk.table \in Tables /\ ~held.holds
      /\ stackVars' = stackVars /\ changes' = changes /\ walk' = walk
  BY DEF TablesIInv, WalkTyped, Get
<1>2. ListsTyped' /\ WalkTyped' /\ WalkKept' /\ StableRowsVisited'
  BY <1>1, WalkAsBefore
<1>3. PICK found \in GetInstance(walk.table, s) :
        IF found = <<>> THEN NotAnswered("get", s) ELSE Answered("get", s, s, found[1])
  BY DEF Get
<1>4. PICK rows : rows = Rows(walk.table)
  OBVIOUS
<1>5. \/ Hit(walk.table, rows, s, found) \/ Miss(walk.table, s, found)
      \/ Aliased(walk.table, s, found)
  BY <1>1, <1>4, GetIs
<1>6. CASE found = <<>>
  <2>1. ~Aliased(walk.table, s, found)
    BY <1>6 DEF Aliased
  <2>2. ~Hit(walk.table, rows, s, found)
    BY <1>6 DEF Hit
  <2>3. ~(s \in Instances(walk.table) /\ ~Unfit(s))
    BY <1>5, <2>1, <2>2 DEF Miss
  <2>4. NotAnswered("get", s)
    BY <1>3, <1>6
  <2>5. HeldKept' /\ AnswersMatchTable'
    BY <1>1, <2>3, <2>4, NotAnsweredKeeps
  <2>6. QED
    BY <1>2, <2>5 DEF TablesIInv
<1>7. CASE found # <<>>
  <2>1. Answered("get", s, s, found[1])
    BY <1>3, <1>7
  <2>2. ~Miss(walk.table, s, found)
    BY <1>7 DEF Miss
  <2>3. ~Unfit(s)
    BY <1>1, <1>7, FoundIsFit
  <2>4. CASE Hit(walk.table, rows, s, found)
    <3>1. OfTable(s, found[1])
      <4>1. PICK c \in Columns(walk.table), i \in 1 .. Len(rows) :
              /\ Picked(walk.table, rows, i) /\ s = Instance(c, rows[i].oid) /\ found = <<rows[i]>>
        BY <2>4 DEF Hit
      <4>2. found[1] = rows[i]
        BY <4>1
      <4>3. QED
        BY <1>4, <4>1, <4>2 DEF OfTable
    <3>2. AnswerFits([op |-> "get", asked |-> s, oid |-> s, late |-> FALSE,
                      value |-> Cell(walk.table, found[1], s[2])])
      BY <1>1, <2>3, <3>1, RowFits
    <3>3. HeldKept' /\ AnswersMatchTable'
      BY <1>1, <2>1, <3>1, <3>2, AnsweredKeeps
    <3>4. QED
      BY <1>2, <3>3 DEF TablesIInv
  <2>5. CASE Aliased(walk.table, s, found)
    <3>1. Alias(s) /\ walk.table # "interfaces"
      BY <2>5 DEF Aliased, Alias
    <3>2. PICK v : v = Cell(walk.table, found[1], s[2])
      OBVIOUS
    <3>3. s \in Instances(walk.table) => v = Value(walk.table, s)
      BY <2>5, <3>2 DEF Aliased
    <3>4. PICK a : a = [op |-> "get", asked |-> s, oid |-> s, late |-> FALSE, value |-> v]
      OBVIOUS
    <3>5. AnswerFits(a)
      <4>1. a.op = "get" /\ a.asked = s /\ a.oid = s /\ a.value = v
        BY <3>4
      <4>2. QED
        BY <3>1, <3>3, <4>1 DEF AnswerFits
    <3>6. AnswerFits([op |-> "get", asked |-> s, oid |-> s, late |-> FALSE,
                      value |-> Cell(walk.table, found[1], s[2])])
      BY <3>2, <3>4, <3>5
    <3>7. HeldKept' /\ AnswersMatchTable'
      BY <1>1, <2>1, <3>1, <3>6, AnsweredKeeps
    <3>8. QED
      BY <1>2, <3>7 DEF TablesIInv
  <2>6. QED
    BY <1>5, <2>2, <2>4, <2>5
<1>8. QED
  BY <1>6, <1>7

\* Of interfacesTable, each interface has a row of its own.
LEMMA OneRowOfInterface ==
  ASSUME ListsTyped, NEW n \in Netifs, NEW c \in InterfacesColumns,
         NEW o, o = Instance(c, <<NetifToNum(n)>>), o \in Instances("interfaces")
  PROVE  \E i \in 1 .. Len(netif_list) :
           /\ netif_list[i].netif = n
           /\ \A j \in 1 .. Len(netif_list) : netif_list[j].netif = n => j = i
           /\ Value("interfaces", o) = InterfaceCell(netif_list[i], c) /\ o[2] = c
<1>1. PICK table \in Tables : table = "interfaces"
  BY DEF Tables
<1>2. PICK rows : rows = Rows(table) /\ rows = InterfaceRows
  BY <1>1 DEF Rows
<1>3. PICK k \in Nat : k = Len(netif_list) /\ Len(rows) = k
  <2>1. Len(netif_list) \in Nat
    BY ListElements
  <2>2. Len(rows) = Len(netif_list)
    BY <1>2, InterfaceRowsAre
  <2>3. QED
    BY <2>1, <2>2
<1>4. \A i \in 1 .. k : /\ netif_list[i].netif \in Netifs
                        /\ rows[i] = RowOf(<<NetifToNum(netif_list[i].netif)>>, netif_list[i], FALSE)
  BY <1>2, <1>3, InterfaceRowsAre
<1>5. \A i \in 1 .. k : rows[i].oid = <<NetifToNum(netif_list[i].netif)>> /\ rows[i].of = netif_list[i]
  <2> SUFFICES ASSUME NEW i \in 1 .. k
               PROVE  /\ rows[i].oid = <<NetifToNum(netif_list[i].netif)>>
                      /\ rows[i].of = netif_list[i]
    OBVIOUS
  <2>1. rows[i] = RowOf(<<NetifToNum(netif_list[i].netif)>>, netif_list[i], FALSE)
    BY <1>4
  <2>2. QED
    BY <2>1 DEF RowOf
<1>6. PICK d \in Columns(table), i \in 1 .. k : RowIn(table, rows, i) /\ o = Instance(d, rows[i].oid)
  BY <1>1, <1>2, <1>3, InstancesAre
<1>7. PICK q, r \in OID : q = <<NetifToNum(n)>> /\ r = rows[i].oid
  <2>1. <<NetifToNum(n)>> \in OID
    BY NetifFacts, OneArc
  <2>2. rows[i].oid \in OID
    BY <1>2, <1>3, RowOidsAre
  <2>3. QED
    BY <2>1, <2>2
<1>8. c \in Nat /\ d \in Nat
  BY <1>1, ColumnsAre DEF InterfacesColumns
<1>9. o[2] = c /\ q = r /\ d = c
  <2>1. o = Instance(c, q) /\ o = Instance(d, r)
    BY <1>6, <1>7
  <2>2. o[2] = c /\ SubSeq(o, 3, Len(o)) = q
    BY <1>7, <1>8, <2>1, InstanceParts
  <2>3. PICK p : p = Instance(d, r) /\ p = o
    BY <2>1
  <2>4. p[2] = d /\ SubSeq(p, 3, Len(p)) = r
    <3>1. IsCell(p, d, r)
      BY <1>7, <1>8, <2>3, CellOid, Zenon DEF Instance
    <3>2. p[2] = d
      BY <3>1 DEF IsCell
    <3>3. SubSeq(p, 3, Len(p)) = r
      BY <1>7, <3>1, RowOfCell
    <3>4. QED
      BY <3>2, <3>3
  <2>5. QED
    BY <2>2, <2>3, <2>4
<1>10. netif_list[i].netif = n
  <2>1. <<NetifToNum(n)>> = <<NetifToNum(netif_list[i].netif)>>
    BY <1>5, <1>7, <1>9
  <2>2. NetifToNum(n) = NetifToNum(netif_list[i].netif)
    BY <2>1
  <2>3. QED
    BY <1>4, <2>2, NumbersDiffer
<1>11. ASSUME NEW j \in 1 .. k, netif_list[j].netif = n
       PROVE  j = i
  BY <1>3, <1>10, <1>11 DEF ListsTyped
<1>12. ASSUME NEW j, RowIn(table, rows, j), rows[j].oid = rows[i].oid
       PROVE  i <= j
  <2>1. j \in 1 .. k
    BY <1>3, <1>12 DEF RowIn
  <2>2. <<NetifToNum(netif_list[j].netif)>> = <<NetifToNum(netif_list[i].netif)>>
    BY <1>5, <1>12, <2>1
  <2>3. NetifToNum(netif_list[j].netif) = NetifToNum(netif_list[i].netif)
    BY <2>2
  <2>4. netif_list[j].netif = netif_list[i].netif
    BY <1>4, <2>1, <2>3, NumbersDiffer
  <2>5. QED
    BY <1>10, <1>11, <2>1, <2>4
<1>13. Picked(table, rows, i)
  BY <1>6, <1>12 DEF Picked
<1>14. Value(table, o) = Cell(table, rows[i], d)
  <2>1. Value(table, Instance(d, rows[i].oid)) = Cell(table, rows[i], d)
    BY <1>2, <1>13, ValueIs
  <2>2. QED
    BY <1>6, <2>1
<1>15. Cell(table, rows[i], d) = InterfaceCell(netif_list[i], c)
  BY <1>1, <1>5, <1>9 DEF Cell
<1>16. QED
  BY <1>1, <1>3, <1>9, <1>10, <1>11, <1>14, <1>15

\* interfaces_Table_get_value(): what is read is the value of the row, if there is one.
LEMMA ValueReadIs ==
  ASSUME TablesIInv, held.holds, NEW v \in ValuesRead(held.oid[2]),
         held.oid \in Instances(walk.table)
  PROVE  v = Value(walk.table, held.oid)
<1>1. /\ ListsTyped /\ walk.table = "interfaces" /\ OfInterface(held.oid, held.row)
  BY DEF TablesIInv, HeldKept
<1>2. PICK o : o = held.oid
  OBVIOUS
<1>3. PICK c \in InterfacesColumns, n \in Netifs :
        o = Instance(c, <<NetifToNum(n)>>) /\ held.row.of.netif = n
  BY <1>1, <1>2 DEF OfInterface
<1>4. PICK i \in 1 .. Len(netif_list) :
        /\ netif_list[i].netif = n
        /\ \A j \in 1 .. Len(netif_list) : netif_list[j].netif = n => j = i
        /\ Value("interfaces", o) = InterfaceCell(netif_list[i], c) /\ o[2] = c
  BY <1>1, <1>2, <1>3, OneRowOfInterface
<1>5. PICK now : now = {x \in ToSet(netif_list) : x.netif = n}
  OBVIOUS
<1>6. ToSet(netif_list) = {netif_list[j] : j \in 1 .. Len(netif_list)}
  <2>1. DOMAIN netif_list = 1 .. Len(netif_list)
    BY <1>1, ListElements
  <2>2. QED
    BY <2>1 DEF ToSet
<1>7. now = {netif_list[i]}
  BY <1>4, <1>5, <1>6
<1>8. ValuesRead(c) = {InterfaceCell(x, c) : x \in now}
  <2>1. now # {}
    BY <1>7
  <2>2. QED
    BY <1>3, <1>5, <2>1 DEF ValuesRead
<1>9. v \in {InterfaceCell(x, c) : x \in now}
  BY <1>2, <1>4, <1>8
<1>10. v = InterfaceCell(netif_list[i], c)
  BY <1>7, <1>9
<1>11. QED
  BY <1>1, <1>2, <1>4, <1>10

\* The value is read, late or not.
LEMMA ReadValueKeeps ==
  ASSUME TablesIInv, ReadValue
  PROVE  TablesIInv'
<1>1. /\ held.holds /\ held' = NotHeld
      /\ stackVars' = stackVars /\ changes' = changes /\ walk' = walk
  BY DEF ReadValue
<1>2. PICK v \in ValuesRead(held.oid[2]) :
        answer' = [op |-> held.op, asked |-> held.asked, oid |-> held.oid,
                   late |-> held.changes # changes, value |-> v]
  BY DEF ReadValue
<1>3. /\ answer'.op = held.op /\ answer'.asked = held.asked /\ answer'.oid = held.oid
      /\ (answer'.late <=> held.changes # changes) /\ answer'.value = v
  BY <1>2
<1>4. held.oid \in Instances(walk.table) => v = Value(walk.table, held.oid)
  BY <1>1, ValueReadIs
<1>5. /\ walk.table = "interfaces" /\ held.op \in {"next", "get"}
      /\ held.changes = changes => held.oid \in Instances(walk.table)
      /\ held.changes = changes /\ held.op = "next" /\ ~RowWithoutColumn(held.asked) =>
           IsNext(held.asked, held.oid)
      /\ held.op = "get" => held.oid = held.asked
  BY <1>1 DEF TablesIInv, HeldKept
<1>6. ~Unfit(held.asked)
  BY <1>5 DEF Unfit
<1>7. AnswerFits(answer')
  BY <1>3, <1>4, <1>5, <1>6 DEF AnswerFits
<1>8. AnswersMatchTable'
  BY <1>1, <1>7, AnswerAllowed
<1>9. HeldKept'
  BY <1>1 DEF HeldKept, NotHeld
<1>10. QED
  BY <1>1, <1>8, <1>9, WalkAsBefore DEF TablesIInv

\* In the beginning there are no interfaces and no control blocks.
LEMMA TablesInitially == TablesInit => TablesIInv
<1> SUFFICES ASSUME TablesInit
             PROVE  TablesIInv
  OBVIOUS
<1>1. /\ netif_list = <<>> /\ netif_default = NoNetif /\ udp_pcbs = <<>> /\ changes = 0
      /\ held = NotHeld /\ answer = NoAnswer
  BY DEF TablesInit
<1>2. PICK s \in WalkStarts :
        walk = [table |-> s[1], start |-> s[2], at |-> s[2], seen |-> <<>>, ended |-> FALSE,
                stable |-> {}]
  BY DEF TablesInit
<1>3. s[1] \in Tables /\ s[2] \in OID
  BY AskedAssumption DEF AskedAssumption, OID
<1>4. /\ walk.table = s[1] /\ walk.start = s[2] /\ walk.at = s[2] /\ walk.seen = <<>>
      /\ walk.ended = FALSE /\ walk.stable = {}
      /\ walk = [table |-> walk.table, start |-> walk.start, at |-> walk.at, seen |-> walk.seen,
                 ended |-> walk.ended, stable |-> walk.stable]
  BY <1>2
<1>5. ListsTyped
  BY <1>1 DEF ListsTyped
<1>6. WalkTyped
  BY <1>3, <1>4 DEF WalkTyped
<1>7. WalkKept
  BY <1>4 DEF WalkKept
<1>8. HeldKept
  BY <1>1 DEF HeldKept, NotHeld
<1>9. AnswersMatchTable
  BY <1>1 DEF AnswersMatchTable, NoAnswer
<1>10. StableRowsVisited
  BY <1>4 DEF StableRowsVisited
<1>11. QED
  BY <1>5, <1>6, <1>7, <1>8, <1>9, <1>10 DEF TablesIInv

\* Steps of the other parts leave the tables as they are.
LEMMA TablesUnchanged ==
  ASSUME TablesIInv, tableVars' = tableVars
  PROVE  TablesIInv'
<1>1. /\ stackVars' = stackVars /\ changes' = changes /\ walk' = walk /\ held' = held
      /\ answer' = answer
  BY DEF tableVars
<1>2. PICK t : t = walk.table
  OBVIOUS
<1>3. Instances(walk.table)' = Instances(t)
  BY <1>1, <1>2, TablesAreAsBefore
<1>4. \A o : Value(walk.table, o)' = Value(t, o)
  BY <1>1, <1>2, TablesAreAsBefore
<1>5. ListsTyped' /\ WalkTyped' /\ WalkKept' /\ StableRowsVisited'
  BY <1>1, WalkAsBefore
<1>6. HeldKept'
  <2>1. RowWithoutColumn(held.asked)' <=> RowWithoutColumn(held.asked)
    BY <1>1 DEF RowWithoutColumn
  <2>2. OfInterface(held.oid, held.row)' <=> OfInterface(held.oid, held.row)
    BY <1>1 DEF OfInterface
  <2>3. IsNext(held.asked, held.oid)' <=> IsNext(held.asked, held.oid)
    BY <1>1, <1>2, <1>3 DEF IsNext
  <2>4. HeldKept
    BY DEF TablesIInv
  <2>5. QED
    BY <1>1, <1>2, <1>3, <2>1, <2>2, <2>3, <2>4 DEF HeldKept
<1>7. AnswersMatchTable'
  <2>1. /\ RowWithoutColumn(answer.asked)' <=> RowWithoutColumn(answer.asked)
        /\ Unfit(answer.asked)' <=> Unfit(answer.asked)
        /\ Alias(answer.oid)' <=> Alias(answer.oid)
    <3>1. netif_default' = netif_default
      BY <1>1 DEF stackVars
    <3>2. QED
      BY <1>1, <3>1 DEF RowWithoutColumn, Unfit, Alias
  <2>2. NextAnswered({i \in Instances(walk.table) : OidLess(answer.asked, i)})' <=>
          NextAnswered({i \in Instances(walk.table) : OidLess(answer.asked, i)})
    BY <1>1, <1>2, <1>3, <1>4 DEF NextAnswered
  <2>3. AnswersMatchTable
    BY DEF TablesIInv
  <2>4. QED
    BY <1>1, <1>2, <1>3, <1>4, <2>1, <2>2, <2>3 DEF AnswersMatchTable
<1>8. QED
  BY <1>5, <1>6, <1>7 DEF TablesIInv

\* Every step of NodeAccess is one of these or leaves the tables as they are.
LEMMA TablesInductive == TablesIInv /\ [Next]_vars => TablesIInv'
<1> SUFFICES ASSUME TablesIInv, [Next]_vars
             PROVE  TablesIInv'
  OBVIOUS
<1>1. CASE UNCHANGED tableVars
  BY <1>1, TablesUnchanged
<1>2. CASE StackStep
  BY <1>2, StackStepKeeps
<1>3. CASE TablesStep
  <2>1. ASSUME NEW s \in Asked, Get(s)
        PROVE  TablesIInv'
    <3>1. walk.seen \in Seq(OID)
      BY DEF TablesIInv, WalkTyped
    <3>2. ToSet(walk.seen) \subseteq OID
      BY <3>1 DEF ToSet
    <3>3. \A q \in Probes : q[2] \in OID
      BY AskedAssumption DEF AskedAssumption, OID
    <3>4. s \in OID
      BY <3>2, <3>3 DEF Asked
    <3>5. QED
      BY <2>1, <3>4, GetKeeps
  <2>2. QED
    BY <1>3, <2>1, GetNextKeeps, ReadValueKeeps DEF TablesStep
<1>4. QED
  BY <1>1, <1>2, <1>3 DEF Next, vars

\* Whatever interfaces and control blocks there are, in whatever order they are in their
\* lists, GETNEXT on a table of MIB-2 returns the least instance behind any OID that does not
\* name a row without a column, GET finds the instances GETNEXT returns, both with the value
\* of the same row, and a value read after a change is the one the row has
\* (snmp_next_oid_check(), snmp_table_simple_get_next_instance(),
\* snmp_table_get_next_instance() and the get_cell functions of the tables).
THEOREM AnswersAreTheTables == Spec => []AnswersMatchTable
<1>1. Init => TablesIInv
  BY TablesInitially DEF Init
<1>2. TablesIInv => AnswersMatchTable
  BY DEF TablesIInv
<1>3. QED
  BY <1>1, <1>2, TablesInductive, PTL DEF Spec

\* However many interfaces and control blocks come and go during it, a walk through a table
\* goes on, and comes by every row that was there from its beginning to its end in every
\* column (snmp_next_oid_check(), snmp_table_simple_get_next_instance()).
THEOREM StableRowsAreVisited == Spec => []StableRowsVisited
<1>1. Init => TablesIInv
  BY TablesInitially DEF Init
<1>2. TablesIInv => StableRowsVisited
  BY DEF TablesIInv
<1>3. QED
  BY <1>1, <1>2, TablesInductive, PTL DEF Spec
=============================================================================
