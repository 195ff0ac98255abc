---------------------------- MODULE ByteStream ----------------------------
(***************************************************************************)
(* What src/snmp_pbuf_stream.c promises its users: a stream is a position  *)
(* in a sequence of bytes and a number of bytes left behind it, whose end  *)
(* no operation moves.                                                     *)
(***************************************************************************)
EXTENDS Integers, Sequences

CONSTANTS Streams, Bytes, NoByte

VARIABLES
  open,   \* the streams have been opened
  data,   \* data[s]: the bytes stream s is over
  at,     \* at[s]: how many of them are before its position
  left,   \* left[s]: how many may be read or written from there
  whole,  \* whole[s]: nothing stands in the way of copying from s
  byte    \* the byte the last operation has read

vars == <<open, data, at, left, whole, byte>>

Init ==
  /\ open = FALSE
  /\ data = [s \in Streams |-> <<>>]
  /\ at = [s \in Streams |-> 0] /\ left = at
  /\ whole \in [Streams -> BOOLEAN]
  /\ byte = NoByte

\* The streams are opened once, anywhere in any bytes; nothing else moves one
\* freely, or changes its bytes.
Open ==
  /\ ~open /\ open'
  /\ data' \in [Streams -> Seq(Bytes)]
  /\ \A s \in Streams : at'[s] \in Nat /\ left'[s] \in 0 .. Len(data'[s]) - at'[s]
  /\ byte' = NoByte

\* Stream s has passed n bytes; n may be negative.
Passed(s, n) ==
  /\ at' = [at EXCEPT ![s] = @ + n]
  /\ left' = [left EXCEPT ![s] = @ - n]

Put(s, bytes) ==
  data' = [data EXCEPT ![s] =
    [i \in DOMAIN @ |-> IF i - at[s] \in DOMAIN bytes THEN bytes[i - at[s]] ELSE @[i]]]

Read(s) ==
  /\ left[s] > 0
  /\ Passed(s, 1)
  /\ byte' = data[s][at[s] + 1]
  /\ UNCHANGED data

Write(s, bytes) ==
  /\ Len(bytes) <= left[s]
  /\ Put(s, bytes)
  /\ Passed(s, Len(bytes))
  /\ byte' = NoByte

\* n bytes of s are put into t.
Copy(s, t, n) ==
  /\ n \in 0 .. left[s] /\ n <= left[t]
  /\ \E bytes \in [1 .. n -> Bytes] :
       /\ whole[s] => bytes = SubSeq(data[s], at[s] + 1, at[s] + n)
       /\ Put(t, bytes)
  /\ at' = [at EXCEPT ![s] = @ + n, ![t] = @ + n]
  /\ left' = [left EXCEPT ![s] = @ - n, ![t] = @ - n]
  /\ byte' = NoByte

Seek(s, n) ==
  /\ at[s] + n >= 0 /\ n <= left[s]
  /\ Passed(s, n)
  /\ byte' = NoByte
  /\ UNCHANGED data

Fail == UNCHANGED <<data, at, left>> /\ byte' = NoByte

Next ==
  \/ Open
  \/ /\ open /\ open'
     /\ \/ Fail
        \/ \E s \in Streams :
             \/ Read(s)
             \/ \E n \in 0 .. left[s] : \E bytes \in [1 .. n -> Bytes] : Write(s, bytes)
             \/ \E t \in Streams \ {s}, n \in 0 .. left[s] : Copy(s, t, n)
             \/ \E n \in -at[s] .. left[s] : Seek(s, n)

Spec == Init /\ [][Next]_vars
=============================================================================
