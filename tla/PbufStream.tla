---------------------------- MODULE PbufStream ----------------------------
(***************************************************************************)
(* The streams of src/snmp_pbuf_stream.c over chains of pbufs, as the agent*)
(* uses them: one for the request, one for the response.  While they are   *)
(* open nothing changes the lengths of the pbufs.                          *)
(***************************************************************************)
EXTENDS Pbuf

CONSTANTS
  Streams,     \* the streams
  StreamData,  \* what is written to them, sequences of bytes
  NoByte,
  Shapes,      \* bound: the lengths of the pbufs of the chains they are opened on,
  MaxHidden    \* bound: the bytes hidden before their payload

ASSUME StreamsAssumption == Streams # {}
ASSUME StreamDataAssumption == \A bytes \in StreamData : bytes \in Seq(ToSet(bytes))

VARIABLES
  streams,  \* the struct of each stream that is open
  byte      \* the byte snmp_pbuf_stream_read() has delivered

vars == <<pbufVars, streams, byte>>

Closed == streams = <<>>

LengthsOf(p) == LET c == Chain(pbufs, p) IN [i \in DOMAIN c |-> pbufs[c[i]].len]
Total(p) == Len(Content(pbufs, p))

StreamInit == Init /\ streams = <<>> /\ byte = NoByte

\* snmp_pbuf_stream_init() of each stream, over a part of a chain of its own.
Open ==
  /\ Closed
  /\ \E over \in Injection(Streams, {p \in DOMAIN pbufs : Held(p) /\ Exclusive(p)}) :
       /\ \A s \in Streams : LengthsOf(over[s]) \in Shapes
       /\ \A p \in DOMAIN pbufs :
            /\ pbufs[p].ref = 1 /\ pbufs[p].payload <= MaxHidden
            /\ \E s \in Streams : p \in ToSet(Chain(pbufs, over[s]))
       /\ \E offset \in [Streams -> 0 .. Width], length \in [Streams -> 0 .. Width] :
            /\ \A s \in Streams : offset[s] + length[s] <= Total(over[s])
            /\ streams' = [s \in Streams |->
                 [pbuf |-> over[s], offset |-> offset[s], length |-> length[s]]]
  /\ UNCHANGED <<pbufVars, byte>>

-----------------------------------------------------------------------------
(* The operations on a stream S over a heap H: error, heap, stream.        *)

Result(err, H, S) == [err |-> err, H |-> H, S |-> S]
Advanced(S, n) == [S EXCEPT !.offset = (@ + n) % Width, !.length = (@ - n) % Width]

\* snmp_pbuf_stream_writebuf(); snmp_pbuf_stream_write() is the case of one byte.
WriteBuf(H, S, bytes) ==
  LET taken == TakeAt(H, S.pbuf, bytes, S.offset)
  IN  IF S.length < Len(bytes) \/ taken.err # "OK" THEN Result("BUF", H, S)
      ELSE Result("OK", taken.H, Advanced(S, Len(bytes)))

\* The memory behind a byte of the payload, the end of the pbuf notwithstanding.
MemoryAt(H, p, offset, n) ==
  [i \in 1 .. n |-> LET j == H[p].payload + offset + i
                    IN  IF j \in DOMAIN H[p].mem THEN H[p].mem[j] ELSE 0]

\* The loop of snmp_pbuf_stream_writeto(): it takes MIN(len, pbuf->len) bytes,
\* wherever in the pbuf it starts.
Moved(st, n, put) ==
  IF put.err # "OK" THEN [st EXCEPT !.err = put.err]
  ELSE [st EXCEPT !.H = put.H, !.T = put.S, !.S = Advanced(@, n), !.len = @ - n]
WriteToTurn(st) ==
  LET at == Skip(st.H, st.S.pbuf, st.S.offset)
      n == Smaller(st.len, st.H[at.q].len)
  IN  IF at.q = NULL THEN [st EXCEPT !.err = "BUF"]
      ELSE Moved(st, n, WriteBuf(st.H, st.T, MemoryAt(st.H, at.q, at.offset, n)))

\* snmp_pbuf_stream_writeto(); 0 stands for as much as there is.
WriteTo(H, S, T, len) ==
  LET all == IF len = 0 THEN Smaller(S.length, T.length) ELSE len
      start == [err |-> "OK", H |-> H, S |-> S, T |-> T, len |-> all]
      after[i \in 0 .. all] ==
        IF i = 0 THEN start
        ELSE IF after[i - 1].len = 0 \/ after[i - 1].err # "OK" THEN after[i - 1]
        ELSE WriteToTurn(after[i - 1])
  IN  IF len > S.length \/ len > T.length
      THEN [err |-> "ARG", H |-> H, S |-> S, T |-> T, len |-> len]
      ELSE after[all]

\* snmp_pbuf_stream_seek()
\* (Mutated: what is left stays as it was.)
SeekKeepingLength(S, n) ==
  IF S.offset + n < 0 \/ n > S.length THEN S ELSE [S EXCEPT !.offset = @ + n]
Seek(S, n) == IF S.offset + n < 0 \/ n > S.length THEN S ELSE Advanced(S, n)

\* snmp_pbuf_stream_seek_abs()
SeekAbs(S, offset) == Seek(S, offset - S.offset)

-----------------------------------------------------------------------------
(* The calls.                                                              *)

\* snmp_pbuf_stream_read()
StreamRead(s) ==
  LET S == streams[s]
      got == CopyPartial(pbufs, S.pbuf, 1, S.offset)
      fails == S.length = 0 \/ got = <<>>
  IN  /\ streams' = IF fails THEN streams ELSE [streams EXCEPT ![s] = Advanced(@, 1)]
      /\ byte' = IF fails THEN NoByte ELSE got[1]
      /\ UNCHANGED pbufVars

StreamWrite(s, bytes) ==
  LET put == WriteBuf(pbufs, streams[s], bytes)
  IN  /\ pbufs' = put.H
      /\ streams' = [streams EXCEPT ![s] = put.S]
      /\ byte' = NoByte
      /\ UNCHANGED held

StreamWriteTo(s, t, len) ==
  \E put \in {WriteTo(pbufs, streams[s], streams[t], len)} :
    /\ pbufs' = put.H
    /\ streams' = [streams EXCEPT ![s] = put.S, ![t] = put.T]
    /\ byte' = NoByte
    /\ UNCHANGED held

StreamSeek(s, n) ==
  /\ streams' = [streams EXCEPT ![s] = Seek(@, n)]
  /\ byte' = NoByte
  /\ UNCHANGED pbufVars

StreamSeekAbs(s, offset) ==
  /\ streams' = [streams EXCEPT ![s] = SeekAbs(@, offset)]
  /\ byte' = NoByte
  /\ UNCHANGED pbufVars

StreamNext ==
  \/ Closed /\ Next /\ UNCHANGED <<streams, byte>>
  \/ Open
  \/ \E s \in DOMAIN streams :
       \/ StreamRead(s)
       \/ \E bytes \in StreamData : StreamWrite(s, bytes)
       \/ \E t \in DOMAIN streams \ {s}, len \in 0 .. MaxLen : StreamWriteTo(s, t, len)
       \/ \E n \in -MaxLen .. MaxLen : StreamSeek(s, n)
       \/ \E offset \in 0 .. MaxLen : StreamSeekAbs(s, offset)

StreamSpec == StreamInit /\ [][StreamNext]_vars

-----------------------------------------------------------------------------
(* Properties.                                                             *)

\* Wherever the pbufs of a chain end, and whatever lengths header operations have
\* left them, empty ones included: the functions of pbuf.c that read, search,
\* write and copy payload work on the chain as on the one sequence of bytes it
\* holds.  Streams leave the chains of the heap they are opened over as they are.
DataIsFlat == Closed => HeapIsFlat(Labelled)

IsOpen(s) == s \in DOMAIN streams

\* Copying is exact from the start of a pbuf, and within one.
CopiesExactly(s) ==
  LET S == streams[s]
      first == Skip(pbufs, S.pbuf, S.offset)
      last == Skip(pbufs, S.pbuf, S.offset + S.length - 1)
  IN  S.length = 0 \/ first.offset = 0 \/ first.q = last.q

\* What memory may hold; 0 stands for what nobody has written.
Bytes == {0} \cup UNION {ToSet(d) : d \in StreamData \cup Data \cup External}

Abstract == INSTANCE ByteStream WITH
  open  <- ~Closed,
  data  <- [s \in Streams |-> IF IsOpen(s) THEN Content(pbufs, streams[s].pbuf) ELSE <<>>],
  at    <- [s \in Streams |-> IF IsOpen(s) THEN streams[s].offset ELSE 0],
  left  <- [s \in Streams |-> IF IsOpen(s) THEN streams[s].length ELSE 0],
  whole <- [s \in Streams |-> IsOpen(s) => CopiesExactly(s)]

\* A stream over a chain of pbufs is a stream over one sequence of bytes, across
\* the ends of its pbufs and in any order of calls: it reads what was written,
\* never beyond its end; writing, copying and seeking do all they are asked or,
\* failing, nothing, and touch no byte but those they are for.  The exception is
\* copying from the middle of a pbuf beyond its end, where the chunk is not what
\* is left of the pbuf; the agent's requests lie in one pbuf.
ImplementsByteStream == Abstract!Spec
=============================================================================
