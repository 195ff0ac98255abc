------------------------------- MODULE Asn1 -------------------------------
(***************************************************************************)
(* The encoder and decoder of src/snmp_asn1.c, operators on sequences of   *)
(* bytes: what snmp_pbuf_stream.c makes of chains of pbufs (PbufStream).   *)
(*                                                                         *)
(* A writer W is a stream that is written to: what is in it, the room left *)
(* and the first error; nothing is written after an error, as every caller *)
(* returns.  A decoder takes the bytes left in a stream and returns an     *)
(* error, a value and the rest.                                            *)
(***************************************************************************)
EXTENDS Integers, Sequences, SequencesExt, FiniteSetsExt

CONSTANTS
  Base,      \* a byte is below it; 2^8 in the code
  WordBytes  \* the bytes of an s32_t and a u32_t

ASSUME Asn1Assumption == Base \in {2^n : n \in 2 .. 8} /\ WordBytes \in Nat \ {0}

INTEGER == 2
OCTET_STRING == 4
NULL_TYPE == 5
OBJECT_ID == 6
SEQUENCE == 48
IPADDR == 64
COUNTER == 65
GAUGE == 66
TIMETICKS == 67
OPAQUE == 68
COUNTER64 == 70
ExtendedType(type) == type % 32 = 31

High == Base \div 2           \* the high bit of a byte
Half(n) == Base^n \div 2      \* the first number with the sign bit of n bytes
Word == Base^WordBytes

-----------------------------------------------------------------------------
(* Writing to a stream.                                                    *)

Writer(room) == [err |-> "OK", out |-> <<>>, room |-> room]
Fail(W, err) == IF W.err = "OK" THEN [W EXCEPT !.err = err] ELSE W

\* snmp_asn1_enc_raw(); PBUF_OP_EXEC makes each error of the stream ERR_BUF.
EncRaw(W, bytes) ==
  IF W.err # "OK" THEN W
  ELSE IF Len(bytes) > W.room THEN Fail(W, "BUF")
  ELSE [W EXCEPT !.out = @ \o bytes, !.room = @ - Len(bytes)]

\* The n lowest bytes of v, in two's complement.
Octets(v, n) == [i \in 1 .. n |-> (v \div Base^(n - i)) % Base]

\* snmp_asn1_enc_u32t_cnt()
U32Cnt(v) == Min({k \in 1 .. WordBytes : v < Half(k)} \cup {WordBytes + 1})

\* snmp_asn1_enc_s32t_cnt()
S32Cnt(v) ==
  LET magnitude == IF v < 0 THEN -v - 1 ELSE v
  IN  Min({k \in 1 .. WordBytes : magnitude < Half(k)} \cup {WordBytes})

\* snmp_asn1_enc_u64t_cnt(); v is the pair of the high and the low word.
U64Cnt(v) == IF v[1] = 0 THEN U32Cnt(v[2]) ELSE U32Cnt(v[1]) + WordBytes

\* snmp_asn1_enc_length_cnt()
LengthCnt(n) == IF n < High THEN 1 ELSE IF n < Base THEN 2 ELSE 3

\* snmp_asn1_enc_oid_cnt(): groups of one bit less than a byte.
OidCnt(oid) ==
  LET groups(id) == Min({k \in 1 .. WordBytes + 1 : id < High^k} \cup {WordBytes + 1})
  IN  IF Len(oid) > 1 THEN 1 + FoldSeq(LAMBDA id, n : n + groups(id), 0, SubSeq(oid, 3, Len(oid)))
      ELSE FoldSeq(LAMBDA id, n : n + groups(id), 0, oid)

\* snmp_ans1_enc_tlv(); length_len forces the bytes of the length, 0 does not.
EncTlv(W, type, length_len, value_len) ==
  LET n == IF length_len > 0 THEN length_len ELSE LengthCnt(value_len)
      leading == [i \in 1 .. n - 2 |-> IF i = n - 2 THEN value_len \div Base ELSE 0]
      length == IF n = 1 THEN <<value_len % Base>>
                ELSE <<High + n - 1>> \o leading \o <<value_len % Base>>
  IN  IF ExtendedType(type) \/ n < LengthCnt(value_len) THEN Fail(W, "ARG")
      ELSE EncRaw(W, <<type>> \o length)

\* snmp_asn1_enc_u32t()
EncU32(W, n, v) == IF n > WordBytes + 1 THEN Fail(W, "ARG") ELSE EncRaw(W, Octets(v, n))

\* snmp_asn1_enc_s32t()
EncS32(W, n, v) == EncRaw(W, Octets(v, n))

\* snmp_asn1_enc_u64t()
EncU64(W, n, v) ==
  LET octets == <<0>> \o Octets(v[1], WordBytes) \o Octets(v[2], WordBytes)
  IN  IF n > Len(octets) THEN Fail(W, "ARG")
      ELSE EncRaw(W, SubSeq(octets, Len(octets) - n + 1, Len(octets)))


\* The loop of snmp_asn1_enc_oid() over the groups of one sub-identifier: the
\* leading ones that are zero are left out, the last one has no continuation bit.
SubIdOctets(id) ==
  LET group(shift) == (id \div High^shift) % High
      used == {shift \in 1 .. WordBytes : \E t \in shift .. WordBytes : group(t) # 0}
      n == Cardinality(used)
  IN  [i \in 1 .. n + 1 |-> group(n + 1 - i) + IF i <= n THEN High ELSE 0]

\* snmp_asn1_enc_oid()
EncOid(W, oid) ==
  IF Len(oid) < 2 THEN Fail(W, "ARG")
  ELSE EncRaw(W, <<(oid[1] * 40 + oid[2]) % Base>> \o
         FlattenSeq([i \in 1 .. Len(oid) - 2 |-> SubIdOctets(oid[i + 2])]))

-----------------------------------------------------------------------------
(* Reading from a stream.                                                  *)

Rest(in, n) == SubSeq(in, n + 1, Len(in))
Unsigned(octets) == FoldLeft(LAMBDA v, b : v * Base + b, 0, octets)

Decoded(value, rest) == [err |-> "OK", value |-> value, rest |-> rest]
DecError(err) == [err |-> err, value |-> 0, rest |-> <<>>]

\* snmp_asn1_dec_tlv(): the value is the type, the length of the header and that
\* of the value.  Leading zeros of the length are accepted, 0xFFFF is not.
DecTlv(in) ==
  LET n == in[2] - High
      significant == SubSeq(in, 3, n + 2)
      zeros == Max({k \in 0 .. n : \A i \in 1 .. k : significant[i] = 0})
      tlv(hdr, len) == Decoded([type |-> in[1], hdr |-> hdr, len |-> len], Rest(in, hdr))
  IN  IF in = <<>> THEN DecError("BUF")
      ELSE IF ExtendedType(in[1]) THEN DecError("VAL")
      ELSE IF Len(in) = 1 THEN DecError("BUF")
      ELSE IF n < 0 THEN tlv(2, in[2])
      ELSE IF n = 0 \/ n > Len(in) - 2 \/ n - zeros > 2 THEN DecError("VAL")
      ELSE IF Unsigned(significant) = Base^2 - 1 THEN DecError("VAL")
      ELSE tlv(2 + n, Unsigned(significant))

\* snmp_asn1_dec_u32t()
DecU32(in, len) ==
  IF len \notin 1 .. WordBytes + 1 THEN DecError("VAL")
  ELSE IF in = <<>> THEN DecError("BUF")
  ELSE IF in[1] >= (IF len = WordBytes + 1 THEN 1 ELSE High) THEN DecError("VAL")
  ELSE IF len > Len(in) THEN DecError("BUF")
  ELSE Decoded(Unsigned(SubSeq(in, 1, len)), Rest(in, len))

\* snmp_asn1_dec_s32t()
DecS32(in, len) ==
  IF len \notin 1 .. WordBytes THEN DecError("VAL")
  ELSE IF len > Len(in) THEN DecError("BUF")
  ELSE Decoded(FoldLeft(LAMBDA v, b : v * Base + b, IF in[1] >= High THEN -1 ELSE 0,
                        SubSeq(in, 1, len)), Rest(in, len))

\* snmp_asn1_dec_u64t()
DecU64(in, len) ==
  LET words == [i \in 1 .. 2 * WordBytes |->
                 IF i > 2 * WordBytes - len THEN in[i - 2 * WordBytes + len] ELSE 0]
  IN  IF len \notin 1 .. 2 * WordBytes + 1 THEN DecError("VAL")
      ELSE IF in = <<>> THEN DecError("BUF")
      ELSE IF in[1] >= (IF len = 2 * WordBytes + 1 THEN 1 ELSE High) THEN DecError("VAL")
      ELSE IF len > Len(in) THEN DecError("BUF")
      ELSE Decoded(<<Unsigned(SubSeq(words, 1, WordBytes)),
                     Unsigned(SubSeq(words, WordBytes + 1, 2 * WordBytes))>>, Rest(in, len))

\* snmp_asn1_dec_oid(): an empty one is accepted.  The sub-identifiers that end
\* within the first len bytes are those whose last byte has no continuation bit.
\* The callers have compared len with what is left in the stream.
DecOid(in, len, oid_max_len) ==
  LET ends == {i \in 2 .. len : in[i] < High}
      end(k) == IF k = 0 THEN 1
                ELSE CHOOSE e \in ends : Cardinality({i \in ends : i <= e}) = k
      first == Min({in[1] \div 40, 2})
      subId(k) == FoldLeft(LAMBDA v, b : (v * High + (b % High)) % Word, 0,
                           SubSeq(in, end(k - 1) + 1, end(k)))
  IN  IF len = 0 THEN Decoded(<<>>, in)
      ELSE IF oid_max_len < 2 THEN DecError("MEM")
      ELSE IF len > Len(in) THEN DecError("BUF")
      ELSE IF Cardinality(ends) > oid_max_len - 2 THEN DecError("MEM")
      ELSE IF len > 1 /\ len \notin ends
           THEN DecError(IF Cardinality(ends) = oid_max_len - 2 THEN "MEM" ELSE "VAL")
      ELSE Decoded(<<first, in[1] - 40 * first>> \o [k \in 1 .. Cardinality(ends) |-> subId(k)], Rest(in, len))

\* snmp_asn1_dec_raw()
DecRaw(in, len, buf_max_len) ==
  IF len > buf_max_len THEN DecError("MEM")
  ELSE IF len > Len(in) THEN DecError("BUF")
  ELSE Decoded(SubSeq(in, 1, len), Rest(in, len))
=============================================================================
