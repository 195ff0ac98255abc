------------------------------ MODULE Textual ------------------------------
(***************************************************************************)
(* The textual conventions BITS and TruthValue (src/snmp_core.c), which    *)
(* nodes convert in their get, test and set methods.  A BITS value is the  *)
(* set of the bits that are set; an octet string is the sequence of its    *)
(* bits, the first bit of an octet being the one of weight 128.            *)
(***************************************************************************)
EXTENDS Integers, Sequences, FiniteSetsExt

CONSTANTS
  OctetBits,    \* 8 in the code
  ValueBits,    \* 32, of the u32_t a value is kept in
  CounterSize   \* 256, of the u8_t bits are counted in

ASSUME TextualAssumption ==
  /\ OctetBits \in Nat \ {0}
  /\ ValueBits % OctetBits = 0
  /\ CounterSize % ValueBits = 0

Least(a, b) == IF a < b THEN a ELSE b
OctetsFor(n) == (n + OctetBits - 1) \div OctetBits

\* snmp_encode_bits(): the octets up to the last bit set, then zeros up to
\* bit_count, as far as the buffer has room.
EncodeBits(buf_len, bits, bit_count) ==
  LET needed == IF bits = {} THEN 0 ELSE OctetsFor(Max(bits) + 1)
      len == Least(buf_len, IF needed > OctetsFor(bit_count) THEN needed
                            ELSE OctetsFor(bit_count))
  IN  [i \in 1 .. len * OctetBits |-> i - 1 \in bits]

\* snmp_decode_bits(): octets of zeros are skipped, the counter of the bits
\* wraps, and another octet is refused behind ValueBits bits.
Octet(string, k) == {i \in (k - 1) * OctetBits .. k * OctetBits - 1 : string[i + 1]}
DecodeBits(string) ==
  LET octets == 1 .. Len(string) \div OctetBits
      position(k) == ((k - 1) * OctetBits) % CounterSize
      refused == \E k \in octets : Octet(string, k) # {} /\ position(k) >= ValueBits
  IN  [err |-> IF refused THEN "ERR_VAL" ELSE "ERR_OK",
       bits |-> UNION {{i % CounterSize : i \in Octet(string, k)} : k \in octets}]

\* snmp_encode_truthvalue() and snmp_decode_truthvalue()
EncodeTruthValue(b) == IF b THEN 1 ELSE 2
DecodeTruthValue(v) ==
  IF v \in {1, 2} THEN [err |-> "ERR_OK", value |-> v = 1]
  ELSE [err |-> "ERR_VAL", value |-> FALSE]
=============================================================================
