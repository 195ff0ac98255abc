-------------------------- MODULE MCPacketBuffers --------------------------
(***************************************************************************)
(* Small heaps of pbufs and streams over two chains, for model checking    *)
(* Pbuf and PbufStream.                                                    *)
(***************************************************************************)
EXTENDS PbufStream
CONSTANTS a1, a2, a3
SomeData == {<<0>>}
SomeExternal == {<<0>>}
SomeStreamData == {<<1>>, <<2, 1>>}
SomeShapes == {<<1>>, <<2, 1>>}
Symmetry == Permutations(Addresses)
=============================================================================
