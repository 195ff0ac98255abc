-------------------------- MODULE MCPacketHandoff --------------------------
(* PacketHandoff for TLC: the cfg files give the constants their values.   *)
EXTENDS PacketHandoff
=============================================================================
