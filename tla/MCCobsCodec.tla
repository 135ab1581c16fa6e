---------------------------- MODULE MCCobsCodec ----------------------------
(* All packets and all byte strings of at most MaxLen bytes.               *)
EXTENDS CobsCodec

CONSTANT MaxLen

MCPackets == UNION {[1 .. n -> Byte] : n \in 0 .. MaxLen}
=============================================================================
