-------------------------------- MODULE Cobs --------------------------------
(* The bytes of the encoder and the decoder of the serial line.            *)
EXTENDS Integers, Sequences

CONSTANT MaxCode    \* the code of a full block, 0xFF in the source

Byte == 0 .. MaxCode

ASSUME MaxCodeAssumption == MaxCode \in Nat /\ MaxCode >= 2
=============================================================================
