----------------------------- MODULE CobsCodec -----------------------------
(***************************************************************************)
(* One packet through both ends of the line: encoded by one side, cut at   *)
(* the terminator by the other (HardwareInterface::readPacket, or the byte *)
(* loop of the programmer), decoded, and freed of the trailing zero.       *)
(***************************************************************************)
EXTENDS CobsEncoder, CobsDecoder

VARIABLES
    received,   \* the receiver has read up to a zero
    garbled     \* what it has read is not what was sent

codecVars == <<encVars, decVars, received, garbled>>

(* Strip is data.pop_back() in readPacket and bytes-- in loop: one decoded *)
(* byte less.                                                              *)
Strip(s) == SubSeq(s, 1, Len(s) - 1)

CodecInit ==
    /\ Init
    /\ frame = <<>> /\ decoded = <<>> /\ pos = 0 /\ blk = 0 /\ cnt = 0 /\ pc = "head"
    /\ received = FALSE /\ garbled = FALSE

Encode ==
    /\ EncodeStep
    /\ UNCHANGED <<decVars, received, garbled>>

(* The receiver stores the bytes it reads up to the first zero.            *)
Receive ==
    /\ done /\ ~received
    /\ \E k \in 1 .. Len(outdata) :
        /\ outdata[k] = 0
        /\ \A j \in 1 .. k - 1 : outdata[j] # 0
        /\ frame' = SubSeq(outdata, 1, k - 1)
    /\ received' = TRUE
    /\ UNCHANGED <<encVars, decoded, pos, blk, cnt, pc, garbled>>

(* Noise, or a packet cut in two: anything may arrive.  What was sent does *)
(* not matter then, so that one packet is enough.                          *)
ReceiveGarbled ==
    /\ ~received /\ indata = <<>>
    /\ frame' \in Frames
    /\ received' = TRUE /\ garbled' = TRUE
    /\ UNCHANGED <<encVars, decoded, pos, blk, cnt, pc>>

Decode ==
    /\ received
    /\ DecodeStep
    /\ UNCHANGED <<encVars, received, garbled>>

CodecNext == Encode \/ Receive \/ ReceiveGarbled \/ Decode

CodecSpec == CodecInit /\ [][CodecNext]_codecVars

-----------------------------------------------------------------------------
(* A packet comes out as it went in: once the frame is decoded, dropping   *)
(* the last byte leaves the packet, full blocks and zeros included.        *)
RoundTrip ==
    received /\ ~garbled /\ DecodeDone => decoded # <<>> /\ Strip(decoded) = indata

=============================================================================
