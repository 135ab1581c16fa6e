---------------------------- MODULE CobsDecoder ----------------------------
(***************************************************************************)
(* The COBS decoder, again present twice: COBS::decode in src/cobs.cpp     *)
(* (host) and UnStuffData in swdinterface.ino (programmer).  Its input is  *)
(* a frame without the terminating zero.  The decoder trusts its input: it *)
(* has no error path, so it is modelled on any byte string at all.         *)
(***************************************************************************)
EXTENDS Cobs

CONSTANT Frames     \* the byte strings that may be handed to the decoder

ASSUME FramesAssumption == Frames \subseteq Seq(Byte)

VARIABLES
    frame,      \* the frame being decoded
    decoded,    \* the bytes written so far
    pos,        \* bytes of frame consumed
    blk,        \* the code byte of the current block
    cnt,        \* the loop counter i of the copy loop
    pc          \* "head": top of the outer loop; "copy": in the copy loop

decVars == <<frame, decoded, pos, blk, cnt, pc>>

DecodeInit ==
    /\ frame \in Frames
    /\ decoded = <<>>
    /\ pos = 0
    /\ blk = 0
    /\ cnt = 0
    /\ pc = "head"

-----------------------------------------------------------------------------
MoreToCopy == pos < Len(frame) /\ cnt < blk

ReadCode ==
    /\ pc = "head"
    /\ pos < Len(frame)
    /\ blk' = frame[pos + 1]
    /\ pos' = pos + 1
    /\ cnt' = 1
    /\ pc' = "copy"
    /\ UNCHANGED <<frame, decoded>>

(* Faulty: the index stays where it is.                                    *)
CopyByteAgain ==
    /\ pc = "copy"
    /\ MoreToCopy
    /\ decoded' = Append(decoded, frame[pos + 1])
    /\ cnt' = cnt + 1
    /\ UNCHANGED <<frame, pos, blk, pc>>

CopyByte ==
    /\ pc = "copy"
    /\ MoreToCopy
    /\ decoded' = Append(decoded, frame[pos + 1])
    /\ pos' = pos + 1
    /\ cnt' = cnt + 1
    /\ UNCHANGED <<frame, blk, pc>>

(* Faulty: no zero after the last block.                                   *)
EndBlockBare ==
    /\ pc = "copy"
    /\ ~MoreToCopy
    /\ decoded' = IF blk < MaxCode /\ pos < Len(frame) THEN Append(decoded, 0) ELSE decoded
    /\ pc' = "head"
    /\ UNCHANGED <<frame, pos, blk, cnt>>

(* Faulty: a full block stands for a zero, too.                            *)
EndBlockAlways ==
    /\ pc = "copy"
    /\ ~MoreToCopy
    /\ decoded' = Append(decoded, 0)
    /\ pc' = "head"
    /\ UNCHANGED <<frame, pos, blk, cnt>>

(* A block that is not full stands for its bytes and a zero.  The block    *)
(* ends when its count is reached or when the frame runs out.              *)
EndBlock ==
    /\ pc = "copy"
    /\ ~MoreToCopy
    /\ decoded' = IF blk < MaxCode THEN Append(decoded, 0) ELSE decoded
    /\ pc' = "head"
    /\ UNCHANGED <<frame, pos, blk, cnt>>

DecodeStep == ReadCode \/ CopyByte \/ EndBlock

DecodeDone == pc = "head" /\ pos = Len(frame)

DecodeSpec == DecodeInit /\ [][DecodeStep]_decVars

-----------------------------------------------------------------------------
DecodeTypeOK ==
    /\ frame \in Frames
    /\ decoded \in Seq(Byte)
    /\ pos \in 0 .. Len(frame)
    /\ blk \in Byte
    /\ cnt \in 0 .. MaxCode
    /\ pc \in {"head", "copy"}

(* Whatever arrives on the line, well formed or not, the decoder never     *)
(* writes more bytes than it has read, so the programmer's decodebuffer,   *)
(* declared with the size of g_rxbuffer, is large enough.                  *)
DecodedFits == Len(decoded) <= pos

(* The caller strips the last decoded byte, which must be the zero the     *)
(* decoder adds, not data.  It is one whenever the frame has fewer bytes   *)
(* than a full block, which holds for everything that fits g_rxbuffer,     *)
(* unless a full-block code was received.                                  *)
StripsOnlyPadding ==
    DecodeDone /\ Len(frame) > 0 /\ (\A k \in 1 .. Len(frame) : frame[k] < MaxCode)
        => Len(decoded) = Len(frame) /\ decoded[Len(decoded)] = 0

=============================================================================
