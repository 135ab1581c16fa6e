---------------------------- MODULE CobsEncoder ----------------------------
(***************************************************************************)
(* The COBS encoder that turns a packet into a frame for the serial line.  *)
(* The same loop exists twice: COBS::encode in src/cobs.cpp (host) and     *)
(* StuffData in swdinterface.ino (programmer).  One step of this machine   *)
(* is one turn of that loop; the last step writes the terminator.          *)
(*                                                                         *)
(* C indices are 0-based; idx keeps that value (the bytes consumed so      *)
(* far), while code_idx is the 1-based position in outdata of the code     *)
(* byte still to be filled in.                                             *)
(***************************************************************************)
EXTENDS Cobs

CONSTANT Packets    \* the packets that may be handed to the encoder

ASSUME PacketsAssumption == Packets \subseteq Seq(Byte)

VARIABLES
    indata,     \* the packet being encoded
    outdata,    \* the frame built so far
    idx,        \* bytes of indata consumed
    code_idx,   \* where the code byte of the open block goes
    code,       \* 1 + number of data bytes in the open block
    done        \* the terminator has been written

encVars == <<indata, outdata, idx, code_idx, code, done>>

Init ==
    /\ indata \in Packets
    /\ outdata = <<0>>
    /\ idx = 0
    /\ code_idx = 1
    /\ code = 1
    /\ done = FALSE

-----------------------------------------------------------------------------
(* FinishBlock: store the code c of the open block in s and open a new     *)
(* block, whose code byte is a 0 "replaced later", at the end.             *)
FinishBlock(s, c) == Append([s EXCEPT ![code_idx] = c], 0)

EncodeZero ==
    /\ ~done
    /\ idx < Len(indata)
    /\ indata[idx + 1] = 0
    /\ outdata' = FinishBlock(outdata, code)
    /\ code_idx' = Len(outdata) + 1
    /\ code' = 1
    /\ idx' = idx + 1
    /\ UNCHANGED <<indata, done>>

(* Faulty: the test for zero is missing.                                   *)
EncodeByteAny ==
    /\ ~done
    /\ idx < Len(indata)
    /\ code + 1 # MaxCode
    /\ outdata' = Append(outdata, indata[idx + 1])
    /\ code' = code + 1
    /\ idx' = idx + 1
    /\ UNCHANGED <<indata, code_idx, done>>

EncodeByte ==
    /\ ~done
    /\ idx < Len(indata)
    /\ indata[idx + 1] # 0
    /\ code + 1 # MaxCode
    /\ outdata' = Append(outdata, indata[idx + 1])
    /\ code' = code + 1
    /\ idx' = idx + 1
    /\ UNCHANGED <<indata, code_idx, done>>

(* Faulty: a block is closed one byte early.                               *)
EncodeFullBlockEarly ==
    /\ ~done
    /\ idx < Len(indata)
    /\ indata[idx + 1] # 0
    /\ code + 1 >= MaxCode - 1
    /\ outdata' = FinishBlock(Append(outdata, indata[idx + 1]), code + 1)
    /\ code_idx' = Len(outdata) + 2
    /\ code' = 1
    /\ idx' = idx + 1
    /\ UNCHANGED <<indata, done>>

EncodeFullBlock ==
    /\ ~done
    /\ idx < Len(indata)
    /\ indata[idx + 1] # 0
    /\ code + 1 = MaxCode
    /\ outdata' = FinishBlock(Append(outdata, indata[idx + 1]), code + 1)
    /\ code_idx' = Len(outdata) + 2
    /\ code' = 1
    /\ idx' = idx + 1
    /\ UNCHANGED <<indata, done>>

(* The loop is over: the last code byte and the zero that ends the frame.  *)
EncodeEnd ==
    /\ ~done
    /\ idx = Len(indata)
    /\ outdata' = FinishBlock(outdata, code)
    /\ done' = TRUE
    /\ UNCHANGED <<indata, idx, code_idx, code>>

EncodeStep == EncodeZero \/ EncodeByte \/ EncodeFullBlock \/ EncodeEnd

Spec == Init /\ [][EncodeStep]_encVars

-----------------------------------------------------------------------------
TypeOK ==
    /\ indata \in Packets
    /\ outdata \in Seq(Byte)
    /\ idx \in 0 .. Len(indata)
    /\ code_idx \in 1 .. Len(outdata)
    /\ code \in 1 .. MaxCode - 1
    /\ done \in BOOLEAN

(* The zero byte delimits frames: a finished frame has a zero as its last  *)
(* byte and nowhere else, whatever the packet contains.  The receivers     *)
(* (readPacket, loop) cut the byte stream at the first zero they see.      *)
FrameDelimited ==
    done => \A k \in 1 .. Len(outdata) : (outdata[k] = 0) <=> (k = Len(outdata))

(* The encoder never writes more than one byte per packet byte, plus one   *)
(* code byte per full block, plus the first code byte and the terminator.  *)
(* For packets shorter than a full block this is Len(indata) + 2, which is *)
(* what sendReply reserves: encodebuffer[sizeof(g_txbuffer)+2].            *)
FrameBound ==
    /\ (MaxCode - 1) * (Len(outdata) - 2 - Len(indata)) <= Len(indata)
    /\ Len(indata) < MaxCode - 1 => Len(outdata) <= Len(indata) + 2

=============================================================================
