----------------------------- MODULE CobsProofs -----------------------------
(***************************************************************************)
(* What the encoder guarantees for every packet, the decoder for every     *)
(* byte string, and the two of them together, for every block size.        *)
(***************************************************************************)
EXTENDS CobsCodec, SequenceTheorems, TLAPS

-----------------------------------------------------------------------------
(* The encoder.                                                            *)

(* Before the end, the frame has one zero: the code byte not yet known.    *)
OpenBlock ==
    ~done =>
        /\ outdata[code_idx] = 0
        /\ \A k \in 1 .. Len(outdata) : k # code_idx => outdata[k] # 0

(* Every byte the frame is longer than the packet was paid for by a full   *)
(* block; the open block has code - 1 bytes that pay for the next one.     *)
Excess == Len(outdata) - 1 - idx - (IF done THEN 1 ELSE 0)
Paid == (MaxCode - 1) * Excess + (code - 1) <= idx

EncInv ==
    /\ TypeOK
    /\ OpenBlock
    /\ FrameDelimited
    /\ done => idx = Len(indata)
    /\ Excess \in Nat
    /\ Paid

-----------------------------------------------------------------------------
(* FinishBlock fills in one code byte and adds a zero.                     *)
LEMMA FinishBlockSeq ==
    ASSUME NEW s \in Seq(Byte), code_idx \in 1 .. Len(s), NEW c \in Byte,
           MaxCode \in Nat
    PROVE  /\ FinishBlock(s, c) \in Seq(Byte)
           /\ Len(FinishBlock(s, c)) = Len(s) + 1
           /\ FinishBlock(s, c)[code_idx] = c
           /\ FinishBlock(s, c)[Len(s) + 1] = 0
           /\ \A k \in 1 .. Len(s) : k # code_idx => FinishBlock(s, c)[k] = s[k]
  <1> DEFINE t == [s EXCEPT ![code_idx] = c]
  <1>1. t \in Seq(Byte) /\ Len(t) = Len(s)
    OBVIOUS
  <1>2. t[code_idx] = c /\ \A k \in 1 .. Len(s) : k # code_idx => t[k] = s[k]
    OBVIOUS
  <1>3. 0 \in Byte
    BY DEF Byte
  <1> HIDE DEF t
  <1>4. /\ Append(t, 0) \in Seq(Byte) /\ Len(Append(t, 0)) = Len(t) + 1
        /\ Append(t, 0)[Len(t) + 1] = 0
        /\ \A k \in 1 .. Len(t) : Append(t, 0)[k] = t[k]
    BY <1>1, <1>3
  <1> QED
    BY <1>1, <1>2, <1>4 DEF FinishBlock, t

(* Closing a block keeps the frame free of zeros but for the last byte.    *)
LEMMA FinishBlockZeros ==
    ASSUME NEW s \in Seq(Byte), code_idx \in 1 .. Len(s), NEW c \in Byte, c # 0,
           MaxCode \in Nat,
           \A k \in 1 .. Len(s) : k # code_idx => s[k] # 0
    PROVE  \A k \in 1 .. Len(FinishBlock(s, c)) :
               (FinishBlock(s, c)[k] = 0) <=> (k = Len(FinishBlock(s, c)))
  <1> DEFINE t == FinishBlock(s, c)
  <1>1. /\ Len(t) = Len(s) + 1 /\ t[code_idx] = c /\ t[Len(s) + 1] = 0
        /\ \A k \in 1 .. Len(s) : k # code_idx => t[k] = s[k]
    BY FinishBlockSeq
  <1>2. Len(s) \in Nat
    OBVIOUS
  <1> HIDE DEF t
  <1> QED
    BY <1>1, <1>2 DEF t

(* A data byte appended to the open block.                                 *)
LEMMA AppendByte ==
    ASSUME NEW s \in Seq(Byte), NEW b \in Byte, b # 0, code_idx \in 1 .. Len(s),
           s[code_idx] = 0,
           \A k \in 1 .. Len(s) : k # code_idx => s[k] # 0
    PROVE  /\ Append(s, b) \in Seq(Byte) /\ Len(Append(s, b)) = Len(s) + 1
           /\ code_idx \in 1 .. Len(Append(s, b))
           /\ Append(s, b)[code_idx] = 0
           /\ \A k \in 1 .. Len(Append(s, b)) : k # code_idx => Append(s, b)[k] # 0
  OBVIOUS

-----------------------------------------------------------------------------
(* The encoder starts with one open block and no data.                     *)
LEMMA EncInit == Init => EncInv
  <1> SUFFICES ASSUME Init PROVE EncInv
    OBVIOUS
  <1> USE MaxCodeAssumption, PacketsAssumption
  <1>1. indata \in Seq(Byte) /\ Len(indata) \in Nat
    BY DEF Init
  <1>2. outdata \in Seq(Byte) /\ Len(outdata) = 1 /\ outdata[1] = 0
    BY DEF Init, Byte
  <1>3. TypeOK
    <2>1. indata \in Packets /\ idx = 0 /\ code_idx = 1 /\ code = 1 /\ done = FALSE
      BY DEF Init
    <2>2. idx \in 0 .. Len(indata) /\ code_idx \in 1 .. Len(outdata) /\ code \in 1 .. MaxCode - 1
      BY <1>1, <1>2, <2>1
    <2>3. done \in BOOLEAN
      BY <2>1
    <2> QED
      BY <1>2, <2>1, <2>2, <2>3 DEF TypeOK
  <1>4. OpenBlock /\ FrameDelimited
    BY <1>2 DEF Init, OpenBlock, FrameDelimited
  <1>5. Excess = 0
    BY <1>2 DEF Init, Excess
  <1>6. Paid
    BY <1>5 DEF Init, Paid
  <1> QED
    BY <1>3, <1>4, <1>5, <1>6 DEF EncInv, Init

(* A turn of the loop of COBS::encode keeps the open code byte the only    *)
(* zero, and the overhead at one byte per full block.                      *)
LEMMA EncStep == EncInv /\ [EncodeStep]_encVars => EncInv'
  <1> SUFFICES ASSUME EncInv, [EncodeStep]_encVars PROVE EncInv'
    OBVIOUS
  <1> USE MaxCodeAssumption, PacketsAssumption
  <1> DEFINE M == MaxCode - 1
  <1>t. /\ indata \in Packets /\ indata \in Seq(Byte) /\ outdata \in Seq(Byte)
        /\ idx \in 0 .. Len(indata) /\ code_idx \in 1 .. Len(outdata)
        /\ code \in 1 .. MaxCode - 1 /\ code \in Byte /\ code # 0 /\ done \in BOOLEAN
    BY DEF EncInv, TypeOK, Byte
  <1>1. CASE EncodeZero
    <2>1. OpenBlock' /\ FrameDelimited'
      <3>1. ~done /\ ~done' /\ code_idx' = Len(outdata) + 1 /\ outdata' = FinishBlock(outdata, code)
        BY <1>1 DEF EncodeZero
      <3>2. \A k \in 1 .. Len(outdata) : k # code_idx => outdata[k] # 0
        BY <3>1 DEF EncInv, OpenBlock
      <3>3. \A k \in 1 .. Len(outdata') : (outdata'[k] = 0) <=> (k = Len(outdata'))
        BY <1>t, <3>1, <3>2, FinishBlockZeros
      <3>4. Len(outdata') = Len(outdata) + 1 /\ Len(outdata) \in Nat
        BY <1>t, <3>1, FinishBlockSeq
      <3> QED
        BY <3>1, <3>3, <3>4 DEF OpenBlock, FrameDelimited
    <2>2. TypeOK'
      BY <1>1, <1>t, FinishBlockSeq DEF EncodeZero, TypeOK
    <2>3. Excess' = Excess
      BY <1>1, <1>t, FinishBlockSeq DEF EncodeZero, Excess
    <2>4. Paid'
      <3>1. M * Excess \in Int
        BY DEF EncInv
      <3> QED
        BY <1>1, <1>t, <2>3, <3>1 DEF EncInv, EncodeZero, Paid
    <2> QED
      BY <1>1, <2>1, <2>2, <2>3, <2>4 DEF EncInv, EncodeZero
  <1>2. CASE EncodeByte
    <2> DEFINE b == indata[idx + 1]
    <2>0. b \in Byte /\ b # 0
      BY <1>2, <1>t DEF EncodeByte
    <2>1. OpenBlock' /\ FrameDelimited'
      BY <1>2, <1>t, <2>0, AppendByte DEF EncInv, EncodeByte, OpenBlock, FrameDelimited
    <2>2. TypeOK'
      BY <1>2, <1>t, <2>0 DEF EncodeByte, TypeOK
    <2>3. Excess' = Excess
      BY <1>2, <1>t, <2>0 DEF EncodeByte, Excess
    <2>4. Paid'
      <3>1. M * Excess \in Int
        BY DEF EncInv
      <3> QED
        BY <1>2, <1>t, <2>3, <3>1 DEF EncInv, EncodeByte, Paid
    <2> QED
      BY <1>2, <2>1, <2>2, <2>3, <2>4 DEF EncInv, EncodeByte
  <1>3. CASE EncodeFullBlock
    <2> DEFINE b == indata[idx + 1]
               s == Append(outdata, b)
    <2>0. b \in Byte /\ b # 0 /\ code + 1 \in Byte /\ code + 1 # 0
      BY <1>3, <1>t DEF EncodeFullBlock, Byte
    <2>1. /\ s \in Seq(Byte) /\ Len(s) = Len(outdata) + 1 /\ code_idx \in 1 .. Len(s)
          /\ \A k \in 1 .. Len(s) : k # code_idx => s[k] # 0
      BY <1>3, <1>t, <2>0, AppendByte DEF EncInv, EncodeFullBlock, OpenBlock
    <2>2. outdata' = FinishBlock(s, code + 1) /\ code_idx' = Len(s) + 1
      BY <1>3, <1>t, <2>1 DEF EncodeFullBlock
    <2> HIDE DEF s
    <2>a. /\ outdata' \in Seq(Byte) /\ Len(outdata') = Len(s) + 1
          /\ \A k \in 1 .. Len(outdata') : (outdata'[k] = 0) <=> (k = Len(outdata'))
      <3>1. outdata' \in Seq(Byte) /\ Len(outdata') = Len(s) + 1
        BY <2>0, <2>1, <2>2, FinishBlockSeq
      <3>2. \A k \in 1 .. Len(outdata') : (outdata'[k] = 0) <=> (k = Len(outdata'))
        BY <2>0, <2>1, <2>2, FinishBlockZeros
      <3> QED
        BY <3>1, <3>2
    <2>b. ~done /\ done' = done /\ code' = 1 /\ idx' = idx + 1 /\ indata' = indata /\ idx < Len(indata)
      BY <1>3 DEF EncodeFullBlock
    <2>3. OpenBlock' /\ FrameDelimited'
      BY <1>t, <2>1, <2>2, <2>a, <2>b DEF OpenBlock, FrameDelimited
    <2>4. TypeOK'
      BY <1>t, <2>1, <2>2, <2>a, <2>b DEF TypeOK
    <2>5. Excess' = Excess + 1
      BY <1>3, <1>t, <2>0, <2>1, <2>2, FinishBlockSeq DEF EncodeFullBlock, Excess
    <2>6. Paid'
      <3>1. M * (Excess + 1) = M * Excess + M /\ M * Excess \in Int
        BY DEF EncInv
      <3>2. code - 1 = M - 1
        BY <1>3, <1>t DEF EncodeFullBlock
      <3>3. M * Excess + (M - 1) <= idx
        BY <3>2 DEF EncInv, Paid
      <3> QED
        BY <1>3, <1>t, <2>5, <3>1, <3>3 DEF EncodeFullBlock, Paid
    <2> QED
      BY <1>3, <2>3, <2>4, <2>5, <2>6 DEF EncInv, EncodeFullBlock
  <1>4. CASE EncodeEnd
    <2>1. OpenBlock' /\ FrameDelimited'
      BY <1>4, <1>t, FinishBlockSeq, FinishBlockZeros
      DEF EncInv, EncodeEnd, OpenBlock, FrameDelimited
    <2>2. TypeOK'
      BY <1>4, <1>t, FinishBlockSeq DEF EncodeEnd, TypeOK
    <2>3. Excess' = Excess
      BY <1>4, <1>t, FinishBlockSeq DEF EncodeEnd, Excess
    <2>4. Paid'
      BY <1>4, <2>3 DEF EncInv, EncodeEnd, Paid
    <2> QED
      BY <1>4, <2>1, <2>2, <2>3, <2>4 DEF EncInv, EncodeEnd
  <1>5. CASE UNCHANGED encVars
    BY <1>5 DEF EncInv, encVars, TypeOK, OpenBlock, FrameDelimited, Excess, Paid
  <1> QED
    BY <1>1, <1>2, <1>3, <1>4, <1>5 DEF EncodeStep

(* The inductive invariant: until the end the only zero in outdata is the  *)
(* code byte of the open block.                                            *)
THEOREM EncoderInvariant == Spec => []EncInv
  BY EncInit, EncStep, PTL DEF Spec

(* Type correctness of the encoder, for packets of any length: the code    *)
(* byte of COBS::encode stays in a byte and code_idx inside outdata.       *)
THEOREM EncoderTypeOK == Spec => []TypeOK
  <1>1. EncInv => TypeOK
    BY DEF EncInv
  <1> QED
    BY <1>1, EncoderInvariant, PTL

(* A frame has its only zero at its end, so a receiver that cuts the       *)
(* stream at the first zero gets whole frames.                             *)
THEOREM EncoderDelimits == Spec => []FrameDelimited
  <1>1. EncInv => FrameDelimited
    BY DEF EncInv
  <1> QED
    BY <1>1, EncoderInvariant, PTL

(* The frame of a packet fits the buffer sendReply reserves for it.        *)
THEOREM EncoderBound == Spec => []FrameBound
  <1>1. EncInv => FrameBound
    <2> SUFFICES ASSUME EncInv PROVE FrameBound
      OBVIOUS
    <2> USE MaxCodeAssumption
    <2> DEFINE M == MaxCode - 1
               e == Len(outdata) - 2 - Len(indata)
    <2>t. /\ Len(outdata) \in Nat /\ Len(indata) \in Nat /\ idx \in 0 .. Len(indata)
          /\ code \in 1 .. M /\ M \in Nat /\ M > 0 /\ Excess \in Nat /\ done \in BOOLEAN
      BY PacketsAssumption DEF EncInv, TypeOK
    <2>1. M * Excess <= Len(indata)
      <3>1. M * Excess \in Int
        BY <2>t
      <3> QED
        BY <2>t, <3>1 DEF EncInv, Paid
    <2>2. e <= Excess
      <3>1. CASE done
        BY <3>1, <2>t DEF EncInv, Excess
      <3>2. CASE ~done
        BY <3>2, <2>t DEF EncInv, Excess
      <3> QED
        BY <3>1, <3>2
    <2>3. M * e <= M * Excess
      <3> HIDE DEF e, M
      <3>1. e \in Int
        BY <2>t DEF e
      <3> QED
        BY <2>2, <2>t, <3>1
    <2>4. M * e <= Len(indata)
      <3> HIDE DEF M
      <3>1. M * e \in Int /\ M * Excess \in Int
        BY <2>t
      <3> QED
        BY <2>1, <2>3, <2>t, <3>1
    <2>5. ASSUME Len(indata) < M PROVE e <= 0
      <3> HIDE DEF e, M
      <3>1. e \in Int
        BY <2>t DEF e
      <3>2. SUFFICES ASSUME e >= 1 PROVE FALSE
        BY <3>1
      <3>3. M * e >= M
        BY <3>1, <3>2, <2>t
      <3> QED
        BY <3>3, <2>4, <2>5, <2>t, <3>1
    <2> QED
      BY <2>4, <2>5, <2>t DEF FrameBound
  <1> QED
    BY <1>1, EncoderInvariant, PTL

-----------------------------------------------------------------------------
(* The decoder.                                                            *)

(* In the copy loop the code byte is read and its zero not yet written.    *)
Lag == IF pc = "copy" THEN 1 ELSE 0

NoFullBlock == \A k \in 1 .. Len(frame) : frame[k] < MaxCode

DecInv ==
    /\ DecodeTypeOK
    /\ Len(decoded) + Lag <= pos
    /\ NoFullBlock =>
         /\ Len(decoded) + Lag = pos
         /\ pc = "copy" => blk < MaxCode
         /\ pc = "head" /\ pos > 0 => decoded[Len(decoded)] = 0

-----------------------------------------------------------------------------
(* The decoder starts with nothing read and nothing written.               *)
LEMMA DecInit == DecodeInit => DecInv
  <1> SUFFICES ASSUME DecodeInit PROVE DecInv
    OBVIOUS
  <1> USE MaxCodeAssumption, FramesAssumption
  <1>1. /\ frame \in Frames /\ frame \in Seq(Byte) /\ Len(frame) \in Nat
        /\ decoded = <<>> /\ pos = 0 /\ blk = 0 /\ cnt = 0 /\ pc = "head"
    BY DEF DecodeInit
  <1>2. DecodeTypeOK
    BY <1>1 DEF DecodeTypeOK, Byte
  <1> QED
    BY <1>1, <1>2 DEF DecInv, Lag

(* A turn of either loop of UnStuffData keeps the count of bytes written   *)
(* behind the count of bytes read.                                         *)
LEMMA DecStep == DecInv /\ [DecodeStep]_decVars => DecInv'
  <1> SUFFICES ASSUME DecInv, [DecodeStep]_decVars PROVE DecInv'
    OBVIOUS
  <1> USE MaxCodeAssumption, FramesAssumption
  <1>t. /\ frame \in Frames /\ frame \in Seq(Byte) /\ decoded \in Seq(Byte)
        /\ pos \in 0 .. Len(frame) /\ blk \in Byte /\ cnt \in 0 .. MaxCode
        /\ pc \in {"head", "copy"} /\ Len(decoded) \in Nat /\ Len(frame) \in Nat
    BY DEF DecInv, DecodeTypeOK
  <1>1. CASE ReadCode
    <2>1. frame[pos + 1] \in Byte /\ (NoFullBlock => frame[pos + 1] < MaxCode)
      BY <1>1, <1>t DEF ReadCode, NoFullBlock
    <2>2. DecodeTypeOK'
      BY <1>1, <1>t, <2>1 DEF ReadCode, DecodeTypeOK
    <2> QED
      BY <1>1, <1>t, <2>1, <2>2 DEF ReadCode, DecInv, Lag, NoFullBlock
  <1>2. CASE CopyByte
    <2>1. frame[pos + 1] \in Byte /\ blk <= MaxCode
      BY <1>2, <1>t DEF CopyByte, MoreToCopy, Byte
    <2>2. decoded' \in Seq(Byte) /\ Len(decoded') = Len(decoded) + 1
      BY <1>2, <1>t, <2>1 DEF CopyByte
    <2>3. DecodeTypeOK'
      BY <1>2, <1>t, <2>1, <2>2 DEF CopyByte, MoreToCopy, DecodeTypeOK, Byte
    <2> QED
      BY <1>2, <1>t, <2>2, <2>3 DEF CopyByte, MoreToCopy, DecInv, Lag, NoFullBlock
  <1>3. CASE EndBlock
    <2>1. 0 \in Byte
      BY DEF Byte
    <2>2. /\ decoded' \in Seq(Byte) /\ Len(decoded') <= Len(decoded) + 1
          /\ blk < MaxCode => /\ Len(decoded') = Len(decoded) + 1
                              /\ decoded'[Len(decoded')] = 0
      BY <1>3, <1>t, <2>1 DEF EndBlock
    <2>3. DecodeTypeOK'
      BY <1>3, <1>t, <2>2 DEF EndBlock, DecodeTypeOK
    <2> QED
      BY <1>3, <1>t, <2>2, <2>3 DEF EndBlock, DecInv, Lag, NoFullBlock
  <1>4. CASE UNCHANGED decVars
    BY <1>4 DEF decVars, DecInv, DecodeTypeOK, Lag, NoFullBlock
  <1> QED
    BY <1>1, <1>2, <1>3, <1>4 DEF DecodeStep

(* The inductive invariant: what is written never overtakes what is read,  *)
(* and at the head of the outer loop the last byte is the zero of the last *)
(* block.                                                                  *)
THEOREM DecoderInvariant == DecodeSpec => []DecInv
  BY DecInit, DecStep, PTL DEF DecodeSpec

(* The programmer decodes into a buffer of the size of what it received:   *)
(* no byte string, well formed or not, makes UnStuffData write past it.    *)
THEOREM DecoderFits == DecodeSpec => []DecodedFits
  <1>1. DecInv => DecodedFits
    BY DEF DecInv, DecodedFits, Lag, DecodeTypeOK
  <1> QED
    BY <1>1, DecoderInvariant, PTL

(* What readPacket and loop() drop at the end of a decoded packet is the   *)
(* zero the decoder added, never data, in the absence of full blocks.      *)
THEOREM DecoderStrips == DecodeSpec => []StripsOnlyPadding
  <1>1. DecInv => StripsOnlyPadding
    <2> SUFFICES ASSUME DecInv, DecodeDone, Len(frame) > 0, NoFullBlock
                 PROVE  Len(decoded) = Len(frame) /\ decoded[Len(decoded)] = 0
      BY DEF StripsOnlyPadding, NoFullBlock
    <2>1. Len(decoded) \in Nat /\ Len(frame) \in Nat
      BY FramesAssumption DEF DecInv, DecodeTypeOK
    <2> QED
      BY <2>1 DEF DecInv, DecodeDone, Lag
  <1> QED
    BY <1>1, DecoderInvariant, PTL

-----------------------------------------------------------------------------
(* Both ends together.  A block is a pair: where its code byte is in the   *)
(* frame, and how many bytes of the packet come before it.  The zero that  *)
(* every decoded packet ends with counts as a byte of the packet.          *)
Padded == Append(indata, 0)

(* The block after p in the frame s: a full block has no zero of its own.  *)
NextPair(s, p) ==
    <<p[1] + s[p[1]], p[2] + s[p[1]] - (IF s[p[1]] = MaxCode THEN 1 ELSE 0)>>

(* The frame s has at p the bytes of the packet d that its code byte       *)
(* counts, and a zero follows in the packet unless the block is full.      *)
Block(s, d, p) ==
    /\ s[p[1]] \in 1 .. MaxCode
    /\ \A i \in 1 .. s[p[1]] - 1 : s[p[1] + i] = d[p[2] + i]
    /\ s[p[1]] < MaxCode => d[p[2] + s[p[1]]] = 0

(* The blocks H lead from the beginning of the frame to t.                 *)
Chain(s, d, H, t) ==
    /\ <<1, 0>> \in H \cup {t}
    /\ \A p \in H : p[1] < t[1] /\ p[2] <= t[2]
    /\ \A p \in H : NextPair(s, p) \in H \cup {t} /\ Block(s, d, p)

OpenPair == <<code_idx, idx - code + 1>>     \* the block being encoded
EndPair  == <<Len(outdata), Len(indata) + 1>>

(* The encoder: the closed blocks lead to the open one, which holds code-1 *)
(* bytes, or to the terminator.                                            *)
Encoded(H) ==
    /\ ~done => /\ Chain(outdata, Padded, H, OpenPair)
                /\ code - 1 <= idx /\ Len(outdata) = code_idx + code - 1
                /\ \A i \in 1 .. code - 1 : outdata[code_idx + i] = Padded[idx - code + 1 + i]
    /\ done => Chain(outdata, Padded, H, EndPair)

(* The decoder: what it has written is the beginning of the packet, and it *)
(* is at a block, or cnt bytes into one.                                   *)
Decoded(H) ==
    /\ \A i \in 1 .. Len(decoded) : decoded[i] = Padded[i]
    /\ pc = "head" => <<pos + 1, Len(decoded)>> \in H \cup {EndPair}
    /\ pc = "copy" => \E p \in H :
                         /\ cnt \in 1 .. outdata[p[1]] /\ blk = outdata[p[1]]
                         /\ pos + 1 = p[1] + cnt /\ Len(decoded) = p[2] + cnt - 1

(* Sets of blocks.                                                         *)
Pairs == SUBSET ((Nat \ {0}) \X Nat)

(* The receiver is at rest until it has read a frame, and has then read    *)
(* all of it but the terminator.                                           *)
AtRest == decoded = <<>> /\ pos = 0 /\ pc = "head"

Underway ==
    /\ done /\ frame = SubSeq(outdata, 1, Len(outdata) - 1)
    /\ pos \in 0 .. Len(frame) /\ decoded \in Seq(Byte) /\ pc \in {"head", "copy"}
    /\ \E H \in Pairs : Encoded(H) /\ Decoded(H)

CodecInv ==
    /\ EncInv
    /\ \E H \in Pairs : Encoded(H)
    /\ ~received => AtRest
    /\ received /\ ~garbled => Underway

-----------------------------------------------------------------------------
(* The packet with its zero.                                               *)
LEMMA PaddedIs ==
    ASSUME indata \in Seq(Byte), MaxCode \in Nat
    PROVE  /\ Len(Padded) = Len(indata) + 1 /\ Padded[Len(indata) + 1] = 0
           /\ \A i \in 1 .. Len(indata) : Padded[i] = indata[i]
  BY DEF Padded, Byte

(* What comes after the blocks does not matter to them: the encoder writes *)
(* behind the closed blocks, and fills in the code byte of the open one.   *)
LEMMA ChainKept ==
    ASSUME MaxCode \in Nat, NEW s, NEW r, NEW d, NEW H \in Pairs, NEW t \in (Nat \ {0}) \X Nat,
           Chain(s, d, H, t), \A k \in 1 .. t[1] - 1 : r[k] = s[k]
    PROVE  Chain(r, d, H, t)
  <1> SUFFICES ASSUME NEW p \in H PROVE NextPair(r, p) \in H \cup {t} /\ Block(r, d, p)
    BY DEF Chain
  <1>1. p[1] \in Nat \ {0} /\ p[2] \in Nat /\ t[1] \in Nat \ {0} /\ p[1] < t[1]
    BY DEF Pairs, Chain
  <1>2. r[p[1]] = s[p[1]] /\ s[p[1]] \in 1 .. MaxCode
    BY <1>1 DEF Chain, Block
  <1>3. NextPair(r, p) = NextPair(s, p) /\ NextPair(s, p) \in H \cup {t}
    BY <1>2 DEF Chain, NextPair
  <1>4. p[1] + s[p[1]] <= t[1]
    <2>1. NextPair(s, p)[1] = p[1] + s[p[1]]
      BY DEF NextPair
    <2>2. \A q \in H \cup {t} : q[1] <= t[1]
      BY DEF Pairs, Chain
    <2> QED
      BY <1>3, <2>1, <2>2
  <1>5. \A i \in 1 .. s[p[1]] - 1 : r[p[1] + i] = s[p[1] + i]
    BY <1>1, <1>2, <1>4
  <1> QED
    BY <1>2, <1>3, <1>5 DEF Chain, Block

(* The open block, once closed, is one more link of the chain.             *)
LEMMA ChainExtended ==
    ASSUME NEW s, NEW d, NEW H \in Pairs, NEW o \in (Nat \ {0}) \X Nat, NEW t \in (Nat \ {0}) \X Nat,
           Chain(s, d, H, o), Block(s, d, o), NextPair(s, o) = t, o[1] < t[1], o[2] <= t[2]
    PROVE  H \cup {o} \in Pairs /\ Chain(s, d, H \cup {o}, t)
  <1>1. H \cup {o} \in Pairs
    BY DEF Pairs
  <1>2. \A p \in H \cup {o} : p[1] < t[1] /\ p[2] <= t[2]
    BY DEF Pairs, Chain
  <1> QED
    BY <1>1, <1>2 DEF Chain

-----------------------------------------------------------------------------
(* A turn of the encoder's loop adds a byte to the open block, or closes   *)
(* it: a block is closed by a zero of the packet, by being full, or by the *)
(* end of the packet.                                                      *)
LEMMA EncodeKeeps ==
    ASSUME EncInv, EncodeStep, NEW H \in Pairs, Encoded(H)
    PROVE  \E G \in Pairs : Encoded(G)'
  <1> USE MaxCodeAssumption, PacketsAssumption
  <1>o. PICK o : o = OpenPair
    OBVIOUS
  <1>t. /\ indata \in Seq(Byte) /\ outdata \in Seq(Byte) /\ Len(indata) \in Nat /\ Len(outdata) \in Nat
        /\ idx \in 0 .. Len(indata) /\ code_idx \in 1 .. Len(outdata) /\ code \in 1 .. MaxCode - 1
        /\ code \in Byte
    BY DEF EncInv, TypeOK, Byte
  <1>a. ~done
    BY DEF EncodeStep, EncodeZero, EncodeByte, EncodeFullBlock, EncodeEnd
  <1>b. /\ Chain(outdata, Padded, H, o)
        /\ code - 1 <= idx /\ Len(outdata) = code_idx + code - 1
        /\ \A i \in 1 .. code - 1 : outdata[code_idx + i] = Padded[idx - code + 1 + i]
    BY <1>a, <1>o DEF Encoded
  <1>c. /\ Len(Padded) = Len(indata) + 1 /\ Padded[Len(indata) + 1] = 0
        /\ \A i \in 1 .. Len(indata) : Padded[i] = indata[i]
    BY <1>t, PaddedIs
  <1>d. indata' = indata /\ Padded' = Padded
    BY DEF EncodeStep, EncodeZero, EncodeByte, EncodeFullBlock, EncodeEnd, Padded
  <1>e. o \in (Nat \ {0}) \X Nat /\ o[1] = code_idx /\ o[2] = idx - code + 1
    BY <1>o, <1>t, <1>b DEF OpenPair
  <1>1. CASE EncodeZero \/ EncodeEnd
    <2> DEFINE t == <<Len(outdata) + 1, idx + 1>>
    <2>1. /\ outdata' = FinishBlock(outdata, code) /\ Padded[idx + 1] = 0
      BY <1>1, <1>t, <1>c DEF EncodeZero, EncodeEnd
    <2>2. /\ Len(outdata') = Len(outdata) + 1 /\ outdata'[code_idx] = code
          /\ \A k \in 1 .. Len(outdata) : k # code_idx => outdata'[k] = outdata[k]
      BY <1>t, <2>1, FinishBlockSeq
    <2>3. Chain(outdata', Padded, H, o)
      <3>1. \A k \in 1 .. o[1] - 1 : outdata'[k] = outdata[k]
        BY <1>t, <1>e, <2>2
      <3> QED
        BY <1>b, <1>e, <3>1, ChainKept
    <2>4. Block(outdata', Padded, o)
      <3>1. \A i \in 1 .. code - 1 : outdata'[code_idx + i] = outdata[code_idx + i]
        BY <1>t, <1>b, <2>2
      <3>2. outdata'[o[1]] = code /\ code \in 1 .. MaxCode
        BY <1>t, <1>e, <2>2
      <3>3. \A i \in 1 .. code - 1 : outdata'[o[1] + i] = Padded[o[2] + i]
        BY <1>b, <1>e, <3>1
      <3>4. o[2] + code = idx + 1
        BY <1>t, <1>e
      <3> QED
        BY <2>1, <3>2, <3>3, <3>4 DEF Block
    <2>5. NextPair(outdata', o) = t
      BY <1>t, <1>b, <1>e, <2>2 DEF NextPair
    <2>6. t \in (Nat \ {0}) \X Nat /\ o[1] < t[1] /\ o[2] <= t[2]
      BY <1>t, <1>e
    <2>7. H \cup {o} \in Pairs /\ Chain(outdata', Padded, H \cup {o}, t)
      <3> HIDE DEF t
      <3> QED
        BY <1>e, <2>3, <2>4, <2>5, <2>6, ChainExtended
    <2>8. CASE EncodeZero
      <3>1. ~done' /\ code' = 1 /\ idx' = idx + 1 /\ code_idx' = Len(outdata) + 1
        BY <1>a, <2>8 DEF EncodeZero
      <3>2. OpenPair' = t
        BY <3>1, <1>t DEF OpenPair
      <3>3. Encoded(H \cup {o})'
        BY <1>t, <1>d, <2>2, <2>7, <3>1, <3>2 DEF Encoded
      <3> QED
        BY <2>7, <3>3
    <2>9. CASE EncodeEnd
      <3>1. done' /\ idx = Len(indata)
        BY <2>9 DEF EncodeEnd
      <3>2. EndPair' = t
        BY <3>1, <1>d, <2>2 DEF EndPair
      <3>3. Encoded(H \cup {o})'
        BY <1>d, <2>7, <3>1, <3>2 DEF Encoded
      <3> QED
        BY <2>7, <3>3
    <2> QED
      BY <1>1, <2>8, <2>9
  <1>2. CASE EncodeByte
    <2>1. /\ outdata' = Append(outdata, indata[idx + 1]) /\ code' = code + 1 /\ idx' = idx + 1
          /\ code_idx' = code_idx /\ done' = done /\ idx < Len(indata) /\ indata[idx + 1] \in Byte
      BY <1>2, <1>t DEF EncodeByte
    <2>2. /\ Len(outdata') = Len(outdata) + 1 /\ outdata'[Len(outdata) + 1] = Padded[idx + 1]
          /\ \A k \in 1 .. Len(outdata) : outdata'[k] = outdata[k]
      BY <1>t, <1>c, <2>1
    <2>3. Chain(outdata', Padded, H, o)
      <3>1. \A k \in 1 .. o[1] - 1 : outdata'[k] = outdata[k]
        BY <1>t, <1>e, <2>2
      <3> QED
        BY <1>b, <1>e, <3>1, ChainKept
    <2>4. OpenPair' = o
      BY <1>o, <1>t, <2>1 DEF OpenPair
    <2>5. \A i \in 1 .. code : outdata'[code_idx + i] = Padded[idx - code + 1 + i]
      <3> SUFFICES ASSUME NEW i \in 1 .. code PROVE outdata'[code_idx + i] = Padded[idx - code + 1 + i]
        OBVIOUS
      <3>1. CASE i = code
        BY <3>1, <1>t, <1>b, <2>2
      <3>2. CASE i < code
        <4>1. i \in 1 .. code - 1 /\ code_idx + i \in 1 .. Len(outdata)
          BY <3>2, <1>t, <1>b
        <4> QED
          BY <4>1, <1>b, <2>2
      <3> QED
        BY <1>t, <3>1, <3>2
    <2>6. /\ code' - 1 = code /\ idx' - code' + 1 = idx - code + 1
          /\ code' - 1 <= idx' /\ Len(outdata') = code_idx' + code' - 1
      BY <1>t, <1>b, <2>1, <2>2
    <2>7. \A i \in 1 .. code' - 1 : outdata'[code_idx' + i] = Padded'[idx' - code' + 1 + i]
      BY <1>d, <2>1, <2>5, <2>6
    <2>8. Encoded(H)'
      BY <1>a, <1>d, <2>1, <2>3, <2>4, <2>6, <2>7 DEF Encoded
    <2> QED
      BY <2>8
  <1>3. CASE EncodeFullBlock
    <2> DEFINE b == indata[idx + 1]
               s == Append(outdata, b)
               t == <<Len(outdata) + 2, idx + 1>>
    <2>1. /\ outdata' = FinishBlock(s, code + 1) /\ code' = 1 /\ idx' = idx + 1
          /\ code_idx' = Len(outdata) + 2 /\ done' = done /\ idx < Len(indata) /\ b \in Byte
          /\ code + 1 = MaxCode /\ code + 1 \in Byte
      BY <1>3, <1>t DEF EncodeFullBlock, Byte
    <2>2. /\ s \in Seq(Byte) /\ Len(s) = Len(outdata) + 1 /\ code_idx \in 1 .. Len(s)
          /\ s[Len(outdata) + 1] = Padded[idx + 1]
          /\ \A k \in 1 .. Len(outdata) : s[k] = outdata[k]
      BY <1>t, <1>c, <2>1
    <2> HIDE DEF s
    <2>3. /\ Len(outdata') = Len(outdata) + 2 /\ outdata'[code_idx] = MaxCode
          /\ \A k \in 1 .. Len(s) : k # code_idx => outdata'[k] = s[k]
      <3>1. /\ Len(outdata') = Len(s) + 1 /\ outdata'[code_idx] = code + 1
            /\ \A k \in 1 .. Len(s) : k # code_idx => outdata'[k] = s[k]
        BY <2>1, <2>2, FinishBlockSeq
      <3> QED
        BY <1>t, <2>1, <2>2, <3>1
    <2>4. Chain(outdata', Padded, H, o)
      <3>1. \A k \in 1 .. o[1] - 1 : outdata'[k] = outdata[k]
        <4>1. \A k \in 1 .. code_idx - 1 : k \in 1 .. Len(outdata) /\ k \in 1 .. Len(s) /\ k # code_idx
          BY <1>t, <2>2
        <4> QED
          BY <1>e, <2>2, <2>3, <4>1
      <3> QED
        BY <1>b, <1>e, <3>1, ChainKept
    <2>5. \A i \in 1 .. code : outdata'[code_idx + i] = Padded[idx - code + 1 + i]
      <3> SUFFICES ASSUME NEW i \in 1 .. code PROVE outdata'[code_idx + i] = Padded[idx - code + 1 + i]
        OBVIOUS
      <3>1. outdata'[code_idx + i] = s[code_idx + i]
        BY <1>t, <1>b, <2>2, <2>3
      <3>2. CASE i = code
        BY <3>1, <3>2, <1>t, <1>b, <2>2
      <3>3. CASE i < code
        <4>1. i \in 1 .. code - 1 /\ code_idx + i \in 1 .. Len(outdata)
          BY <3>3, <1>t, <1>b
        <4> QED
          BY <3>1, <4>1, <1>b, <2>2
      <3> QED
        BY <1>t, <3>2, <3>3
    <2>6. Block(outdata', Padded, o)
      <3>1. MaxCode - 1 = code /\ MaxCode \in 1 .. MaxCode
        BY <1>t, <2>1
      <3> QED
        BY <1>e, <2>3, <2>5, <3>1 DEF Block
    <2>7. NextPair(outdata', o) = t
      <3>1. o[1] + MaxCode = Len(outdata) + 2 /\ o[2] + MaxCode - 1 = idx + 1
        BY <1>t, <1>b, <1>e, <2>1
      <3> QED
        BY <1>e, <2>3, <3>1 DEF NextPair
    <2>8. t \in (Nat \ {0}) \X Nat /\ o[1] < t[1] /\ o[2] <= t[2]
      BY <1>t, <1>e
    <2>9. H \cup {o} \in Pairs /\ Chain(outdata', Padded, H \cup {o}, t)
      <3> HIDE DEF t
      <3> QED
        BY <1>e, <2>4, <2>6, <2>7, <2>8, ChainExtended
    <2>10. OpenPair' = t
      BY <1>t, <2>1 DEF OpenPair
    <2>11. Encoded(H \cup {o})'
      BY <1>a, <1>d, <1>t, <2>1, <2>3, <2>9, <2>10 DEF Encoded
    <2> QED
      BY <2>9, <2>11
  <1> QED
    BY <1>1, <1>2, <1>3 DEF EncodeStep

-----------------------------------------------------------------------------
(* The receiver stops at the terminator, which is the only zero, and the   *)
(* decoder begins at the first block.                                      *)
LEMMA ReceiveKeeps ==
    ASSUME EncInv, AtRest, Receive, NEW H \in Pairs, Encoded(H)
    PROVE  Underway'
  <1> USE MaxCodeAssumption, PacketsAssumption
  <1>1. outdata \in Seq(Byte) /\ Len(outdata) \in Nat /\ Len(outdata) >= 1
    BY DEF EncInv, TypeOK
  <1>2. frame' = SubSeq(outdata, 1, Len(outdata) - 1)
    <2>1. PICK k \in 1 .. Len(outdata) : outdata[k] = 0 /\ frame' = SubSeq(outdata, 1, k - 1)
      BY DEF Receive
    <2>2. k = Len(outdata)
      BY <2>1 DEF EncInv, FrameDelimited, Receive
    <2> QED
      BY <2>1, <2>2
  <1>3. /\ done /\ outdata' = outdata /\ done' = done /\ indata' = indata /\ idx' = idx /\ code' = code
        /\ code_idx' = code_idx /\ decoded' = decoded /\ pos' = pos /\ pc' = pc
    BY DEF Receive, encVars
  <1>4. decoded = <<>> /\ pos = 0 /\ pc = "head"
    BY DEF AtRest
  <1>5. Len(frame') \in Nat /\ decoded' \in Seq(Byte) /\ Len(decoded') = 0
    BY <1>1, <1>2, <1>3, <1>4
  <1>6. Encoded(H)'
    BY <1>3 DEF Encoded, Padded, OpenPair, EndPair
  <1>7. Decoded(H)'
    <2>1. <<1, 0>> \in H \cup {EndPair}
      BY <1>3 DEF Encoded, Chain
    <2>2. EndPair' = EndPair
      BY <1>3 DEF EndPair
    <2> QED
      BY <1>3, <1>4, <1>5, <2>1, <2>2 DEF Decoded
  <1> QED
    BY <1>2, <1>3, <1>4, <1>5, <1>6, <1>7 DEF Underway

(* What every step of the decoder on a frame that was sent relies on.      *)
LEMMA UnderwayFacts ==
    ASSUME EncInv, Underway, NEW H \in Pairs, Encoded(H)
    PROVE  /\ outdata \in Seq(Byte) /\ Len(frame) \in Nat /\ Len(outdata) = Len(frame) + 1
           /\ \A k \in 1 .. Len(frame) : frame[k] = outdata[k] /\ frame[k] \in Byte
           /\ Chain(outdata, Padded, H, EndPair)
           /\ EndPair \in (Nat \ {0}) \X Nat
           /\ pos \in 0 .. Len(frame) /\ decoded \in Seq(Byte) /\ Len(decoded) \in Nat
           /\ MaxCode \in Nat /\ MaxCode >= 2
  <1> USE MaxCodeAssumption, PacketsAssumption
  <1>1. outdata \in Seq(Byte) /\ Len(outdata) \in Nat /\ Len(outdata) >= 1
    BY DEF EncInv, TypeOK
  <1>2. frame = SubSeq(outdata, 1, Len(outdata) - 1)
    BY DEF Underway
  <1>3. Len(frame) = Len(outdata) - 1 /\ \A k \in 1 .. Len(outdata) - 1 : frame[k] = outdata[k]
    <2> DEFINE m == Len(outdata) - 1
    <2>1. m \in Nat /\ m <= Len(outdata)
      BY <1>1
    <2> HIDE DEF m
    <2>2. /\ Len(SubSeq(outdata, 1, m)) = m
          /\ \A k \in 1 .. m : SubSeq(outdata, 1, m)[k] = outdata[k]
      BY <1>1, <2>1
    <2> QED
      BY <1>2, <2>2 DEF m
  <1>4. \A k \in 1 .. Len(frame) : frame[k] = outdata[k] /\ frame[k] \in Byte
    BY <1>1, <1>3
  <1>5. EndPair \in (Nat \ {0}) \X Nat
    BY <1>1 DEF EndPair, EncInv, TypeOK
  <1> QED
    BY <1>1, <1>3, <1>4, <1>5 DEF Underway, Encoded

(* A turn of either loop of the decoder stays inside the packet, and goes  *)
(* from one block to the next.                                             *)
LEMMA DecodeKeeps ==
    ASSUME EncInv, Underway, DecodeStep, UNCHANGED encVars
    PROVE  Underway'
  <1> USE MaxCodeAssumption
  <1>1. PICK H \in Pairs : Encoded(H) /\ Decoded(H)
    BY DEF Underway
  <1>2. /\ outdata \in Seq(Byte) /\ Len(frame) \in Nat /\ Len(outdata) = Len(frame) + 1
        /\ \A k \in 1 .. Len(frame) : frame[k] = outdata[k] /\ frame[k] \in Byte
        /\ Chain(outdata, Padded, H, EndPair)
        /\ EndPair \in (Nat \ {0}) \X Nat
        /\ pos \in 0 .. Len(frame) /\ decoded \in Seq(Byte) /\ Len(decoded) \in Nat
        /\ MaxCode \in Nat /\ MaxCode >= 2
    BY <1>1, UnderwayFacts
  <1>3. frame' = frame /\ outdata' = outdata /\ Padded' = Padded /\ EndPair' = EndPair
    BY DEF DecodeStep, ReadCode, CopyByte, EndBlock, encVars, Padded, EndPair
  <1>4. Encoded(H)' /\ done' /\ frame' = SubSeq(outdata', 1, Len(outdata') - 1)
    BY <1>1, <1>3 DEF Encoded, OpenPair, encVars, Underway
  <1>5. EndPair[1] = Len(frame) + 1
    BY <1>2 DEF EndPair
  <1>6. \A i \in 1 .. Len(decoded) : decoded[i] = Padded[i]
    BY <1>1 DEF Decoded
  <1>7. SUFFICES /\ pos' \in 0 .. Len(frame) /\ decoded' \in Seq(Byte) /\ pc' \in {"head", "copy"}
                 /\ Decoded(H)'
    BY <1>3, <1>4 DEF Underway
  <1>8. CASE ReadCode
    <2>1. /\ blk' = frame[pos + 1] /\ pos' = pos + 1 /\ cnt' = 1 /\ pc' = "copy"
          /\ decoded' = decoded /\ pc = "head" /\ pos < Len(frame)
      BY <1>8 DEF ReadCode
    <2> DEFINE p == <<pos + 1, Len(decoded)>>
    <2>2. p \in H
      BY <1>1, <1>2, <1>5, <2>1 DEF Decoded
    <2>3. outdata[p[1]] \in 1 .. MaxCode
      BY <1>2, <2>2 DEF Chain, Block
    <2>4. /\ cnt' \in 1 .. outdata[p[1]] /\ blk' = outdata[p[1]]
          /\ pos' + 1 = p[1] + cnt' /\ Len(decoded) = p[2] + cnt' - 1
      BY <1>2, <2>1, <2>3
    <2>5. Decoded(H)'
      BY <1>3, <1>6, <2>1, <2>2, <2>4 DEF Decoded
    <2> QED
      BY <1>2, <2>1, <2>5
  <1>9. CASE CopyByte
    <2>1. /\ decoded' = Append(decoded, frame[pos + 1]) /\ pos' = pos + 1 /\ cnt' = cnt + 1
          /\ blk' = blk /\ pc' = "copy" /\ pc = "copy" /\ pos < Len(frame) /\ cnt < blk
      BY <1>9 DEF CopyByte, MoreToCopy
    <2>2. PICK p \in H : /\ cnt \in 1 .. outdata[p[1]] /\ blk = outdata[p[1]]
                         /\ pos + 1 = p[1] + cnt /\ Len(decoded) = p[2] + cnt - 1
      BY <1>1, <2>1 DEF Decoded
    <2>3. outdata[p[1]] \in 1 .. MaxCode /\ p[1] \in Nat \ {0} /\ p[2] \in Nat
      BY <1>2 DEF Chain, Block, Pairs
    <2>4. outdata[p[1] + cnt] = Padded[p[2] + cnt]
      <3>1. cnt \in 1 .. outdata[p[1]] - 1
        BY <2>1, <2>2, <2>3
      <3> QED
        BY <1>2, <3>1 DEF Chain, Block
    <2>5. /\ decoded' \in Seq(Byte) /\ Len(decoded') = Len(decoded) + 1
          /\ \A i \in 1 .. Len(decoded) : decoded'[i] = decoded[i]
          /\ decoded'[Len(decoded) + 1] = frame[pos + 1] /\ frame[pos + 1] = outdata[pos + 1]
      <3>1. pos + 1 \in 1 .. Len(frame)
        BY <1>2, <2>1
      <3> QED
        BY <1>2, <2>1, <3>1
    <2>6. Len(decoded) + 1 = p[2] + cnt /\ pos + 1 = p[1] + cnt
      BY <2>2, <2>3
    <2>7. \A i \in 1 .. Len(decoded') : decoded'[i] = Padded[i]
      <3> SUFFICES ASSUME NEW i \in 1 .. Len(decoded') PROVE decoded'[i] = Padded[i]
        OBVIOUS
      <3>1. i \in 1 .. Len(decoded) \/ i = Len(decoded) + 1
        BY <1>2, <2>5
      <3> QED
        BY <1>6, <2>4, <2>5, <2>6, <3>1
    <2>8. /\ cnt' \in 1 .. outdata[p[1]] /\ blk' = outdata[p[1]]
          /\ pos' + 1 = p[1] + cnt' /\ Len(decoded') = p[2] + cnt' - 1
      <3>1. cnt \in Nat /\ blk \in Nat /\ pos \in Nat /\ Len(decoded) \in Nat
        BY <1>2, <2>2, <2>3
      <3>2. cnt' \in 1 .. outdata[p[1]]
        BY <2>1, <2>2, <3>1
      <3>3. pos' + 1 = p[1] + cnt' /\ Len(decoded') = p[2] + cnt' - 1
        BY <2>1, <2>3, <2>5, <2>6, <3>1
      <3> QED
        BY <2>1, <2>2, <3>2, <3>3
    <2>9. Decoded(H)'
      BY <1>3, <2>1, <2>7, <2>8 DEF Decoded
    <2> QED
      BY <1>2, <2>1, <2>5, <2>9
  <1>10. CASE EndBlock
    <2>1. /\ decoded' = IF blk < MaxCode THEN Append(decoded, 0) ELSE decoded
          /\ pos' = pos /\ pc' = "head" /\ pc = "copy" /\ (pos >= Len(frame) \/ cnt >= blk)
      <3>1. PICK p \in H : cnt \in 1 .. outdata[p[1]] /\ blk = outdata[p[1]]
        BY <1>1, <1>10 DEF Decoded, EndBlock
      <3>2. blk \in Int /\ cnt \in Int
        BY <1>2, <3>1 DEF Chain, Block
      <3> QED
        BY <1>2, <1>10, <3>2 DEF EndBlock, MoreToCopy
    <2>2. PICK p \in H : /\ cnt \in 1 .. outdata[p[1]] /\ blk = outdata[p[1]]
                         /\ pos + 1 = p[1] + cnt /\ Len(decoded) = p[2] + cnt - 1
      BY <1>1, <2>1 DEF Decoded
    <2>3. outdata[p[1]] \in 1 .. MaxCode /\ p[1] \in Nat \ {0} /\ p[2] \in Nat
      BY <1>2 DEF Chain, Block, Pairs
    <2> DEFINE n == NextPair(outdata, p)
    <2>4. n \in H \cup {EndPair} /\ n[1] = p[1] + blk
      BY <1>2, <2>2 DEF Chain, NextPair
    <2>5. n[1] <= Len(frame) + 1
      <3>1. \A q \in H : q[1] \in Nat /\ q[1] < EndPair[1]
        BY <1>2 DEF Chain, Pairs
      <3> QED
        BY <1>2, <1>5, <2>4, <3>1
    <2>6. cnt = blk
      <3>1. cnt \in Nat /\ blk \in Nat /\ pos \in Nat /\ p[1] \in Nat /\ cnt <= blk
        BY <1>2, <2>2, <2>3
      <3>2. p[1] + blk <= Len(frame) + 1
        BY <2>4, <2>5
      <3>3. pos + 1 = p[1] + cnt /\ Len(frame) \in Nat /\ (pos >= Len(frame) \/ cnt >= blk)
        BY <1>2, <2>1, <2>2
      <3> QED
        BY <3>1, <3>2, <3>3
    <2>7. CASE blk < MaxCode
      <3>1. /\ decoded' \in Seq(Byte) /\ Len(decoded') = Len(decoded) + 1
            /\ \A i \in 1 .. Len(decoded) : decoded'[i] = decoded[i]
            /\ decoded'[Len(decoded) + 1] = 0
        <4>1. decoded' = Append(decoded, 0) /\ 0 \in Byte
          BY <1>2, <2>1, <2>7 DEF Byte
        <4> QED
          BY <1>2, <4>1
      <3>2. Len(decoded) + 1 = p[2] + blk /\ pos + 1 = p[1] + blk
        BY <2>2, <2>3, <2>6
      <3>3. Padded[p[2] + blk] = 0
        BY <1>2, <2>2, <2>7 DEF Chain, Block
      <3>4. \A i \in 1 .. Len(decoded') : decoded'[i] = Padded[i]
        <4> SUFFICES ASSUME NEW i \in 1 .. Len(decoded') PROVE decoded'[i] = Padded[i]
          OBVIOUS
        <4>1. i \in 1 .. Len(decoded) \/ i = Len(decoded) + 1
          BY <1>2, <3>1
        <4> QED
          BY <1>6, <3>1, <3>2, <3>3, <4>1
      <3>5. n = <<pos' + 1, Len(decoded')>>
        <4>1. blk # MaxCode /\ pos' + 1 = p[1] + blk /\ Len(decoded') = p[2] + blk - 0
          BY <1>2, <2>1, <2>2, <2>3, <2>7, <3>1, <3>2
        <4> QED
          BY <2>2, <4>1 DEF NextPair
      <3>6. Decoded(H)'
        BY <1>3, <2>1, <2>4, <3>4, <3>5 DEF Decoded
      <3> QED
        BY <1>2, <2>1, <3>1, <3>6
    <2>8. CASE blk >= MaxCode
      <3>1. decoded' = decoded /\ blk = MaxCode
        BY <1>2, <2>1, <2>2, <2>3, <2>8
      <3>2. n = <<pos' + 1, Len(decoded')>>
        <4>1. pos' + 1 = p[1] + blk /\ Len(decoded') = p[2] + blk - 1
          BY <1>2, <2>1, <2>2, <2>3, <2>6, <3>1
        <4> QED
          BY <2>2, <3>1, <4>1 DEF NextPair
      <3>3. Decoded(H)'
        BY <1>3, <1>6, <2>1, <2>4, <3>1, <3>2 DEF Decoded
      <3> QED
        BY <1>2, <2>1, <3>1, <3>3
    <2> QED
      BY <1>2, <2>2, <2>3, <2>7, <2>8
  <1> QED
    BY <1>8, <1>9, <1>10 DEF DecodeStep

-----------------------------------------------------------------------------
(* Nothing is encoded, and nothing has arrived.                            *)
LEMMA CodecStart == CodecInit => CodecInv
  <1> SUFFICES ASSUME CodecInit PROVE CodecInv
    OBVIOUS
  <1>1. EncInv
    BY EncInit DEF CodecInit
  <1>2. AtRest /\ ~received
    BY DEF CodecInit, AtRest
  <1>3. {} \in Pairs /\ Encoded({})
    <2>1. ~done /\ idx = 0 /\ code = 1 /\ code_idx = 1 /\ Len(outdata) = 1
      BY DEF CodecInit, Init
    <2>2. OpenPair = <<1, 0>>
      BY <2>1 DEF OpenPair
    <2>3. Chain(outdata, Padded, {}, OpenPair)
      BY <2>2 DEF Chain
    <2> QED
      BY <2>1, <2>3 DEF Encoded, Pairs
  <1> QED
    BY <1>1, <1>2, <1>3 DEF CodecInv

(* Every step of either end keeps the frame a chain of blocks that hold    *)
(* the packet, and what the decoder has written its beginning.             *)
LEMMA CodecStep == CodecInv /\ [CodecNext]_codecVars => CodecInv'
  <1> SUFFICES ASSUME CodecInv, [CodecNext]_codecVars PROVE CodecInv'
    OBVIOUS
  <1>1. PICK H \in Pairs : Encoded(H)
    BY DEF CodecInv
  <1>2. ASSUME UNCHANGED encVars PROVE EncInv' /\ Encoded(H)'
    <2>1. EncInv'
      BY <1>2, EncStep DEF CodecInv
    <2>2. Encoded(H)'
      BY <1>1, <1>2 DEF Encoded, encVars, Padded, OpenPair, EndPair
    <2> QED
      BY <2>1, <2>2
  <1>3. ASSUME UNCHANGED <<encVars, decVars>> PROVE (AtRest => AtRest') /\ (Underway => Underway')
    <2>1. AtRest => AtRest'
      BY <1>3 DEF AtRest, decVars
    <2>2. ASSUME NEW G \in Pairs PROVE Encoded(G) /\ Decoded(G) => (Encoded(G) /\ Decoded(G))'
      BY <1>3 DEF Encoded, Decoded, encVars, decVars, Padded, OpenPair, EndPair
    <2>3. Underway => Underway'
      BY <1>3, <2>2 DEF Underway, encVars, decVars
    <2> QED
      BY <2>1, <2>3
  <1>4. CASE Encode
    <2>1. EncInv' /\ \E G \in Pairs : Encoded(G)'
      BY <1>1, <1>4, EncStep, EncodeKeeps DEF CodecInv, Encode
    <2>2. received' = received /\ garbled' = garbled /\ (AtRest => AtRest')
      BY <1>4 DEF Encode, AtRest, decVars
    <2>3. ~(received /\ ~garbled)
      BY <1>4 DEF CodecInv, Underway, Encode, EncodeStep, EncodeZero, EncodeByte, EncodeFullBlock,
                  EncodeEnd
    <2> QED
      BY <2>1, <2>2, <2>3 DEF CodecInv
  <1>5. CASE Receive
    <2>1. UNCHANGED encVars /\ received'
      BY <1>5 DEF Receive
    <2>2. Underway'
      BY <1>1, <1>5, ReceiveKeeps DEF CodecInv, Receive
    <2> QED
      BY <1>2, <2>1, <2>2 DEF CodecInv
  <1>6. CASE ReceiveGarbled
    BY <1>2, <1>6 DEF ReceiveGarbled, CodecInv
  <1>7. CASE Decode
    <2>1. received /\ received' = received /\ garbled' = garbled /\ DecodeStep /\ UNCHANGED encVars
      BY <1>7 DEF Decode
    <2>2. ~garbled => Underway'
      BY <2>1, DecodeKeeps DEF CodecInv
    <2> QED
      BY <1>2, <2>1, <2>2 DEF CodecInv
  <1>8. CASE UNCHANGED codecVars
    <2>1. UNCHANGED <<encVars, decVars, received, garbled>>
      BY <1>8 DEF codecVars
    <2> QED
      BY <1>2, <1>3, <2>1 DEF CodecInv
  <1> QED
    BY <1>4, <1>5, <1>6, <1>7, <1>8 DEF CodecNext

(* The inductive invariant of both ends: a frame leads block by block      *)
(* through the packet, and the decoder follows it.                         *)
THEOREM CodecInvariant == CodecSpec => []CodecInv
  BY CodecStart, CodecStep, PTL DEF CodecSpec

(* What COBS::encode or StuffData sends, COBS::decode or UnStuffData and   *)
(* the dropping of the last byte give back: any packet of bytes, however   *)
(* long, with zeros anywhere and any number of full blocks.                *)
THEOREM CodecRoundTrip == CodecSpec => []RoundTrip
  <1>1. CodecInv => RoundTrip
    <2> SUFFICES ASSUME CodecInv, received, ~garbled, DecodeDone
                 PROVE  decoded # <<>> /\ Strip(decoded) = indata
      BY DEF RoundTrip
    <2>1. EncInv /\ Underway
      BY DEF CodecInv
    <2>2. PICK H \in Pairs : Encoded(H) /\ Decoded(H)
      BY <2>1 DEF Underway
    <2>3. /\ Len(frame) \in Nat /\ Len(outdata) = Len(frame) + 1
          /\ Chain(outdata, Padded, H, EndPair)
          /\ decoded \in Seq(Byte) /\ Len(decoded) \in Nat
      BY <2>1, <2>2, UnderwayFacts
    <2>4. indata \in Seq(Byte) /\ Len(indata) \in Nat
      BY <2>1, PacketsAssumption DEF EncInv, TypeOK
    <2>5. Len(decoded) = Len(indata) + 1
      <3>1. <<Len(outdata), Len(decoded)>> \in H \cup {EndPair}
        BY <2>2, <2>3 DEF Decoded, DecodeDone
      <3>2. \A p \in H : p[1] < Len(outdata)
        BY <2>3 DEF Chain, EndPair
      <3> QED
        BY <2>3, <3>1, <3>2 DEF EndPair
    <2>6. \A i \in 1 .. Len(indata) : decoded[i] = indata[i]
      <3>1. \A i \in 1 .. Len(decoded) : decoded[i] = Padded[i]
        BY <2>2 DEF Decoded
      <3>2. \A i \in 1 .. Len(indata) : Padded[i] = indata[i]
        BY <2>4, PaddedIs, MaxCodeAssumption
      <3> QED
        BY <2>4, <2>5, <3>1, <3>2
    <2> DEFINE t == SubSeq(decoded, 1, Len(indata))
    <2>7. t \in Seq(Byte) /\ Len(t) = Len(indata) /\ \A i \in 1 .. Len(indata) : t[i] = decoded[i]
      BY <2>3, <2>4, <2>5
    <2>8. t = indata
      <3> HIDE DEF t
      <3> QED
        BY <2>4, <2>6, <2>7, SeqEqual
    <2>9. Strip(decoded) = t
      BY <2>4, <2>5 DEF Strip
    <2> QED
      BY <2>3, <2>4, <2>5, <2>8, <2>9
  <1> QED
    BY <1>1, CodecInvariant, PTL
=============================================================================
