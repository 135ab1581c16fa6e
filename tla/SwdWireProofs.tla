--------------------------- MODULE SwdWireProofs ---------------------------
(***************************************************************************)
(* The invariants of the wire, for every word length, length of a reset    *)
(* and of the idle time, every set of words and of transactions: the two   *)
(* sides are in step in every cycle of a transaction, or the target is off *)
(* and the programmer finds out.                                           *)
(***************************************************************************)
EXTENDS SwdWire, FiniteSetTheorems, SequenceTheorems, TLAPS

USE SizesAssumption, WireTimingAssumption, WireWordsAssumption, OpsAssumption

-----------------------------------------------------------------------------
(* The inductive invariant: the types, and one condition for each part of  *)
(* a transaction, which says where in its own protocol the target is.      *)
Parts == {"parked", "connect", "header", "turn", "ack", "read", "release", "data",
          "turnaround", "eat", "idle"}
TargetParts == {"off", "reset", "listen", "header", "turn", "ack", "send", "turnaround",
                "receive", "release"}

TypeOK ==
    /\ op \in Op /\ at \in Parts /\ n \in Nat
    /\ swdcode \in Seq(Bit) /\ got \in Seq(Bit)
    /\ tat \in TargetParts /\ tn \in Nat /\ ones \in 0 .. ResetOnes - 1
    /\ hdr \in Seq(Bit) /\ answer \in Acks /\ bits \in Seq(Bit)
    /\ did \in {"nothing", "lost", "read", "write", "error"}
    /\ garbled \in 0 .. Noise

Switch == ResetBits + 32        \* the bits before the second reset of a connection
Settle == Switch + ResetBits    \* and those before its idle bits

(* Of the header bits h, k are those of s after its first two, or are 1s.  *)
Taken(h, s, k)  == Len(h) = k /\ \A i \in 1 .. k : h[i] = s[i + 2]
TakenOnes(h, k) == Len(h) = k /\ \A i \in 1 .. k : h[i] = 1
Request      == Taken(hdr, Header(op), 7)

(* What was read or received, s, is what was sent, t, but for one bit, and *)
(* that one only if noise has struck.                                      *)
Near(s, t, g) ==
    /\ g = 0 => \A i \in 1 .. Len(s) : s[i] = t[i]
    /\ \A i, j \in 1 .. Len(s) : s[i] # t[i] /\ s[j] # t[j] => i = j

WithParity(w) == Append(w, Parity(w))

(* What is known of the target.                                            *)
Off  == tat = "off"
Lost == tat = "off" /\ did = "lost"
Fresh == did \in {"nothing", "lost"}

(* The data phase of a read: a word and its parity; of a write: nothing    *)
(* yet.                                                                    *)
Sends == Len(bits) = WordBits + 1 /\ \E w \in Words : bits = WithParity(w)
Sending == IF op.read = 1 THEN Sends ELSE bits = <<>>

(* A connection.  Noise or a power loss may have left the target anywhere, *)
(* so the first reset and the switch are only known to leave it off or     *)
(* waiting; the second reset brings it back, unless it lost power.         *)
InConnect ==
    /\ op.connect /\ n < Settle + IdleBits /\ swdcode = <<>> /\ got = <<>> /\ Fresh
    /\ n \in ResetBits + 1 .. ResetBits + 16 => ones <= n - ResetBits - 1
    /\ n \in ResetBits + 17 .. Switch \/ n > Settle => ones = 0
    /\ \/ Off
       \/ tat = "listen" /\ (n = 0 \/ n = ResetBits + 1 \/ n > Settle)
       \/ tat = "reset"  /\ (n \in 1 .. ResetBits \/ n \in Switch + 1 .. Settle)
       \/ tat = "header" /\ n \in 1 .. 7 /\ TakenOnes(hdr, n - 1)
       \/ tat = "header" /\ n \in ResetBits + 2 .. ResetBits + 8
                         /\ Taken(hdr, JtagToSwd, n - ResetBits - 2)
    /\ Off /\ n >= Switch => Lost \/ (ones = n - Switch /\ n <= Settle)

(* The target takes the header of the request, from its start bit on.      *)
InHeader ==
    /\ n \in 0 .. 8 /\ swdcode = <<>> /\ got = <<>> /\ Fresh
    /\ n >= 1 => ones < n
    /\ n = 8 => ones = 0
    /\ \/ Off
       \/ tat = "listen" /\ n \in {0, 1}
       \/ tat = "header" /\ n \in 2 .. 8 /\ Taken(hdr, Header(op), n - 2)
    /\ op.connect /\ n = 0 => Lost \/ tat = "listen"

InTurn ==
    /\ n = 0 /\ swdcode = <<>> /\ got = <<>> /\ ones <= 1 /\ Fresh
    /\ Off \/ (tat = "turn" /\ Request)

(* The ack that is read is near the one given or, if the target is off,    *)
(* near the line at rest.                                                  *)
InAck ==
    /\ n \in 0 .. 2 /\ Len(swdcode) = n /\ got = <<>> /\ ones <= n + 2 /\ Fresh
    /\ \/ Lost
       \/ Off /\ Near(swdcode, <<1, 1, 1>>, garbled)
       \/ /\ tat = "ack" /\ tn = n /\ Request /\ Sending
          /\ Near(swdcode, answer, garbled)

(* The two count the bits of the data together.                            *)
InRead ==
    /\ op.read = 1 /\ swdcode = SWD_OK /\ n \in 0 .. WordBits /\ Len(got) = n /\ ones <= n + 5
    /\ \/ Lost
       \/ tat = "send" /\ tn = n /\ did = "read" /\ Request /\ Sends /\ Near(got, bits, garbled)

InRelease ==
    /\ n = 0 /\ swdcode \in Acks /\ got = <<>> /\ (swdcode = SWD_OK => op.read = 0) /\ ones <= 5
    /\ \/ Lost
       \/ /\ swdcode = SWD_OK /\ tat = "turnaround" /\ Fresh /\ Request /\ bits = <<>>
       \/ swdcode # SWD_OK /\ tat = "release" /\ Fresh

InData ==
    /\ op.read = 0 /\ swdcode = SWD_OK /\ n \in 0 .. WordBits /\ ones <= n + 6
    /\ \/ Lost
       \/ /\ tat = "receive" /\ tn = n /\ Len(bits) = n /\ Fresh /\ Request
          /\ Near(bits, WithParity(op.data), garbled)

(* The word read is the word sent, or its parity was wrong.                *)
ReadDone == did = "read" /\ Request /\ (swdcode = SWD_OK => got = bits)

InTurnaround ==
    /\ n = 0 /\ op.read = 1 /\ swdcode \in {SWD_OK, SWD_FAIL} /\ ones <= WordBits + 6
    /\ \/ Lost
       \/ tat = "release" /\ ReadDone

(* The target is anywhere in the data phase, or past it: then it takes the *)
(* line at rest for a header, of 1s, and turns off.                        *)
InEat ==
    /\ Len(swdcode) = 3 /\ swdcode \notin Acks /\ n \in 0 .. WordBits /\ ones <= n + 5
    /\ \/ Off
       \/ tat = "send" /\ tn = n /\ Sends
       \/ tat = "turnaround" /\ n = 0 /\ bits = <<>>
       \/ tat = "receive" /\ n >= 1 /\ tn = n - 1 /\ Len(bits) = tn
       \/ tat = "release" /\ n = 0
       \/ tat = "listen" /\ n = 1
       \/ tat = "header" /\ n \in 2 .. 8 /\ TakenOnes(hdr, n - 2)

(* The word taken is the word sent, or its parity was wrong.               *)
WriteDone ==
    Request /\ \/ did = "write" /\ SubSeq(bits, 1, WordBits) = op.data
               \/ did = "error"

(* What the code returned says of the transaction.                         *)
Outcome ==
    \/ swdcode = SWD_OK /\ (did = "lost" \/ IF op.read = 1 THEN ReadDone ELSE WriteDone)
    \/ swdcode = SWD_WAIT /\ Fresh
    \/ swdcode = SWD_FAIL /\ (op.read = 1 \/ Fresh)
    \/ swdcode \notin Acks

(* The idle bits end whatever the target was still waiting for.            *)
InIdle ==
    /\ n \in 0 .. IdleBits - 1 /\ ones <= WordBits + 7 /\ (n >= 1 => ones = 0)
    /\ Outcome
    /\ \/ Off \/ tat = "listen"
       \/ n = 0 /\ tat = "release" /\ swdcode \notin Acks
       \/ /\ n = 0 /\ tat = "receive" /\ tn = WordBits /\ Len(bits) = tn
          /\ swdcode \notin Acks

Parked == tat \in {"off", "listen"} /\ n = 0 /\ Outcome

Inv ==
    /\ TypeOK
    /\ at = "parked"     => Parked
    /\ at = "connect"    => InConnect
    /\ at = "header"     => InHeader
    /\ at = "turn"       => InTurn
    /\ at = "ack"        => InAck
    /\ at = "read"       => InRead
    /\ at = "release"    => InRelease
    /\ at = "data"       => InData
    /\ at = "turnaround" => InTurnaround
    /\ at = "eat"        => InEat
    /\ at = "idle"       => InIdle

-----------------------------------------------------------------------------
(* Words and their parity.                                                 *)

(* The 1s of a sequence are finitely many.                                 *)
LEMMA OnesOf ==
    ASSUME NEW s \in Seq(Bit)
    PROVE  IsFiniteSet({i \in DOMAIN s : s[i] = 1})
  <1>1. DOMAIN s = 1 .. Len(s) /\ Len(s) \in Nat
    BY LenProperties
  <1>2. IsFiniteSet(1 .. Len(s))
    BY <1>1, FS_Interval
  <1> QED
    BY <1>1, <1>2, FS_Subset

(* The parity of a sequence is a bit.                                      *)
LEMMA ParityType == \A s \in Seq(Bit) : Parity(s) \in Bit
  <1>1. ASSUME NEW s \in Seq(Bit)
        PROVE  Parity(s) \in Bit
    <2>1. Cardinality({i \in DOMAIN s : s[i] = 1}) \in Nat
      BY OnesOf, FS_CardinalityType
    <2>2. \A c \in Nat : c % 2 \in {0, 1}
      OBVIOUS
    <2> QED
      BY <2>1, <2>2 DEF Parity, Bit
  <1> QED
    BY <1>1

(* One bit more that is a 1 turns the parity.                              *)
LEMMA ParityOneMore ==
    ASSUME NEW s \in Seq(Bit), NEW t \in Seq(Bit), NEW k \in 1 .. Len(s),
           Len(s) = Len(t), s[k] = 0, t[k] = 1,
           \A i \in 1 .. Len(s) : i # k => s[i] = t[i]
    PROVE  Parity(s) # Parity(t)
  <1> DEFINE S == {i \in DOMAIN s : s[i] = 1}
             T == {i \in DOMAIN t : t[i] = 1}
  <1>1. DOMAIN s = 1 .. Len(s) /\ DOMAIN t = 1 .. Len(s)
    BY LenProperties
  <1>2. T = S \cup {k} /\ k \notin S
    BY <1>1
  <1>3. IsFiniteSet(S) /\ Cardinality(S) \in Nat
    BY OnesOf, FS_CardinalityType
  <1>4. Cardinality(T) = Cardinality(S) + 1
    <2> HIDE DEF S
    <2>1. Cardinality(S \cup {k}) = Cardinality(S) + 1
      BY <1>2, <1>3, FS_AddElement
    <2> QED
      BY <1>2, <2>1
  <1>5. \A c \in Nat : c % 2 # (c + 1) % 2
    OBVIOUS
  <1> QED
    BY <1>3, <1>4, <1>5 DEF Parity

(* Two words that differ in one bit have different parities.               *)
LEMMA ParityFlip ==
    ASSUME NEW s \in Seq(Bit), NEW t \in Seq(Bit), NEW k \in 1 .. Len(s),
           Len(s) = Len(t), s[k] # t[k],
           \A i \in 1 .. Len(s) : i # k => s[i] = t[i]
    PROVE  Parity(s) # Parity(t)
  <1>1. s[k] \in Bit /\ t[k] \in Bit
    BY ElementOfSeq
  <1>2. CASE s[k] = 0
    BY <1>1, <1>2, ParityOneMore DEF Bit
  <1>3. CASE s[k] = 1
    BY <1>1, <1>3, ParityOneMore DEF Bit
  <1> QED
    BY <1>1, <1>2, <1>3 DEF Bit

(* A word followed by its parity.                                          *)
LEMMA WithParityBits ==
    ASSUME NEW w \in Words
    PROVE  /\ w \in Seq(Bit) /\ Len(w) = WordBits
           /\ WithParity(w) \in Seq(Bit) /\ Len(WithParity(w)) = WordBits + 1
           /\ \A i \in 1 .. WordBits : WithParity(w)[i] = w[i]
           /\ WithParity(w)[WordBits + 1] = Parity(w)
  <1>1. w \in [1 .. WordBits -> Bit]
    OBVIOUS
  <1>2. w \in Seq(Bit) /\ Len(w) = WordBits
    BY <1>1
  <1>3. Parity(w) \in Bit
    BY <1>2, ParityType
  <1> QED
    BY <1>2, <1>3, AppendProperties DEF WithParity

(* The first bits of a sequence of the length of a word with its parity.   *)
LEMMA WordOf ==
    ASSUME NEW s \in Seq(Bit), Len(s) = WordBits + 1
    PROVE  /\ SubSeq(s, 1, WordBits) \in Seq(Bit)
           /\ Len(SubSeq(s, 1, WordBits)) = WordBits
           /\ \A i \in 1 .. WordBits : SubSeq(s, 1, WordBits)[i] = s[i]
  <1>1. \A i \in 1 .. WordBits : s[i] \in Bit
    BY ElementOfSeq
  <1> QED
    BY <1>1, SubSeqProperties

(* The first bits of a word with its parity are the word.                  *)
LEMMA WordOfWithParity ==
    ASSUME NEW w \in Words
    PROVE  SubSeq(WithParity(w), 1, WordBits) = w
  BY WithParityBits, WordOf, SeqEqual

(* The parity check finds a single garbled bit: what passes it is what was *)
(* sent.                                                                   *)
LEMMA ParityCatches ==
    ASSUME NEW w \in Words, NEW s \in Seq(Bit), Len(s) = WordBits + 1, NEW g,
           Near(s, WithParity(w), g),
           Parity(SubSeq(s, 1, WordBits)) = s[WordBits + 1]
    PROVE  s = WithParity(w)
  <1> DEFINE u == SubSeq(s, 1, WordBits)
             t == WithParity(w)
  <1>1. /\ u \in Seq(Bit) /\ Len(u) = WordBits /\ \A i \in 1 .. WordBits : u[i] = s[i]
        /\ w \in Seq(Bit) /\ Len(w) = WordBits /\ t \in Seq(Bit) /\ Len(t) = WordBits + 1
        /\ \A i \in 1 .. WordBits : t[i] = w[i]
        /\ t[WordBits + 1] = Parity(w)
    BY WordOf, WithParityBits
  <1>2. \A i, j \in 1 .. WordBits + 1 : s[i] # t[i] /\ s[j] # t[j] => i = j
    BY DEF Near
  <1>3. ASSUME NEW k \in 1 .. WordBits, s[k] # t[k]
        PROVE  FALSE
    <2>1. \A i \in 1 .. WordBits : i # k => u[i] = w[i]
      BY <1>1, <1>2, <1>3
    <2>2. u[k] # w[k]
      BY <1>1, <1>3
    <2>3. Parity(u) # Parity(w)
      BY <1>1, <2>1, <2>2, ParityFlip
    <2>4. s[WordBits + 1] = t[WordBits + 1]
      BY <1>2, <1>3
    <2> QED
      BY <1>1, <2>3, <2>4
  <1>4. u = w
    BY <1>1, <1>3, SeqEqual
  <1>5. \A i \in 1 .. WordBits + 1 : s[i] = t[i]
    <2>1. s[WordBits + 1] = t[WordBits + 1]
      BY <1>1, <1>4
    <2>2. \A i \in 1 .. WordBits + 1 : i \in 1 .. WordBits \/ i = WordBits + 1
      OBVIOUS
    <2> QED
      BY <1>3, <2>1, <2>2
  <1> QED
    BY <1>1, <1>5, SeqEqual

(* No bits at all are as they should be.                                   *)
LEMMA NearEmpty ==
    ASSUME NEW s, NEW t, NEW g, Len(s) = 0
    PROVE  Near(s, t, g)
  <1>1. 1 .. Len(s) = {}
    OBVIOUS
  <1> QED
    BY <1>1 DEF Near

(* One more bit, at the cost of the noise if it is not the one sent.       *)
LEMMA NearStep ==
    ASSUME NEW s \in Seq(Bit), NEW t, NEW g \in 0 .. Noise, NEW b \in Bit,
           Near(s, t, g),
           NEW h \in 0 .. Noise, h = IF b # t[Len(s) + 1] THEN g + 1 ELSE g
    PROVE  Near(Append(s, b), t, h)
  <1>1. /\ Len(s) \in Nat /\ Len(Append(s, b)) = Len(s) + 1
        /\ \A i \in 1 .. Len(s) : Append(s, b)[i] = s[i]
        /\ Append(s, b)[Len(s) + 1] = b
    BY AppendProperties
  <1> QED
    BY <1>1 DEF Near

(* The three acks are two bits apart from each other and from the line at  *)
(* rest.                                                                   *)
LEMMA AcksApart ==
    ASSUME NEW s \in Acks, NEW g
    PROVE  /\ \A t \in Acks : Near(s, t, g) => s = t
           /\ ~Near(s, <<1, 1, 1>>, g)
  <1>1. /\ SWD_OK[1] = 1   /\ SWD_OK[2] = 0   /\ SWD_OK[3] = 0   /\ Len(SWD_OK) = 3
        /\ SWD_WAIT[1] = 0 /\ SWD_WAIT[2] = 1 /\ SWD_WAIT[3] = 0 /\ Len(SWD_WAIT) = 3
        /\ SWD_FAIL[1] = 0 /\ SWD_FAIL[2] = 0 /\ SWD_FAIL[3] = 1 /\ Len(SWD_FAIL) = 3
    BY DEF SWD_OK, SWD_WAIT, SWD_FAIL
  <1>2. Len(s) = 3
    BY <1>1 DEF Acks
  <1>3. ASSUME NEW t, Near(s, t, g)
        PROVE  \/ s[1] = t[1] /\ s[2] = t[2]
               \/ s[1] = t[1] /\ s[3] = t[3]
               \/ s[2] = t[2] /\ s[3] = t[3]
    BY <1>2, <1>3 DEF Near
  <1>4. \A t \in Acks : Near(s, t, g) => s = t
    BY <1>1, <1>3 DEF Acks
  <1>5. ~Near(s, <<1, 1, 1>>, g)
    <2> DEFINE rest == <<1, 1, 1>>
    <2>1. rest[1] = 1 /\ rest[2] = 1 /\ rest[3] = 1
      OBVIOUS
    <2> HIDE DEF rest
    <2>2. ~Near(s, rest, g)
      BY <1>1, <1>3, <2>1 DEF Acks
    <2> QED
      BY <2>2 DEF rest
  <1> QED
    BY <1>4, <1>5

-----------------------------------------------------------------------------
(* What the programmer writes, bit by bit.                                 *)

(* A concatenation, with the bits of the second part counted from its      *)
(* start.                                                                  *)
LEMMA ConcatBits ==
    ASSUME NEW s \in Seq(Bit), NEW t \in Seq(Bit)
    PROVE  /\ s \o t \in Seq(Bit) /\ Len(s \o t) = Len(s) + Len(t)
           /\ \A i \in 1 .. Len(s) : (s \o t)[i] = s[i]
           /\ \A i \in 1 .. Len(t) : (s \o t)[Len(s) + i] = t[i]
  <1>1. Len(s) \in Nat /\ Len(t) \in Nat
    BY LenProperties
  <1>2. /\ s \o t \in Seq(Bit) /\ Len(s \o t) = Len(s) + Len(t)
        /\ \A i \in 1 .. Len(s) + Len(t) :
              (s \o t)[i] = IF i <= Len(s) THEN s[i] ELSE t[i - Len(s)]
    BY ConcatProperties
  <1>3. ASSUME NEW i \in 1 .. Len(t)
        PROVE  (s \o t)[Len(s) + i] = t[i]
    <2>1. /\ Len(s) + i \in 1 .. Len(s) + Len(t) /\ ~(Len(s) + i <= Len(s))
          /\ (Len(s) + i) - Len(s) = i
      BY <1>1
    <2> QED
      BY <1>2, <2>1
  <1>4. ASSUME NEW i \in 1 .. Len(s)
        PROVE  (s \o t)[i] = s[i]
    BY <1>1, <1>2
  <1> QED
    BY <1>2, <1>3, <1>4

(* The word that switches from JTAG: sixteen bits and sixteen zeros.       *)
LEMMA SwitchBits ==
    /\ JtagToSwd \in Seq(Bit) /\ Len(JtagToSwd) = 32
    /\ JtagToSwd[1] = 0 /\ JtagToSwd[2] = 1 /\ JtagToSwd[3] = 1 /\ JtagToSwd[4] = 1
    /\ JtagToSwd[5] = 1 /\ JtagToSwd[6] = 0 /\ JtagToSwd[7] = 0 /\ JtagToSwd[8] = 1
    /\ JtagToSwd[9] = 1
    /\ \A i \in 17 .. 32 : JtagToSwd[i] = 0
  <1> DEFINE code == <<0,1,1,1, 1,0,0,1, 1,1,1,0, 0,1,1,1>>
  <1>1. /\ code \in Seq(Bit) /\ Len(code) = 16
        /\ code[1] = 0 /\ code[2] = 1 /\ code[3] = 1 /\ code[4] = 1
        /\ code[5] = 1 /\ code[6] = 0 /\ code[7] = 0 /\ code[8] = 1 /\ code[9] = 1
    BY DEF Bit
  <1>2. /\ Zeros(16) \in Seq(Bit) /\ Len(Zeros(16)) = 16
        /\ \A i \in 1 .. 16 : Zeros(16)[i] = 0
    BY DEF Zeros, Bit
  <1>3. JtagToSwd = code \o Zeros(16)
    BY DEF JtagToSwd
  <1> DEFINE zeros == Zeros(16)
  <1> HIDE DEF code, zeros
  <1>4. /\ JtagToSwd \in Seq(Bit) /\ Len(JtagToSwd) = 32
        /\ \A i \in 1 .. 16 : JtagToSwd[i] = code[i]
        /\ \A i \in 1 .. 16 : JtagToSwd[16 + i] = 0
    <2>1. zeros \in Seq(Bit) /\ Len(zeros) = 16 /\ \A i \in 1 .. 16 : zeros[i] = 0
      BY <1>2 DEF zeros
    <2>2. /\ code \o zeros \in Seq(Bit) /\ Len(code \o zeros) = Len(code) + Len(zeros)
          /\ \A i \in 1 .. Len(code) : (code \o zeros)[i] = code[i]
          /\ \A i \in 1 .. Len(zeros) : (code \o zeros)[Len(code) + i] = zeros[i]
      BY <1>1, <2>1, ConcatBits
    <2>3. JtagToSwd = code \o zeros
      BY <1>3 DEF zeros
    <2>4. /\ JtagToSwd \in Seq(Bit) /\ Len(JtagToSwd) = Len(code) + Len(zeros)
          /\ \A i \in 1 .. Len(code) : JtagToSwd[i] = code[i]
          /\ \A i \in 1 .. Len(zeros) : JtagToSwd[Len(code) + i] = zeros[i]
      BY <2>2, <2>3, Zenon
    <2> QED
      BY <1>1, <2>1, <2>4
  <1>5. ASSUME NEW i \in 17 .. 32
        PROVE  JtagToSwd[i] = 0
    <2>1. i - 16 \in 1 .. 16 /\ 16 + (i - 16) = i
      OBVIOUS
    <2> QED
      BY <1>4, <2>1
  <1> QED
    BY <1>1, <1>4, <1>5

(* A run of equal bits.                                                    *)
LEMMA RunBits ==
    ASSUME NEW k \in Nat
    PROVE  /\ Ones(k) \in Seq(Bit)  /\ Len(Ones(k)) = k  /\ \A i \in 1 .. k : Ones(k)[i] = 1
           /\ Zeros(k) \in Seq(Bit) /\ Len(Zeros(k)) = k /\ \A i \in 1 .. k : Zeros(k)[i] = 0
  BY DEF Ones, Zeros, Bit

(* A connection: a line reset, the switch, a line reset, idle bits.        *)
LEMMA ConnectionBits ==
    /\ ConnectBits \in Seq(Bit) /\ Len(ConnectBits) = Settle + IdleBits
    /\ \A i \in 1 .. ResetBits : ConnectBits[i] = 1
    /\ \A i \in 1 .. 32 : ConnectBits[ResetBits + i] = JtagToSwd[i]
    /\ \A i \in Switch + 1 .. Settle : ConnectBits[i] = 1
    /\ \A i \in Settle + 1 .. Settle + IdleBits : ConnectBits[i] = 0
  <1> DEFINE a == Ones(ResetBits)
             b == Zeros(IdleBits)
             c == JtagToSwd
  <1>1. /\ a \in Seq(Bit) /\ Len(a) = ResetBits /\ \A i \in 1 .. ResetBits : a[i] = 1
        /\ b \in Seq(Bit) /\ Len(b) = IdleBits  /\ \A i \in 1 .. IdleBits : b[i] = 0
        /\ c \in Seq(Bit) /\ Len(c) = 32
    BY RunBits, SwitchBits
  <1>2. ConnectBits = ((a \o c) \o a) \o b /\ JtagToSwd = c
    BY DEF ConnectBits
  <1> HIDE DEF a, b, c
  <1>3. /\ a \o c \in Seq(Bit) /\ Len(a \o c) = ResetBits + 32
        /\ \A i \in 1 .. ResetBits : (a \o c)[i] = 1
        /\ \A i \in 1 .. 32 : (a \o c)[ResetBits + i] = c[i]
    <2>1. /\ a \o c \in Seq(Bit) /\ Len(a \o c) = Len(a) + Len(c)
          /\ \A i \in 1 .. Len(a) : (a \o c)[i] = a[i]
          /\ \A i \in 1 .. Len(c) : (a \o c)[Len(a) + i] = c[i]
      BY <1>1, ConcatBits
    <2> QED
      BY <1>1, <2>1
  <1> DEFINE d == a \o c
             e == d \o a
  <1> HIDE DEF d
  <1>4. /\ e \in Seq(Bit) /\ Len(e) = Len(d) + ResetBits
        /\ \A i \in 1 .. Len(d) : e[i] = d[i]
        /\ \A i \in 1 .. ResetBits : e[Len(d) + i] = 1
    <2>1. /\ e \in Seq(Bit) /\ Len(e) = Len(d) + Len(a)
          /\ \A i \in 1 .. Len(d) : (e)[i] = d[i]
          /\ \A i \in 1 .. Len(a) : (e)[Len(d) + i] = a[i]
      BY <1>1, <1>3, ConcatBits DEF d
    <2> HIDE DEF e
    <2> QED
      BY <1>1, <2>1
  <1>5. ConnectBits = e \o b
    BY <1>2 DEF d
  <1> HIDE DEF e
  <1>6. /\ ConnectBits \in Seq(Bit) /\ Len(ConnectBits) = Len(e) + IdleBits
        /\ \A i \in 1 .. Len(e) : ConnectBits[i] = e[i]
        /\ \A i \in 1 .. IdleBits : ConnectBits[Len(e) + i] = 0
    <2>1. /\ e \o b \in Seq(Bit) /\ Len(e \o b) = Len(e) + Len(b)
          /\ \A i \in 1 .. Len(e) : (e \o b)[i] = e[i]
          /\ \A i \in 1 .. Len(b) : (e \o b)[Len(e) + i] = b[i]
      BY <1>1, <1>4, ConcatBits
    <2>2. /\ ConnectBits \in Seq(Bit) /\ Len(ConnectBits) = Len(e) + Len(b)
          /\ \A i \in 1 .. Len(e) : ConnectBits[i] = e[i]
          /\ \A i \in 1 .. Len(b) : ConnectBits[Len(e) + i] = b[i]
      BY <1>5, <2>1, Zenon
    <2> QED
      BY <1>1, <2>2
  <1>7. /\ Len(d) = ResetBits + 32 /\ Len(d) = Switch /\ Len(e) = Settle
        /\ Len(e) = Switch + ResetBits /\ Switch \in Nat /\ Settle \in Nat
    BY <1>3, <1>4 DEF d, Switch, Settle
  <1>8. ASSUME NEW i \in 1 .. ResetBits
        PROVE  ConnectBits[i] = 1
    <2>1. i \in 1 .. Len(d) /\ i \in 1 .. Len(e)
      BY <1>7
    <2>2. d[i] = 1
      BY <1>3 DEF d
    <2> QED
      BY <1>4, <1>6, <2>1, <2>2
  <1>9. ASSUME NEW i \in 1 .. 32
        PROVE  ConnectBits[ResetBits + i] = JtagToSwd[i]
    <2>1. ResetBits + i \in 1 .. Len(d) /\ ResetBits + i \in 1 .. Len(e)
      BY <1>7
    <2> QED
      BY <1>2, <1>3, <1>4, <1>6, <2>1 DEF d
  <1>10. ASSUME NEW i \in Switch + 1 .. Settle
         PROVE  ConnectBits[i] = 1
    <2>1. i - Switch \in 1 .. ResetBits /\ Switch + (i - Switch) = i /\ i \in 1 .. Len(e)
      BY <1>7
    <2> QED
      BY <1>4, <1>6, <1>7, <2>1
  <1>11. ASSUME NEW i \in Settle + 1 .. Settle + IdleBits
         PROVE  ConnectBits[i] = 0
    <2>1. i - Settle \in 1 .. IdleBits /\ Settle + (i - Settle) = i
      BY <1>7
    <2> QED
      BY <1>6, <1>7, <2>1
  <1> QED
    BY <1>6, <1>7, <1>8, <1>9, <1>10, <1>11

(* A request: start bit, four bits and their parity, stop and park bit.    *)
LEMMA HeaderBits ==
    ASSUME NEW o \in Op
    PROVE  LET request == <<o.APnDP, o.read, o.address[1], o.address[2]>>
               h == Header(o)
           IN  /\ request \in Seq(Bit) /\ h \in Seq(Bit) /\ Len(h) = 9
               /\ h[1] = 0 /\ h[2] = 1
               /\ h[3] = o.APnDP /\ h[4] = o.read
               /\ h[5] = o.address[1] /\ h[6] = o.address[2]
               /\ h[7] = Parity(request) /\ h[8] = 0 /\ h[9] = 1
  <1> DEFINE a == o.APnDP
             r == o.read
             x == o.address[1]
             y == o.address[2]
  <1>1. a \in Bit /\ r \in Bit /\ x \in Bit /\ y \in Bit
    <2>1. CASE o \in [connect : {FALSE}, APnDP : Bit, read : Bit, address : Bit \X Bit,
                       data : Words]
      BY <2>1
    <2>2. CASE o \in [connect : {TRUE}, APnDP : {0}, read : {1}, address : {<<0, 0>>},
                       data : Words]
      BY <2>2 DEF Bit
    <2> QED
      BY <2>1, <2>2 DEF Op
  <1> HIDE DEF a, r, x, y
  <1> DEFINE request == <<a, r, x, y>>
             p == Parity(request)
  <1>2. /\ request \in Seq(Bit) /\ Len(request) = 4
        /\ request[1] = a /\ request[2] = r /\ request[3] = x /\ request[4] = y
    BY <1>1
  <1>3. p \in Bit
    BY <1>2, ParityType
  <1>4. Header(o) = (<<0, 1>> \o request) \o <<p, 0, 1>>
    BY DEF Header, a, r, x, y
  <1> HIDE DEF p, request
  <1> DEFINE start == <<0, 1>> \o request
  <1>5. /\ start \in Seq(Bit) /\ Len(start) = 6
        /\ start[1] = 0 /\ start[2] = 1 /\ start[3] = a /\ start[4] = r
        /\ start[5] = x /\ start[6] = y
    <2> DEFINE two == <<0, 1>>
    <2>1. two \in Seq(Bit) /\ Len(two) = 2 /\ two[1] = 0 /\ two[2] = 1
      BY DEF Bit
    <2> HIDE DEF two
    <2>2. /\ two \o request \in Seq(Bit) /\ Len(two \o request) = 6
          /\ \A i \in 1 .. 2 : (two \o request)[i] = two[i]
          /\ \A i \in 1 .. 4 : (two \o request)[2 + i] = request[i]
      <3>1. /\ two \o request \in Seq(Bit) /\ Len(two \o request) = Len(two) + Len(request)
            /\ \A i \in 1 .. Len(two) : (two \o request)[i] = two[i]
            /\ \A i \in 1 .. Len(request) : (two \o request)[Len(two) + i] = request[i]
        BY <1>2, <2>1, ConcatBits
      <3> QED
        BY <1>2, <2>1, <3>1
    <2>3. (two \o request)[2 + 1] = a /\ (two \o request)[2 + 2] = r
          /\ (two \o request)[2 + 3] = x /\ (two \o request)[2 + 4] = y
      BY <1>2, <2>2
    <2> QED
      BY <2>1, <2>2, <2>3 DEF two
  <1> HIDE DEF start
  <1>6. /\ Header(o) \in Seq(Bit) /\ Len(Header(o)) = 9
        /\ \A i \in 1 .. 6 : Header(o)[i] = start[i]
        /\ Header(o)[7] = p /\ Header(o)[8] = 0 /\ Header(o)[9] = 1
    <2> DEFINE end == <<p, 0, 1>>
    <2>1. end \in Seq(Bit) /\ Len(end) = 3 /\ end[1] = p /\ end[2] = 0 /\ end[3] = 1
      BY <1>3 DEF Bit
    <2> HIDE DEF end
    <2>2. /\ start \o end \in Seq(Bit) /\ Len(start \o end) = 9
          /\ \A i \in 1 .. 6 : (start \o end)[i] = start[i]
          /\ \A i \in 1 .. 3 : (start \o end)[6 + i] = end[i]
      <3>1. /\ start \o end \in Seq(Bit) /\ Len(start \o end) = Len(start) + Len(end)
            /\ \A i \in 1 .. Len(start) : (start \o end)[i] = start[i]
            /\ \A i \in 1 .. Len(end) : (start \o end)[Len(start) + i] = end[i]
        BY <1>5, <2>1, ConcatBits
      <3> QED
        BY <1>5, <2>1, <3>1
    <2>3. (start \o end)[6 + 1] = p /\ (start \o end)[6 + 2] = 0 /\ (start \o end)[6 + 3] = 1
      BY <2>1, <2>2
    <2>4. Header(o) = start \o end
      BY <1>4 DEF start, end
    <2> HIDE DEF end
    <2>5. /\ Header(o) \in Seq(Bit) /\ Len(Header(o)) = 9
          /\ \A i \in 1 .. 6 : Header(o)[i] = start[i]
          /\ Header(o)[6 + 1] = p /\ Header(o)[6 + 2] = 0 /\ Header(o)[6 + 3] = 1
      BY <2>2, <2>3, <2>4, Zenon
    <2> QED
      BY <2>5
  <1> QED
    BY <1>2, <1>5, <1>6 DEF a, r, x, y, p, request

(* The direction and the data of a transaction.                            *)
LEMMA OpType == TypeOK => op \in Op /\ op.read \in Bit /\ op.data \in Words
  BY DEF TypeOK, Op, Bit

-----------------------------------------------------------------------------
(* A cycle, in general.                                                    *)

(* What the programmer writes are bits.                                    *)
LEMMA WrittenBits ==
    ASSUME TypeOK, Drives, at # "parked"
    PROVE  /\ Written(at, op) \in Seq(Bit)
           /\ Length = Len(Written(at, op))
           /\ Length = CASE at = "connect"    -> Settle + IdleBits
                         [] at = "header"     -> 9
                         [] at = "data"       -> WordBits + 1
                         [] at = "turnaround" -> 1
                         [] at = "idle"       -> IdleBits
  <1>1. op \in Op /\ op.data \in Words /\ at \in Parts
    BY DEF TypeOK, Op
  <1>2. CASE at = "connect"
    BY <1>2, ConnectionBits DEF Written, Length, Drives
  <1>3. CASE at = "header"
    BY <1>1, <1>3, HeaderBits DEF Written, Length, Drives
  <1>4. CASE at = "data"
    BY <1>1, <1>4, WithParityBits DEF Written, Length, Drives, WithParity
  <1>5. CASE at = "turnaround"
    BY <1>5 DEF Written, Length, Drives, Bit
  <1>6. CASE at = "idle"
    BY <1>6, RunBits DEF Written, Length, Drives
  <1> QED
    BY <1>1, <1>2, <1>3, <1>4, <1>5, <1>6 DEF Parts, Drives, Reading

(* What the programmer does with the bit it sees, part by part.            *)
LEMMA HostParts ==
    ASSUME TypeOK, NEW b \in Bit, HostCycle(b), at # "parked"
    PROVE  /\ op' = op
           /\ swdcode' = CASE at = "ack" -> Append(swdcode, b)
                           [] at = "read" /\ n + 1 = Length -> Checked(Append(got, b))
                           [] OTHER -> swdcode
           /\ got' = IF at = "read" THEN Append(got, b) ELSE got
           /\ \/ n + 1 < Length /\ n' = n + 1 /\ at' = at
              \/ n + 1 >= Length /\ n' = 0 /\ at' = After(swdcode')
  <1>1. Length \in Int
    <2>1. CASE Drives
      BY <2>1, WrittenBits, LenProperties
    <2>2. CASE ~Drives
      BY <2>2 DEF Drives, Length, Reading, BitsRead
    <2> QED
      BY <2>1, <2>2
  <1>2. /\ op' = op
        /\ swdcode' = CASE at = "ack" -> Append(swdcode, b)
                        [] at = "read" /\ n + 1 = Length -> Checked(Append(got, b))
                        [] OTHER -> swdcode
        /\ got' = IF at = "read" THEN Append(got, b) ELSE got
        /\ IF n + 1 < Length
              THEN n' = n + 1 /\ at' = at
              ELSE n' = 0 /\ at' = After(swdcode')
    BY DEF HostCycle, ReadAck
  <1>3. n + 1 < Length \/ n + 1 >= Length
    BY <1>1 DEF TypeOK
  <1> QED
    BY <1>2, <1>3

(* The programmer's variables keep their types.                            *)
LEMMA HostType ==
    ASSUME TypeOK, NEW b \in Bit, HostCycle(b), at # "parked"
    PROVE  /\ op' \in Op /\ at' \in Parts /\ n' \in Nat
           /\ swdcode' \in Seq(Bit) /\ got' \in Seq(Bit)
  <1>1. /\ Append(got, b) \in Seq(Bit) /\ Append(swdcode, b) \in Seq(Bit)
        /\ SWD_FAIL \in Seq(Bit)
    BY AppendProperties DEF TypeOK, SWD_FAIL, Bit
  <1>2. Checked(Append(got, b)) \in Seq(Bit)
    BY <1>1 DEF Checked, TypeOK
  <1>3. swdcode' \in Seq(Bit) /\ got' \in Seq(Bit) /\ op' \in Op
    BY <1>1, <1>2, HostParts DEF TypeOK
  <1>4. n' \in Nat
    BY HostParts DEF TypeOK
  <1>5. After(swdcode') \in Parts
    BY DEF TypeOK, Parts, After, AfterAck, Acks
  <1> QED
    BY <1>3, <1>4, <1>5, HostParts DEF TypeOK

(* The target's variables keep their types.                                *)
LEMMA TargetType ==
    ASSUME TypeOK, NEW b \in Bit, TargetCycle(b)
    PROVE  /\ tat' \in TargetParts /\ tn' \in Nat /\ ones' \in 0 .. ResetOnes - 1
           /\ hdr' \in Seq(Bit) /\ answer' \in Acks /\ bits' \in Seq(Bit)
           /\ did' \in {"nothing", "lost", "read", "write", "error"}
  <1>1. ones' \in 0 .. ResetOnes - 1
    <2>1. ones \in 0 .. ResetOnes - 1
      BY DEF TypeOK
    <2>2. ones' = IF TargetDrives \/ b = 0 \/ ones + 1 = ResetOnes THEN 0 ELSE ones + 1
      BY DEF TargetCycle
    <2> QED
      BY <2>1, <2>2
  <1>2. /\ Append(hdr, b) \in Seq(Bit) /\ Append(bits, b) \in Seq(Bit) /\ <<>> \in Seq(Bit)
    BY AppendProperties DEF TypeOK
  <1>3. \A w \in Words : Append(w, Parity(w)) \in Seq(Bit)
    BY WithParityBits DEF WithParity
  <1>4. \A p \in TargetParts : TargetGoes(p) =>
            /\ tat' \in TargetParts /\ tn' \in Nat /\ hdr' \in Seq(Bit) /\ answer' \in Acks
            /\ bits' \in Seq(Bit) /\ did' \in {"nothing", "lost", "read", "write", "error"}
    BY DEF TypeOK, TargetGoes
  <1>5. TargetStays =>
            /\ tat' \in TargetParts /\ tn' \in Nat /\ hdr' \in Seq(Bit) /\ answer' \in Acks
            /\ bits' \in Seq(Bit) /\ did' \in {"nothing", "lost", "read", "write", "error"}
    BY DEF TypeOK, TargetStays
  <1>6. CASE TargetGoes("reset")
    BY <1>1, <1>4, <1>6 DEF TargetParts
  <1>7. CASE TargetListens(b)
    <2>1. CASE TargetGoes("off") \/ TargetGoes("listen") \/ TargetGoes("reset")
      BY <1>1, <1>4, <2>1 DEF TargetParts
    <2>2. CASE /\ tat' = "header" /\ hdr' = <<>> /\ bits' = <<>> /\ tn' = 0
               /\ UNCHANGED <<answer, did>>
      BY <1>1, <1>2, <2>2 DEF TypeOK, TargetParts
    <2> QED
      BY <1>7, <2>1, <2>2 DEF TargetListens
  <1>8. CASE TargetHeader(b)
    BY <1>1, <1>2, <1>8 DEF TargetHeader, TypeOK, TargetParts
  <1>9. CASE TargetTurn
    BY <1>1, <1>2, <1>3, <1>9 DEF TargetTurn, TypeOK, TargetParts
  <1>10. CASE TargetAck
    BY <1>1, <1>4, <1>5, <1>10 DEF TargetAck, TypeOK, TargetParts
  <1>11. CASE TargetData(b)
    <2>1. CASE tat = "receive" /\ bits' = Append(bits, b) /\ UNCHANGED <<hdr, answer>>
      <3>1. /\ tat' \in TargetParts /\ tn' \in Nat
            /\ did' \in {"nothing", "lost", "read", "write", "error"}
        BY <1>11, <2>1 DEF TargetData, TypeOK, TargetParts
      <3> QED
        BY <1>1, <1>2, <2>1, <3>1 DEF TypeOK
    <2>2. CASE tat # "receive"
      <3>1. \/ TargetStays
            \/ TargetGoes("release") \/ TargetGoes("listen") \/ TargetGoes("receive")
        BY <1>11, <2>2 DEF TargetData
      <3> QED
        BY <1>1, <1>4, <1>5, <3>1 DEF TargetParts
    <2> QED
      BY <1>11, <2>1, <2>2 DEF TargetData, TargetGoes, TargetStays
  <1> QED
    BY <1>6, <1>7, <1>8, <1>9, <1>10, <1>11 DEF TargetCycle

(* A clock cycle keeps all types.                                          *)
LEMMA ClockType == TypeOK /\ Clock => TypeOK'
  <1> SUFFICES ASSUME TypeOK, Clock PROVE TypeOK'
    OBVIOUS
  <1>1. PICK seen \in Bit, received \in Bit :
            /\ garbled' = garbled + IF seen # Line \/ received # Line THEN 1 ELSE 0
            /\ garbled' <= Noise
            /\ HostCycle(seen) /\ TargetCycle(received)
    BY DEF Clock
  <1>2. at # "parked" /\ garbled' \in 0 .. Noise
    BY <1>1 DEF TypeOK, Clock
  <1> QED
    BY <1>1, <1>2, HostType, TargetType DEF TypeOK

(* While the programmer drives anything but data, both see what it writes. *)
LEMMA DrivenCycle ==
    ASSUME TypeOK, Clock, at \in {"connect", "header", "turnaround", "idle"}
    PROVE  LET b == Written(at, op)[n + 1]
           IN  b \in Bit /\ HostCycle(b) /\ TargetCycle(b) /\ garbled' = garbled
  <1>1. Line = Written(at, op)[n + 1] /\ at \notin {"ack", "read", "data"}
    BY DEF Line, Drives, Reading
  <1> QED
    BY <1>1 DEF Clock, TypeOK

(* While it waits, both see what the target drives, or a line at rest.     *)
Quiet(b) == IF TargetDrives THEN b = TargetBit ELSE b = 1

LEMMA WaitingCycle ==
    ASSUME TypeOK, Clock, at \in {"turn", "release", "eat"}
    PROVE  \E b \in Bit : Quiet(b) /\ HostCycle(b) /\ TargetCycle(b) /\ garbled' = garbled
  <1>1. ~Drives /\ at \notin {"ack", "read", "data"}
    BY DEF Drives, Reading
  <1>2. Quiet(Line)
    BY <1>1 DEF Line, Quiet
  <1> QED
    BY <1>1, <1>2 DEF Clock, TypeOK

(* While it reads, it may see another bit.                                 *)
LEMMA ReadingCycle ==
    ASSUME TypeOK, Clock, at \in {"ack", "read"}
    PROVE  \E seen, b \in Bit :
               /\ Quiet(b) /\ HostCycle(seen) /\ TargetCycle(b)
               /\ garbled' = IF seen # b THEN garbled + 1 ELSE garbled
               /\ garbled' \in 0 .. Noise
  <1>1. ~Drives /\ at # "data"
    BY DEF Drives, Reading
  <1>2. Quiet(Line)
    BY <1>1 DEF Line, Quiet
  <1>3. PICK seen \in Bit, b \in Bit :
            /\ b # Line => at = "data" /\ tat = "receive"
            /\ garbled' = garbled + IF seen # Line \/ b # Line THEN 1 ELSE 0
            /\ garbled' <= Noise
            /\ HostCycle(seen) /\ TargetCycle(b)
    BY DEF Clock
  <1>4. b = Line
    BY <1>1, <1>3
  <1>5. garbled' \in 0 .. Noise
    BY <1>3 DEF TypeOK
  <1>6. garbled' = IF seen # b THEN garbled + 1 ELSE garbled
    BY <1>3, <1>4 DEF TypeOK
  <1> QED
    BY <1>2, <1>3, <1>4, <1>5, <1>6

(* While it drives data, a target that receives may see another bit.       *)
LEMMA DataCycle ==
    ASSUME TypeOK, Clock, at = "data"
    PROVE  LET b == Written(at, op)[n + 1]
           IN  \E received \in Bit :
               /\ b \in Bit /\ HostCycle(b) /\ TargetCycle(received)
               /\ received # b => tat = "receive"
               /\ garbled' = IF received # b THEN garbled + 1 ELSE garbled
               /\ garbled' \in 0 .. Noise
  <1>1. Line = Written(at, op)[n + 1]
    BY DEF Line, Drives, Reading
  <1>2. PICK seen \in Bit, received \in Bit :
            /\ seen # Line     => at \in {"ack", "read"}
            /\ received # Line => at = "data" /\ tat = "receive"
            /\ garbled' = garbled + IF seen # Line \/ received # Line THEN 1 ELSE 0
            /\ garbled' <= Noise
            /\ HostCycle(seen) /\ TargetCycle(received)
    BY DEF Clock
  <1>3. seen = Line
    BY <1>2
  <1>4. garbled' \in 0 .. Noise
    BY <1>2 DEF TypeOK
  <1>5. garbled' = IF received # Line THEN garbled + 1 ELSE garbled
    BY <1>2, <1>3 DEF TypeOK
  <1> QED
    BY <1>1, <1>2, <1>3, <1>4, <1>5

(* When no line reset is due, the 1s are counted and the target goes on    *)
(* from what it is doing.                                                  *)
LEMMA NoReset ==
    ASSUME TypeOK, NEW b \in Bit, TargetCycle(b), TargetDrives \/ b = 0 \/ ones + 1 # ResetOnes
    PROVE  /\ ones' = IF TargetDrives \/ b = 0 THEN 0 ELSE ones + 1
           /\ \/ tat \in {"off", "reset", "listen"} /\ TargetListens(b)
              \/ TargetHeader(b) \/ TargetTurn \/ TargetAck
              \/ tat \in {"send", "release", "turnaround", "receive"} /\ TargetData(b)
  BY DEF TypeOK, TargetCycle, TargetListens, TargetData, Bit

(* A target that is off stays off.                                         *)
LEMMA OffCycle ==
    ASSUME TypeOK, NEW b \in Bit, TargetCycle(b), Off, b = 0 \/ ones + 1 # ResetOnes
    PROVE  /\ Off' /\ tn' = 0 /\ UNCHANGED <<hdr, answer, bits, did>>
           /\ ones' = IF b = 0 THEN 0 ELSE ones + 1
  BY NoReset DEF Off, TargetDrives, TargetListens, TargetHeader, TargetTurn, TargetAck, TargetGoes

(* One that listens waits for a 1.                                         *)
LEMMA ListenCycle ==
    ASSUME TypeOK, NEW b \in Bit, TargetCycle(b), tat = "listen", b = 0 \/ ones + 1 # ResetOnes
    PROVE  /\ tn' = 0 /\ UNCHANGED <<answer, did>>
           /\ b = 0 => tat' = "listen" /\ UNCHANGED <<hdr, bits>> /\ ones' = 0
           /\ b = 1 => tat' = "header" /\ hdr' = <<>> /\ bits' = <<>> /\ ones' = ones + 1
  BY NoReset DEF TargetDrives, TargetListens, TargetHeader, TargetTurn, TargetAck, TargetGoes, Bit

(* One that takes a header judges it after seven bits.                     *)
LEMMA HeaderCycle ==
    ASSUME TypeOK, NEW b \in Bit, TargetCycle(b), tat = "header", b = 0 \/ ones + 1 # ResetOnes
    PROVE  /\ hdr' = Append(hdr, b) /\ UNCHANGED <<answer, bits, did>>
           /\ ones' = IF b = 0 THEN 0 ELSE ones + 1
           /\ Len(hdr) < 6 => tat' = "header" /\ tn' = tn
           /\ Len(hdr) >= 6 =>
                  /\ tn' = 0
                  /\ tat' = IF /\ hdr'[5] = Parity(SubSeq(hdr', 1, 4))
                               /\ hdr'[6] = 0 /\ hdr'[7] = 1
                              THEN "turn" ELSE "off"
  <1>1. TargetHeader(b) /\ ones' = IF b = 0 THEN 0 ELSE ones + 1
    BY NoReset DEF TargetDrives, TargetTurn, TargetAck
  <1>2. Len(Append(hdr, b)) = Len(hdr) + 1 /\ Len(hdr) \in Nat
    BY AppendProperties, LenProperties DEF TypeOK
  <1> QED
    BY <1>1, <1>2 DEF TargetHeader

-----------------------------------------------------------------------------
(* The steps outside a cycle.                                              *)

(* A transaction begins with the target listening, or off.                 *)
LEMMA BeginStep ==
    ASSUME Inv, NEW o \in Ops, Begin(o)
    PROVE  Inv'
  <1>1. TypeOK /\ at = "parked" /\ Parked
    BY DEF Inv, Begin
  <1>2. o \in Op /\ (o.connect \in BOOLEAN)
    BY DEF Op
  <1>3. TypeOK'
    BY <1>1, <1>2 DEF TypeOK, Begin, Parts
  <1>4. Switch \in Nat /\ Settle \in Nat /\ Switch > ResetBits + 17 /\ Settle > Switch
    BY DEF Switch, Settle
  <1>5. CASE o.connect
    <2>1. at' = "connect" /\ op' = o /\ n' = 0
      BY <1>5 DEF Begin
    <2>2. InConnect'
      BY <1>1, <1>4, <1>5, <2>1 DEF Begin, InConnect, Parked, Off, Fresh
    <2> QED
      BY <1>3, <2>1, <2>2 DEF Inv
  <1>6. CASE ~o.connect
    <2>1. at' = "header" /\ op' = o /\ n' = 0
      BY <1>6 DEF Begin
    <2>2. InHeader'
      BY <1>1, <1>6, <2>1 DEF Begin, InHeader, Parked, Off, Fresh
    <2> QED
      BY <1>3, <2>1, <2>2 DEF Inv
  <1> QED
    BY <1>2, <1>5, <1>6

(* A power loss leaves every part but one: nothing is certain.             *)
LEMMA PowerLossStep == Inv /\ PowerLoss => Inv'
  <1> SUFFICES ASSUME Inv, PowerLoss PROVE Inv'
    OBVIOUS
  <1>1. TypeOK'
    BY DEF Inv, TypeOK, PowerLoss, hostVars, TargetParts
  <1>2. /\ Lost' /\ Off' /\ Fresh' /\ ones' = 0 /\ UNCHANGED <<op, at, n, swdcode, got>>
        /\ Outcome'
    BY DEF PowerLoss, hostVars, Lost, Off, Fresh, Outcome, Inv, TypeOK, Acks
  <1>3. n \in Nat /\ at' = at /\ Switch \in Nat /\ ResetBits \in Nat
    BY <1>2 DEF Inv, TypeOK, Switch
  <1>4. at = "parked" => Parked'
    BY <1>2 DEF Inv, Parked, Off
  <1>5. at = "connect" => InConnect'
    BY <1>2, <1>3 DEF Inv, InConnect
  <1>6. at = "header" => InHeader'
    BY <1>2, <1>3 DEF Inv, InHeader
  <1>7. at = "turn" => InTurn'
    BY <1>2 DEF Inv, InTurn
  <1>8. at = "ack" => InAck'
    BY <1>2 DEF Inv, InAck
  <1>9. at = "read" => InRead'
    BY <1>2 DEF Inv, InRead
  <1>10. at = "release" => InRelease'
    BY <1>2 DEF Inv, InRelease
  <1>11. at = "data" => InData'
    BY <1>2 DEF Inv, InData
  <1>12. at = "turnaround" => InTurnaround'
    BY <1>2 DEF Inv, InTurnaround
  <1>13. at = "eat" => InEat'
    BY <1>2 DEF Inv, InEat
  <1>14. at = "idle" => InIdle'
    BY <1>2 DEF Inv, InIdle
  <1> QED
    BY <1>1, <1>3, <1>4, <1>5, <1>6, <1>7, <1>8, <1>9, <1>10, <1>11, <1>12, <1>13, <1>14
    DEF Inv

-----------------------------------------------------------------------------
(* The cycles of each part.                                                *)

(* The header bits the target has taken, one more.                         *)
LEMMA TakenStep ==
    ASSUME TypeOK, NEW b \in Bit, NEW k \in Nat, NEW s, Taken(hdr, s, k), b = s[k + 3]
    PROVE  Taken(Append(hdr, b), s, k + 1)
  <1>1. /\ Len(Append(hdr, b)) = Len(hdr) + 1
        /\ \A i \in 1 .. Len(hdr) : Append(hdr, b)[i] = hdr[i]
        /\ Append(hdr, b)[Len(hdr) + 1] = b
    BY AppendProperties DEF TypeOK
  <1>2. Len(hdr) = k /\ (k + 1) + 2 = k + 3
    BY DEF Taken
  <1>3. \A i \in 1 .. k + 1 : i \in 1 .. k \/ i = k + 1
    OBVIOUS
  <1>4. \A i \in 1 .. k + 1 : Append(hdr, b)[i] = s[i + 2]
    BY <1>1, <1>2, <1>3 DEF Taken
  <1> QED
    BY <1>1, <1>2, <1>4 DEF Taken

(* The same for header bits that are all 1.                                *)
LEMMA TakenOnesStep ==
    ASSUME TypeOK, NEW k \in Nat, TakenOnes(hdr, k)
    PROVE  TakenOnes(Append(hdr, 1), k + 1)
  <1>1. /\ Len(Append(hdr, 1)) = Len(hdr) + 1
        /\ \A i \in 1 .. Len(hdr) : Append(hdr, 1)[i] = hdr[i]
        /\ Append(hdr, 1)[Len(hdr) + 1] = 1
    BY AppendProperties DEF TypeOK, Bit
  <1> QED
    BY <1>1 DEF TakenOnes

(* What the target makes of the bits of a connection.                      *)
LEMMA ConnectTarget ==
    ASSUME TypeOK, at = "connect", InConnect,
           NEW b, b = ConnectBits[n + 1], b \in Bit, TargetCycle(b)
    PROVE  /\ did' = did
           /\ n + 1 \in ResetBits + 1 .. ResetBits + 16 => ones' <= n - ResetBits
           /\ n + 1 \in ResetBits + 17 .. Switch \/ n + 1 > Settle => ones' = 0
           /\ \/ Off'
              \/ tat' = "listen" /\ (n + 1 = ResetBits + 1 \/ n + 1 > Settle)
              \/ /\ tat' = "reset"
                 /\ n + 1 \in 1 .. ResetBits \/ n + 1 \in Switch + 1 .. Settle
              \/ tat' = "header" /\ n + 1 \in 1 .. 7 /\ TakenOnes(hdr', n)
              \/ tat' = "header" /\ n + 1 \in ResetBits + 2 .. ResetBits + 8
                                 /\ Taken(hdr', JtagToSwd, n - ResetBits - 1)
           /\ Off' /\ n + 1 >= Switch =>
                  Lost' \/ (ones' = n + 1 - Switch /\ n + 1 <= Settle)
  <1>1. /\ n \in Nat /\ n < Settle + IdleBits /\ Switch = ResetBits + 32 /\ Settle = Switch + ResetBits
        /\ ResetBits >= 15 /\ ones \in 0 .. ResetOnes - 1
    BY DEF InConnect, TypeOK, Switch, Settle
  <1>2. /\ n < ResetBits \/ (n >= Switch /\ n < Settle) => b = 1
        /\ n = ResetBits => b = 0
        /\ n >= ResetBits /\ n < ResetBits + 32 => b = JtagToSwd[n - ResetBits + 1]
        /\ n >= ResetBits + 16 /\ n < ResetBits + 32 => b = 0
        /\ n >= Settle => b = 0
    <2>1. n < ResetBits => b = 1
      <3>1. ASSUME n < ResetBits PROVE b = 1
        <4>1. n + 1 \in 1 .. ResetBits
          BY <1>1, <3>1
        <4> QED
          BY <4>1, ConnectionBits
      <3> QED
        BY <3>1
    <2>2. n >= Switch /\ n < Settle => b = 1
      <3>1. ASSUME n >= Switch /\ n < Settle PROVE b = 1
        <4>1. n + 1 \in Switch + 1 .. Settle
          BY <1>1, <3>1
        <4> QED
          BY <4>1, ConnectionBits
      <3> QED
        BY <3>1
    <2>3. n >= Settle => b = 0
      <3>1. ASSUME n >= Settle PROVE b = 0
        <4>1. n + 1 \in Settle + 1 .. Settle + IdleBits
          BY <1>1, <3>1
        <4> QED
          BY <4>1, ConnectionBits
      <3> QED
        BY <3>1
    <2>4. n >= ResetBits /\ n < ResetBits + 32 => b = JtagToSwd[n - ResetBits + 1]
      <3>1. ASSUME n >= ResetBits, n < ResetBits + 32
            PROVE  b = JtagToSwd[n - ResetBits + 1]
        <4>1. n - ResetBits + 1 \in 1 .. 32 /\ ResetBits + (n - ResetBits + 1) = n + 1
          BY <1>1, <3>1
        <4>2. ConnectBits[ResetBits + (n - ResetBits + 1)] = JtagToSwd[n - ResetBits + 1]
          BY <4>1, ConnectionBits
        <4> QED
          BY <4>1, <4>2
      <3> QED
        BY <3>1
    <2>5. n = ResetBits => b = 0
      <3>1. n = ResetBits => n - ResetBits + 1 = 1 /\ n < ResetBits + 32
        BY <1>1
      <3> QED
        BY <2>4, <3>1, SwitchBits
    <2>6. n >= ResetBits + 16 /\ n < ResetBits + 32 => b = 0
      <3>1. ASSUME n >= ResetBits + 16, n < ResetBits + 32
            PROVE  b = 0
        <4>1. n - ResetBits + 1 \in 17 .. 32 /\ n >= ResetBits
          BY <1>1, <3>1
        <4>2. JtagToSwd[n - ResetBits + 1] = 0
          BY <4>1, SwitchBits
        <4> QED
          BY <2>4, <3>1, <4>1, <4>2
      <3> QED
        BY <3>1
    <2> QED
      BY <2>1, <2>2, <2>3, <2>4, <2>5, <2>6
  <1>3. /\ n \in ResetBits + 1 .. ResetBits + 16 => ones <= n - ResetBits - 1
        /\ n \in ResetBits + 17 .. Switch \/ n > Settle => ones = 0
        /\ Off /\ n >= Switch => Lost \/ (ones = n - Switch /\ n <= Settle)
    BY DEF InConnect
  <1>4. CASE b = 1 /\ ones + 1 = ResetOnes
    <2>1. n < ResetBits \/ (n >= Switch /\ n < Settle)
      BY <1>1, <1>2, <1>3, <1>4
    <2>2. ~TargetDrives
      BY DEF InConnect, TargetDrives, Off
    <2>3. tat' = "reset" /\ ones' = 0 /\ did' = did
      BY <1>4, <2>2 DEF TargetCycle, TargetGoes
    <2> QED
      BY <1>1, <2>1, <2>3 DEF Off
  <1>5. CASE b = 0 \/ ones + 1 # ResetOnes
    <2>1. CASE Off
      <3>1. Off' /\ did' = did /\ ones' = IF b = 0 THEN 0 ELSE ones + 1
        BY <1>5, <2>1, OffCycle
      <3>2. n + 1 \in ResetBits + 1 .. ResetBits + 16 => ones' <= n - ResetBits
        BY <1>1, <1>2, <1>3, <3>1
      <3>3. n + 1 \in ResetBits + 17 .. Switch \/ n + 1 > Settle => ones' = 0
        BY <1>1, <1>2, <1>3, <3>1
      <3>4. n + 1 >= Switch => Lost' \/ (ones' = n + 1 - Switch /\ n + 1 <= Settle)
        BY <1>1, <1>2, <1>3, <2>1, <3>1, <3>3 DEF Lost, Off
      <3> QED
        BY <3>1, <3>2, <3>3, <3>4
    <2>2. CASE tat = "listen" /\ (n = 0 \/ n = ResetBits + 1)
      <3>1. b = 1
        BY <1>1, <1>2, <2>2, SwitchBits
      <3>2. tat' = "header" /\ hdr' = <<>> /\ did' = did /\ ones' = ones + 1
        BY <1>5, <2>2, <3>1, ListenCycle
      <3>3. TakenOnes(hdr', 0) /\ Taken(hdr', JtagToSwd, 0)
        BY <3>2 DEF TakenOnes, Taken
      <3>4. n = 0 => TakenOnes(hdr', n) /\ n + 1 \in 1 .. 7
        BY <3>3
      <3>5. n = ResetBits + 1 => n - ResetBits - 1 = 0 /\ n + 1 \in ResetBits + 2 .. ResetBits + 8
        BY <1>1
      <3>6. n = ResetBits + 1 => Taken(hdr', JtagToSwd, n - ResetBits - 1)
        BY <3>3, <3>5
      <3> QED
        BY <1>1, <1>3, <2>2, <3>2, <3>4, <3>5, <3>6 DEF Off
    <2>3. CASE tat = "listen" /\ n > Settle
      <3>1. tat' = "listen" /\ did' = did /\ ones' = 0
        BY <1>1, <1>2, <1>5, <2>3, ListenCycle
      <3> QED
        BY <1>1, <2>3, <3>1 DEF Off
    <2>4. CASE tat = "reset" /\ (n \in 1 .. ResetBits \/ n \in Switch + 1 .. Settle)
      <3>1. /\ tat' = (IF b = 0 THEN "listen" ELSE "reset") /\ did' = did
            /\ ones' = IF b = 0 THEN 0 ELSE ones + 1
        BY <1>5, <2>4, NoReset
        DEF TargetDrives, TargetListens, TargetHeader, TargetTurn, TargetAck, TargetGoes
      <3> QED
        BY <1>1, <1>2, <2>4, <3>1 DEF Off, Bit
    <2>5. CASE tat = "header" /\ n \in 1 .. 7 /\ TakenOnes(hdr, n - 1)
      <3>1. b = 1 /\ Len(hdr) = n - 1
        BY <1>1, <1>2, <2>5 DEF TakenOnes
      <3>2. /\ hdr' = Append(hdr, 1) /\ did' = did
            /\ Len(hdr) < 6 => tat' = "header"
            /\ Len(hdr) >= 6 => tat' = IF /\ hdr'[5] = Parity(SubSeq(hdr', 1, 4))
                                          /\ hdr'[6] = 0 /\ hdr'[7] = 1
                                         THEN "turn" ELSE "off"
        BY <1>5, <2>5, <3>1, HeaderCycle
      <3>3. TakenOnes(hdr', (n - 1) + 1)
        BY <2>5, <3>2, TakenOnesStep
      <3>4. TakenOnes(hdr', n)
        BY <1>1, <3>3
      <3>5. CASE n < 7
        BY <1>1, <2>5, <3>1, <3>2, <3>4, <3>5 DEF Off
      <3>6. CASE n = 7
        <4>1. hdr'[6] = 1
          BY <3>4, <3>6 DEF TakenOnes
        <4>2. tat' = "off"
          BY <3>1, <3>2, <3>6, <4>1
        <4> QED
          BY <1>1, <3>2, <3>6, <4>2 DEF Off
      <3> QED
        BY <1>1, <2>5, <3>5, <3>6
    <2>6. CASE /\ tat = "header" /\ n \in ResetBits + 2 .. ResetBits + 8
               /\ Taken(hdr, JtagToSwd, n - ResetBits - 2)
      <3>1. b = JtagToSwd[n - ResetBits + 1] /\ Len(hdr) = n - ResetBits - 2
        BY <1>1, <1>2, <2>6 DEF Taken
      <3>2. /\ hdr' = Append(hdr, b) /\ did' = did /\ ones' = IF b = 0 THEN 0 ELSE ones + 1
            /\ Len(hdr) < 6 => tat' = "header"
            /\ Len(hdr) >= 6 => tat' = IF /\ hdr'[5] = Parity(SubSeq(hdr', 1, 4))
                                          /\ hdr'[6] = 0 /\ hdr'[7] = 1
                                         THEN "turn" ELSE "off"
        BY <1>5, <2>6, HeaderCycle
      <3>3. /\ (n - ResetBits - 2) \in Nat /\ (n - ResetBits - 2) + 3 = n - ResetBits + 1
            /\ (n - ResetBits - 2) + 1 = n - ResetBits - 1
        BY <1>1, <2>6
      <3>4. Taken(hdr', JtagToSwd, (n - ResetBits - 2) + 1)
        BY <2>6, <3>1, <3>2, <3>3, TakenStep
      <3>5. ones' <= n - ResetBits
        BY <1>1, <1>3, <2>6, <3>2
      <3>6. CASE n < ResetBits + 8
        BY <1>1, <2>6, <3>1, <3>2, <3>3, <3>4, <3>5, <3>6 DEF Off
      <3>7. CASE n = ResetBits + 8
        <4>1. hdr'[6] = JtagToSwd[8]
          <5>1. (n - ResetBits - 2) + 1 = 7
            BY <1>1, <3>7
          <5>2. Taken(hdr', JtagToSwd, 7)
            BY <3>4, <5>1
          <5> QED
            BY <5>2 DEF Taken
        <4>2. JtagToSwd[8] = 1 /\ Len(hdr) >= 6
          BY <1>1, <3>1, <3>7, SwitchBits
        <4>3. tat' = "off"
          BY <3>2, <4>1, <4>2
        <4> QED
          BY <1>1, <3>2, <3>5, <3>7, <4>3 DEF Off
      <3> QED
        BY <1>1, <2>6, <3>6, <3>7
    <2> QED
      BY <2>1, <2>2, <2>3, <2>4, <2>5, <2>6 DEF InConnect
  <1> QED
    BY <1>4, <1>5 DEF Bit

(* A connection ends with the target listening, unless it lost power.      *)
LEMMA ConnectStep == Inv /\ Clock /\ at = "connect" => Inv'
  <1> SUFFICES ASSUME Inv, Clock, at = "connect" PROVE Inv'
    OBVIOUS
  <1> DEFINE b == ConnectBits[n + 1]
  <1>1. TypeOK /\ InConnect /\ TypeOK'
    BY ClockType DEF Inv
  <1>2. b \in Bit /\ HostCycle(b) /\ TargetCycle(b)
    BY <1>1, DrivenCycle DEF Written
  <1>3. Length = Settle + IdleBits
    BY <1>1, WrittenBits DEF Drives, Reading
  <1>4. /\ op' = op /\ swdcode' = <<>> /\ got' = <<>>
        /\ \/ n + 1 < Settle + IdleBits /\ n' = n + 1 /\ at' = "connect"
           \/ n + 1 >= Settle + IdleBits /\ n' = 0 /\ at' = "header"
    BY <1>1, <1>2, <1>3, HostParts DEF InConnect, After
  <1>5. /\ n \in Nat /\ n < Settle + IdleBits /\ Switch = ResetBits + 32
        /\ Settle = Switch + ResetBits
    BY <1>1 DEF InConnect, TypeOK, Switch, Settle
  <1> HIDE DEF b
  <1>6. /\ did' = did
        /\ n + 1 \in ResetBits + 1 .. ResetBits + 16 => ones' <= n - ResetBits
        /\ n + 1 \in ResetBits + 17 .. Switch \/ n + 1 > Settle => ones' = 0
        /\ \/ Off'
           \/ tat' = "listen" /\ (n + 1 = ResetBits + 1 \/ n + 1 > Settle)
           \/ /\ tat' = "reset"
              /\ n + 1 \in 1 .. ResetBits \/ n + 1 \in Switch + 1 .. Settle
           \/ tat' = "header" /\ n + 1 \in 1 .. 7 /\ TakenOnes(hdr', n)
           \/ tat' = "header" /\ n + 1 \in ResetBits + 2 .. ResetBits + 8
                              /\ Taken(hdr', JtagToSwd, n - ResetBits - 1)
        /\ Off' /\ n + 1 >= Switch =>
               Lost' \/ (ones' = n + 1 - Switch /\ n + 1 <= Settle)
    BY <1>1, <1>2, ConnectTarget DEF b
  <1>7. CASE n' = n + 1 /\ n + 1 < Settle + IdleBits /\ at' = "connect"
    <2>1. /\ op'.connect /\ n' < Settle + IdleBits /\ Fresh'
          /\ n' \in ResetBits + 1 .. ResetBits + 16 => ones' <= n' - ResetBits - 1
          /\ n' \in ResetBits + 17 .. Switch \/ n' > Settle => ones' = 0
          /\ Off' /\ n' >= Switch => Lost' \/ (ones' = n' - Switch /\ n' <= Settle)
      BY <1>1, <1>4, <1>5, <1>6, <1>7 DEF InConnect, Fresh
    <2>2. n' - 1 = n /\ n' - ResetBits - 2 = n - ResetBits - 1
      BY <1>5, <1>7
    <2>3. \/ Off'
          \/ tat' = "listen" /\ (n' = 0 \/ n' = ResetBits + 1 \/ n' > Settle)
          \/ tat' = "reset"  /\ (n' \in 1 .. ResetBits \/ n' \in Switch + 1 .. Settle)
          \/ tat' = "header" /\ n' \in 1 .. 7 /\ TakenOnes(hdr', n' - 1)
          \/ tat' = "header" /\ n' \in ResetBits + 2 .. ResetBits + 8
                             /\ Taken(hdr', JtagToSwd, n' - ResetBits - 2)
      BY <1>6, <1>7, <2>2 DEF TakenOnes, Taken
    <2>4. InConnect'
      BY <1>4, <2>1, <2>3 DEF InConnect, Switch, Settle
    <2> QED
      BY <1>1, <1>7, <2>4 DEF Inv
  <1>8. CASE n + 1 >= Settle + IdleBits /\ n' = 0 /\ at' = "header"
    <2>1. n + 1 > Settle
      BY <1>5, <1>8
    <2>2. InHeader'
      BY <1>1, <1>4, <1>5, <1>6, <1>8, <2>1 DEF InHeader, InConnect, Fresh, Off, Lost
    <2> QED
      BY <1>1, <1>8, <2>2 DEF Inv
  <1> QED
    BY <1>4, <1>7, <1>8

(* A request as the target has taken it.                                   *)
LEMMA RequestTaken ==
    ASSUME TypeOK, NEW h \in Seq(Bit), Taken(h, Header(op), 7)
    PROVE  /\ SubSeq(h, 1, 4) = <<op.APnDP, op.read, op.address[1], op.address[2]>>
           /\ h[2] = op.read
           /\ h[5] = Parity(SubSeq(h, 1, 4)) /\ h[6] = 0 /\ h[7] = 1
  <1> DEFINE request == <<op.APnDP, op.read, op.address[1], op.address[2]>>
  <1>1. /\ request \in Seq(Bit)
        /\ Header(op)[3] = op.APnDP /\ Header(op)[4] = op.read
        /\ Header(op)[5] = op.address[1] /\ Header(op)[6] = op.address[2]
        /\ Header(op)[7] = Parity(request) /\ Header(op)[8] = 0 /\ Header(op)[9] = 1
    <2>1. op \in Op
      BY DEF TypeOK
    <2> QED
      BY <2>1, HeaderBits
  <1>2. /\ Len(h) = 7 /\ \A i \in 1 .. 7 : h[i] = Header(op)[i + 2]
    BY DEF Taken
  <1>3. /\ h[1] = Header(op)[3] /\ h[2] = Header(op)[4] /\ h[3] = Header(op)[5]
        /\ h[4] = Header(op)[6] /\ h[5] = Header(op)[7] /\ h[6] = Header(op)[8]
        /\ h[7] = Header(op)[9]
    BY <1>2
  <1>4. \A i \in 1 .. 4 : h[i] \in Bit
    <2>1. \A i \in 1 .. 4 : i \in 1 .. Len(h)
      BY <1>2
    <2> QED
      BY <2>1, ElementOfSeq
  <1>5. /\ SubSeq(h, 1, 4) \in Seq(Bit) /\ Len(SubSeq(h, 1, 4)) = 4
        /\ \A i \in 1 .. 4 : SubSeq(h, 1, 4)[i] = h[i]
    BY <1>4, SubSeqProperties
  <1>6. Len(request) = 4 /\ \A i \in 1 .. 4 : request[i] = h[i]
    <2>1. /\ Len(request) = 4 /\ request[1] = op.APnDP /\ request[2] = op.read
          /\ request[3] = op.address[1] /\ request[4] = op.address[2]
      OBVIOUS
    <2> HIDE DEF request
    <2>2. \A i \in 1 .. 4 : i = 1 \/ i = 2 \/ i = 3 \/ i = 4
      OBVIOUS
    <2> QED
      BY <1>1, <1>3, <2>1, <2>2
  <1>7. SubSeq(h, 1, 4) = request
    <2> HIDE DEF request
    <2>1. \A i \in 1 .. 4 : SubSeq(h, 1, 4)[i] = request[i]
      BY <1>5, <1>6
    <2> QED
      BY <1>1, <1>5, <1>6, <2>1, SeqEqual
  <1> QED
    BY <1>1, <1>3, <1>7

(* The target takes the request bit by bit.                                *)
LEMMA HeaderStep == Inv /\ Clock /\ at = "header" => Inv'
  <1> SUFFICES ASSUME Inv, Clock, at = "header" PROVE Inv'
    OBVIOUS
  <1> DEFINE b == Header(op)[n + 1]
  <1>1. TypeOK /\ InHeader /\ TypeOK' /\ op \in Op
    BY ClockType DEF Inv, TypeOK
  <1>2. b \in Bit /\ HostCycle(b) /\ TargetCycle(b)
    BY <1>1, DrivenCycle DEF Written
  <1>3. Length = 9
    BY <1>1, WrittenBits DEF Drives, Reading
  <1>4. /\ op' = op /\ swdcode' = <<>> /\ got' = <<>> /\ n \in 0 .. 8
        /\ \/ n < 8 /\ n' = n + 1 /\ at' = "header"
           \/ n = 8 /\ n' = 0 /\ at' = "turn"
    BY <1>1, <1>2, <1>3, HostParts DEF InHeader, After
  <1>5. (n = 0 => b = 0) /\ (n = 1 => b = 1) /\ (n = 7 => b = 0)
    <2>1. Header(op)[1] = 0 /\ Header(op)[2] = 1 /\ Header(op)[8] = 0
      BY <1>1, HeaderBits
    <2> QED
      BY <2>1
  <1> HIDE DEF b
  <1>6. b = 0 \/ ones + 1 # ResetOnes
    BY <1>1, <1>4, <1>5 DEF InHeader, TypeOK
  <1>7. /\ did' = did
        /\ \/ Off'
           \/ tat' = "listen" /\ n = 0
           \/ tat' = "header" /\ n \in 1 .. 7 /\ Taken(hdr', Header(op), n - 1)
           \/ tat' = "turn" /\ n = 8 /\ Taken(hdr', Header(op), 7)
        /\ ones' = IF b = 0 THEN 0 ELSE ones + 1
    <2>1. CASE Off
      BY <1>1, <1>2, <1>6, <2>1, OffCycle
    <2>2. CASE tat = "listen" /\ n = 0
      BY <1>1, <1>2, <1>5, <1>6, <2>2, ListenCycle
    <2>3. CASE tat = "listen" /\ n = 1
      <3>1. b = 1 /\ tat' = "header" /\ hdr' = <<>> /\ did' = did /\ ones' = ones + 1
        BY <1>1, <1>2, <1>5, <1>6, <2>3, ListenCycle
      <3>2. Taken(hdr', Header(op), 0)
        BY <3>1 DEF Taken
      <3> QED
        BY <2>3, <3>1, <3>2
    <2>4. CASE tat = "header" /\ n \in 2 .. 8 /\ Taken(hdr, Header(op), n - 2)
      <3>1. /\ hdr' = Append(hdr, b) /\ did' = did /\ ones' = IF b = 0 THEN 0 ELSE ones + 1
            /\ Len(hdr) < 6 => tat' = "header"
            /\ Len(hdr) >= 6 => tat' = IF /\ hdr'[5] = Parity(SubSeq(hdr', 1, 4))
                                          /\ hdr'[6] = 0 /\ hdr'[7] = 1
                                         THEN "turn" ELSE "off"
        BY <1>1, <1>2, <1>6, <2>4, HeaderCycle
      <3>2. n - 2 \in Nat /\ (n - 2) + 3 = n + 1 /\ (n - 2) + 1 = n - 1
        BY <2>4
      <3>3. Taken(Append(hdr, b), Header(op), (n - 2) + 1)
        BY <1>1, <1>2, <2>4, <3>2, TakenStep DEF b
      <3>4. Taken(hdr', Header(op), n - 1)
        BY <3>1, <3>2, <3>3
      <3>5. CASE n < 8
        <4>1. Len(hdr) < 6
          BY <2>4, <3>5 DEF Taken
        <4> QED
          BY <2>4, <3>1, <3>4, <3>5, <4>1
      <3>6. CASE n = 8
        <4>1. Len(hdr) >= 6 /\ Taken(hdr', Header(op), 7)
          BY <2>4, <3>4, <3>6 DEF Taken
        <4>2. hdr' \in Seq(Bit)
          BY <1>1 DEF TypeOK
        <4> QED
          BY <1>1, <3>1, <3>6, <4>1, <4>2, RequestTaken
      <3> QED
        BY <2>4, <3>5, <3>6
    <2> QED
      BY <1>1, <2>1, <2>2, <2>3, <2>4 DEF InHeader
  <1>8. CASE n < 8 /\ n' = n + 1 /\ at' = "header"
    <2>1. /\ n' \in 0 .. 8 /\ n' # 0 /\ Fresh' /\ ones' < n' /\ (n' = 8 => ones' = 0)
      BY <1>1, <1>4, <1>5, <1>7, <1>8 DEF InHeader, TypeOK, Fresh
    <2>2. n' - 2 = n - 1 /\ (n = 0 => n' = 1) /\ (n \in 1 .. 7 => n' \in 2 .. 8)
      BY <1>4, <1>8
    <2>3. InHeader'
      BY <1>4, <1>7, <1>8, <2>1, <2>2 DEF InHeader, Off
    <2> QED
      BY <1>1, <1>8, <2>3 DEF Inv
  <1>9. CASE n = 8 /\ n' = 0 /\ at' = "turn"
    <2>1. InTurn'
      BY <1>1, <1>4, <1>7, <1>9 DEF InHeader, InTurn, Fresh, Request, TypeOK
    <2> QED
      BY <1>1, <1>9, <2>1 DEF Inv
  <1> QED
    BY <1>4, <1>8, <1>9

(* The target takes over the line and decides what to answer.              *)
LEMMA TurnStep == Inv /\ Clock /\ at = "turn" => Inv'
  <1> SUFFICES ASSUME Inv, Clock, at = "turn" PROVE Inv'
    OBVIOUS
  <1>1. TypeOK /\ InTurn /\ TypeOK'
    BY ClockType DEF Inv
  <1>2. PICK b \in Bit : Quiet(b) /\ HostCycle(b) /\ TargetCycle(b)
    BY <1>1, WaitingCycle
  <1>3. ~TargetDrives
    BY <1>1 DEF InTurn, TargetDrives, Off
  <1>4. b = 1 /\ ones + 1 # ResetOnes
    BY <1>1, <1>2, <1>3 DEF Quiet, InTurn, TypeOK
  <1>5. op' = op /\ swdcode' = <<>> /\ got' = <<>> /\ n' = 0 /\ at' = "ack"
    BY <1>1, <1>2, HostParts DEF InTurn, After, Length, Reading, BitsRead
  <1>6. Near(<<>>, <<1, 1, 1>>, garbled') /\ Near(<<>>, answer', garbled') /\ Len(<<>>) = 0
    BY DEF Near
  <1>7. CASE Off
    <2>1. Off' /\ did' = did /\ ones' = ones + 1
      BY <1>1, <1>2, <1>4, <1>7, OffCycle
    <2>2. InAck'
      BY <1>1, <1>5, <1>6, <2>1 DEF InTurn, InAck, Fresh, TypeOK
    <2> QED
      BY <1>1, <1>5, <2>2 DEF Inv
  <1>8. CASE tat = "turn" /\ Request
    <2>1. TargetTurn /\ ones' = ones + 1
      BY <1>1, <1>2, <1>3, <1>4, <1>8, NoReset DEF TargetHeader, TargetAck
    <2>2. hdr[2] = op.read /\ op.read \in Bit
      BY <1>1, <1>8, RequestTaken DEF Request, TypeOK, Op, Bit
    <2>3. PICK w \in Words : bits' = IF hdr[2] = 1 THEN WithParity(w) ELSE <<>>
      BY <2>1 DEF TargetTurn, WithParity
    <2>4. Sending'
      BY <1>5, <2>2, <2>3, WithParityBits DEF Sending, Sends
    <2>5. InAck'
      BY <1>1, <1>5, <1>6, <1>8, <2>1, <2>4
      DEF InTurn, InAck, Fresh, Request, TargetTurn, TypeOK
    <2> QED
      BY <1>1, <1>5, <2>5 DEF Inv
  <1> QED
    BY <1>1, <1>7, <1>8 DEF InTurn

(* What the target does while the ack is read.                             *)
LEMMA AckTarget ==
    ASSUME TypeOK, InAck, TypeOK', op' = op, NEW seen \in Bit, NEW b \in Bit, Quiet(b),
           TargetCycle(b), swdcode' = Append(swdcode, seen),
           garbled' = IF seen # b THEN garbled + 1 ELSE garbled
    PROVE  /\ ones' <= n + 3
           /\ \/ Lost'
              \/ Off' /\ Fresh' /\ Near(swdcode', <<1, 1, 1>>, garbled')
              \/ /\ n < 2 /\ tat' = "ack" /\ tn' = n + 1 /\ Request' /\ Sending' /\ Fresh'
                 /\ Near(swdcode', answer', garbled')
              \/ /\ n = 2 /\ Near(swdcode', answer', garbled') /\ Request' /\ Sending' /\ tn' = 0
                 /\ \/ answer' = SWD_OK /\ op.read = 0 /\ tat' = "turnaround" /\ Fresh'
                    \/ answer' # SWD_OK /\ tat' = "release" /\ Fresh'
                    \/ answer' = SWD_OK /\ op.read = 1 /\ tat' = "send" /\ did' = "read"
  <1>1. /\ n \in 0 .. 2 /\ Len(swdcode) = n /\ swdcode \in Seq(Bit) /\ garbled \in 0 .. Noise
        /\ garbled' \in 0 .. Noise /\ ones \in 0 .. ResetOnes - 1 /\ ones <= n + 2
    BY DEF TypeOK, InAck
  <1>2. CASE Off
    <2>1. b = 1 /\ ones + 1 # ResetOnes
      BY <1>1, <1>2 DEF Quiet, TargetDrives, Off
    <2>2. Off' /\ did' = did /\ ones' = ones + 1
      BY <1>2, <2>1, OffCycle
    <2>3. ASSUME Near(swdcode, <<1, 1, 1>>, garbled)
          PROVE  Near(swdcode', <<1, 1, 1>>, garbled')
      <3> DEFINE rest == <<1, 1, 1>>
      <3>1. rest[1] = 1 /\ rest[2] = 1 /\ rest[3] = 1
        OBVIOUS
      <3> HIDE DEF rest
      <3>2. rest[n + 1] = b
        BY <1>1, <2>1, <3>1
      <3>3. Near(Append(swdcode, seen), rest, garbled')
        BY <1>1, <2>3, <3>2, NearStep DEF rest
      <3> QED
        BY <3>3 DEF rest
    <2> QED
      BY <1>1, <1>2, <2>2, <2>3 DEF InAck, Lost, Off, Fresh
  <1>3. CASE /\ tat = "ack" /\ tn = n /\ Request /\ Sending
             /\ Near(swdcode, answer, garbled)
    <2>1. TargetDrives /\ b = answer[n + 1]
      BY <1>3 DEF Quiet, TargetDrives, TargetBit
    <2>2. TargetAck /\ ones' = 0
      BY <1>3, <2>1, NoReset DEF TargetHeader, TargetTurn
    <2>3. hdr' = hdr /\ answer' = answer /\ bits' = bits
      BY <2>2 DEF TargetAck, TargetStays, TargetGoes
    <2>4. Near(swdcode', answer', garbled')
      BY <1>1, <1>3, <2>1, <2>3, NearStep
    <2>5. Request' /\ Sending'
      BY <1>3, <2>3 DEF Request, Sending, Sends
    <2>6. hdr[2] = op.read /\ op.read \in Bit
      BY <1>3, RequestTaken DEF Request, TypeOK, Op, Bit
    <2>7. CASE n < 2
      <3>1. TargetStays
        BY <1>1, <1>3, <2>2, <2>7 DEF TargetAck
      <3> QED
        BY <1>1, <1>3, <2>2, <2>4, <2>5, <2>7, <3>1 DEF TargetStays, InAck, Fresh
    <2>8. CASE n = 2
      BY <1>1, <1>3, <2>2, <2>3, <2>4, <2>5, <2>6, <2>8 DEF TargetAck, TargetGoes, InAck, Fresh
    <2> QED
      BY <1>1, <2>7, <2>8
  <1> QED
    BY <1>2, <1>3 DEF InAck, Lost, Off

(* The ack read is the one given, or none that is valid.                   *)
LEMMA AckStep == Inv /\ Clock /\ at = "ack" => Inv'
  <1> SUFFICES ASSUME Inv, Clock, at = "ack" PROVE Inv'
    OBVIOUS
  <1>1. TypeOK /\ InAck /\ TypeOK'
    BY ClockType DEF Inv
  <1>2. PICK seen \in Bit, b \in Bit :
            /\ Quiet(b) /\ HostCycle(seen) /\ TargetCycle(b)
            /\ garbled' = IF seen # b THEN garbled + 1 ELSE garbled
    BY <1>1, ReadingCycle
  <1>3. n \in 0 .. 2 /\ Len(swdcode) = n /\ got = <<>>
    BY <1>1 DEF InAck
  <1>4. /\ op' = op /\ got' = <<>> /\ swdcode' = Append(swdcode, seen)
        /\ \/ n < 2 /\ n' = n + 1 /\ at' = "ack"
           \/ n = 2 /\ n' = 0 /\ at' = AfterAck(swdcode')
    BY <1>1, <1>2, <1>3, HostParts DEF After, Length, Reading, BitsRead
  <1>5. swdcode' \in Seq(Bit) /\ Len(swdcode') = n + 1 /\ Len(got') = 0
    BY <1>1, <1>3, <1>4, AppendProperties DEF TypeOK
  <1>6. ones' <= n + 3
    BY <1>1, <1>2, <1>4, AckTarget
  <1>7. CASE n < 2
    <2>1. \/ Lost'
          \/ Off' /\ Fresh' /\ Near(swdcode', <<1, 1, 1>>, garbled')
          \/ /\ tat' = "ack" /\ tn' = n + 1 /\ Request' /\ Sending' /\ Fresh'
             /\ Near(swdcode', answer', garbled')
      BY <1>1, <1>2, <1>4, <1>7, AckTarget
    <2>2. InAck'
      BY <1>3, <1>4, <1>5, <1>6, <1>7, <2>1 DEF InAck, Lost, Fresh
    <2> QED
      BY <1>1, <1>4, <1>7, <2>2 DEF Inv
  <1>8. CASE n = 2
    <2>1. \/ Lost'
          \/ Off' /\ Fresh' /\ Near(swdcode', <<1, 1, 1>>, garbled')
          \/ /\ Near(swdcode', answer', garbled') /\ Request' /\ Sending' /\ tn' = 0
             /\ \/ answer' = SWD_OK /\ op.read = 0 /\ tat' = "turnaround" /\ Fresh'
                \/ answer' # SWD_OK /\ tat' = "release" /\ Fresh'
                \/ answer' = SWD_OK /\ op.read = 1 /\ tat' = "send" /\ did' = "read"
      BY <1>1, <1>2, <1>4, <1>8, AckTarget
    <2>2. n' = 0 /\ Len(swdcode') = 3 /\ at' = AfterAck(swdcode') /\ op.read \in Bit
      BY <1>1, <1>4, <1>5, <1>8, OpType
    <2>3. answer' \in Acks
      BY <1>1 DEF TypeOK
    <2>4. CASE swdcode' \in Acks
      <3>1. \/ Lost'
            \/ /\ swdcode' = answer' /\ Request' /\ Sending' /\ tn' = 0
               /\ \/ swdcode' = SWD_OK /\ op.read = 0 /\ tat' = "turnaround" /\ Fresh'
                  \/ swdcode' # SWD_OK /\ tat' = "release" /\ Fresh'
                  \/ swdcode' = SWD_OK /\ op.read = 1 /\ tat' = "send" /\ did' = "read"
        BY <2>1, <2>3, <2>4, AcksApart
      <3>2. CASE swdcode' = SWD_OK /\ op.read = 1
        <4>1. at' = "read"
          <5>1. SWD_OK \notin {SWD_WAIT, SWD_FAIL} /\ SWD_OK \in Acks
            BY DEF SWD_OK, SWD_WAIT, SWD_FAIL, Acks
          <5> QED
            BY <2>2, <3>2, <5>1 DEF AfterAck
        <4>2. Near(got', bits', garbled')
          BY <1>5, NearEmpty
        <4>3. /\ op'.read = 1
              /\ Lost' \/ (tat' = "send" /\ tn' = 0 /\ did' = "read" /\ Request' /\ Sends')
          <5>1. op'.read = 1
            BY <1>4, <3>2
          <5>2. Sending' => Sends'
            BY <5>1 DEF Sending
          <5>3. op.read # 0
            BY <3>2
          <5> QED
            BY <3>1, <3>2, <5>1, <5>2, <5>3
        <4>4. ones' <= n' + 5 /\ n' \in 0 .. WordBits /\ Len(got') = n' /\ n' = 0
          BY <1>1, <1>5, <1>6, <1>8, <2>2 DEF TypeOK
        <4>5. InRead'
          BY <3>2, <4>2, <4>3, <4>4 DEF InRead
        <4> QED
          BY <1>1, <4>1, <4>5 DEF Inv
      <3>3. CASE ~(swdcode' = SWD_OK /\ op.read = 1)
        <4>1. at' = "release" /\ op'.read = op.read
          BY <1>4, <2>2, <2>4, <3>3 DEF AfterAck, Acks
        <4>2. swdcode' = SWD_OK => op'.read = 0
          BY <2>2, <3>3, <4>1 DEF Bit
        <4>3. InRelease'
          BY <1>4, <1>6, <1>8, <2>2, <2>4, <3>1, <3>3, <4>1, <4>2 DEF InRelease, Sending
        <4> QED
          BY <1>1, <4>1, <4>3 DEF Inv
      <3> QED
        BY <3>2, <3>3
    <2>5. CASE swdcode' \notin Acks
      <3>1. at' = "eat"
        BY <2>2, <2>5 DEF AfterAck, Acks
      <3>2. \/ Off'
            \/ tat' = "send" /\ tn' = 0 /\ Sends'
            \/ tat' = "turnaround" /\ bits' = <<>>
            \/ tat' = "release"
        BY <1>4, <2>1 DEF Lost, Off, Sending
      <3>3. InEat'
        BY <1>6, <1>8, <2>2, <2>5, <3>2 DEF InEat
      <3> QED
        BY <1>1, <3>1, <3>3 DEF Inv
    <2> QED
      BY <2>4, <2>5
  <1> QED
    BY <1>3, <1>7, <1>8

(* The target sends a word and its parity.                                 *)
LEMMA ReadStep == Inv /\ Clock /\ at = "read" => Inv'
  <1> SUFFICES ASSUME Inv, Clock, at = "read" PROVE Inv'
    OBVIOUS
  <1>1. TypeOK /\ InRead /\ TypeOK'
    BY ClockType DEF Inv
  <1>2. PICK seen \in Bit, b \in Bit :
            /\ Quiet(b) /\ HostCycle(seen) /\ TargetCycle(b)
            /\ garbled' = IF seen # b THEN garbled + 1 ELSE garbled
    BY <1>1, ReadingCycle
  <1>3. /\ n \in 0 .. WordBits /\ Len(got) = n /\ ones <= n + 5 /\ op.read = 1
        /\ swdcode = SWD_OK /\ got \in Seq(Bit) /\ garbled \in 0 .. Noise
        /\ garbled' \in 0 .. Noise /\ ones \in 0 .. ResetOnes - 1
    BY <1>1 DEF InRead, TypeOK
  <1>4. /\ op' = op /\ got' = Append(got, seen)
        /\ \/ n < WordBits /\ n' = n + 1 /\ at' = "read" /\ swdcode' = swdcode
           \/ n = WordBits /\ n' = 0 /\ at' = "turnaround" /\ swdcode' = Checked(got')
    <2>1. Length = WordBits + 1
      BY DEF Length, Reading, BitsRead
    <2>2. /\ op' = op /\ got' = Append(got, seen)
          /\ swdcode' = IF n + 1 = WordBits + 1 THEN Checked(got') ELSE swdcode
          /\ \/ n + 1 < WordBits + 1 /\ n' = n + 1 /\ at' = "read"
             \/ n + 1 >= WordBits + 1 /\ n' = 0 /\ at' = After(swdcode')
      BY <1>1, <1>2, <2>1, HostParts
    <2>3. After(swdcode') = "turnaround"
      BY DEF After
    <2> QED
      BY <1>3, <2>2, <2>3
  <1>5. got' \in Seq(Bit) /\ Len(got') = n + 1
    BY <1>3, <1>4, AppendProperties
  <1>6. /\ ones' <= n + 6
        /\ \/ Lost'
           \/ /\ did' = "read" /\ Request' /\ Sends' /\ Near(got', bits', garbled')
              /\ \/ n < WordBits /\ tat' = "send" /\ tn' = n + 1
                 \/ n = WordBits /\ tat' = "release"
    <2>1. CASE Lost
      <3>1. Off /\ b = 1 /\ ones + 1 # ResetOnes
        BY <1>2, <1>3, <2>1 DEF Quiet, TargetDrives, Off, Lost
      <3>2. Off' /\ did' = did /\ ones' = ones + 1
        BY <1>1, <1>2, <3>1, OffCycle
      <3> QED
        BY <1>3, <2>1, <3>2 DEF Lost, Off
    <2>2. CASE /\ tat = "send" /\ tn = n /\ did = "read" /\ Request /\ Sends
               /\ Near(got, bits, garbled)
      <3>1. TargetDrives /\ b = bits[n + 1]
        BY <1>2, <2>2 DEF Quiet, TargetDrives, TargetBit
      <3>2. TargetData(b) /\ ones' = 0
        BY <1>1, <1>2, <2>2, <3>1, NoReset DEF TargetHeader, TargetTurn, TargetAck
      <3>3. /\ hdr' = hdr /\ bits' = bits /\ did' = did
            /\ \/ n < WordBits /\ tat' = "send" /\ tn' = n + 1
               \/ n = WordBits /\ tat' = "release"
        BY <2>2, <3>2 DEF TargetData, TargetStays, TargetGoes
      <3>4. Near(got', bits', garbled')
        BY <1>2, <1>3, <1>4, <2>2, <3>1, <3>3, NearStep
      <3> QED
        BY <1>3, <1>4, <2>2, <3>2, <3>3, <3>4 DEF Request, Sends
    <2> QED
      BY <1>1, <2>1, <2>2 DEF InRead
  <1>7. CASE n < WordBits /\ n' = n + 1 /\ at' = "read" /\ swdcode' = swdcode
    <2>1. InRead'
      BY <1>3, <1>4, <1>5, <1>6, <1>7 DEF InRead
    <2> QED
      BY <1>1, <1>7, <2>1 DEF Inv
  <1>8. CASE n = WordBits /\ n' = 0 /\ at' = "turnaround" /\ swdcode' = Checked(got')
    <2>1. swdcode' \in {SWD_OK, SWD_FAIL}
      BY <1>3, <1>8 DEF Checked
    <2>2. ASSUME ~Lost' PROVE tat' = "release" /\ ReadDone'
      <3>1. /\ did' = "read" /\ Request' /\ Sends' /\ Near(got', bits', garbled')
            /\ tat' = "release"
        BY <1>3, <1>6, <1>8, <2>2
      <3>2. PICK w \in Words : bits' = WithParity(w)
        BY <3>1 DEF Sends
      <3>3. ASSUME swdcode' = SWD_OK PROVE got' = bits'
        <4>1. SWD_OK # SWD_FAIL
          BY DEF SWD_OK, SWD_FAIL
        <4>2. Parity(SubSeq(got', 1, WordBits)) = got'[WordBits + 1]
          BY <1>8, <3>3, <4>1 DEF Checked
        <4>3. Len(got') = WordBits + 1
          BY <1>5, <1>8
        <4> QED
          BY <1>5, <3>1, <3>2, <4>2, <4>3, ParityCatches
      <3> QED
        BY <3>1, <3>3 DEF ReadDone
    <2>3. InTurnaround'
      BY <1>3, <1>4, <1>6, <1>8, <2>1, <2>2 DEF InTurnaround
    <2> QED
      BY <1>1, <1>8, <2>3 DEF Inv
  <1> QED
    BY <1>4, <1>7, <1>8

(* After a read, the line goes back to the programmer.                     *)
LEMMA TurnaroundStep == Inv /\ Clock /\ at = "turnaround" => Inv'
  <1> SUFFICES ASSUME Inv, Clock, at = "turnaround" PROVE Inv'
    OBVIOUS
  <1>1. TypeOK /\ InTurnaround /\ TypeOK'
    BY ClockType DEF Inv
  <1>2. HostCycle(0) /\ TargetCycle(0) /\ 0 \in Bit
    <2>1. n + 1 = 1 /\ Written(at, op) = <<0>>
      BY <1>1 DEF InTurnaround, Written
    <2>2. Written(at, op)[n + 1] = 0
      BY <2>1
    <2> QED
      BY <1>1, <2>2, DrivenCycle DEF Bit
  <1>3. /\ op' = op /\ got' = got /\ swdcode' = swdcode /\ n' = 0 /\ at' = "idle"
    <2>1. Length = 1
      BY <1>1, WrittenBits DEF Drives, Reading
    <2> QED
      BY <1>1, <1>2, <2>1, HostParts DEF InTurnaround, After
  <1>4. ones' = 0 /\ \/ Lost'
                     \/ tat' = "listen" /\ ReadDone'
    <2>1. CASE Lost
      BY <1>1, <1>2, <2>1, OffCycle DEF Lost, Off
    <2>2. CASE tat = "release" /\ ReadDone
      <3>1. TargetData(0) /\ ones' = 0
        BY <1>1, <1>2, <2>2, NoReset DEF TargetHeader, TargetTurn, TargetAck
      <3>2. tat' = "listen" /\ UNCHANGED <<hdr, answer, bits, did>>
        BY <2>2, <3>1 DEF TargetData, TargetGoes
      <3> QED
        BY <1>3, <2>2, <3>1, <3>2 DEF ReadDone, Request
    <2> QED
      BY <1>1, <2>1, <2>2 DEF InTurnaround
  <1>5. op'.read = 1 /\ swdcode' \in {SWD_OK, SWD_FAIL}
    BY <1>1, <1>3 DEF InTurnaround
  <1>6. Outcome'
    BY <1>4, <1>5 DEF Outcome, Lost
  <1>7. InIdle'
    BY <1>3, <1>4, <1>6 DEF InIdle, Lost, Off
  <1> QED
    BY <1>1, <1>3, <1>7 DEF Inv

(* Before a write, and after a WAIT or a FAIL, so it does.                 *)
LEMMA ReleaseStep == Inv /\ Clock /\ at = "release" => Inv'
  <1> SUFFICES ASSUME Inv, Clock, at = "release" PROVE Inv'
    OBVIOUS
  <1>1. TypeOK /\ InRelease /\ TypeOK'
    BY ClockType DEF Inv
  <1>2. PICK b \in Bit : Quiet(b) /\ HostCycle(b) /\ TargetCycle(b)
    BY <1>1, WaitingCycle
  <1>3. ~TargetDrives
    BY <1>1 DEF InRelease, TargetDrives, Lost
  <1>4. b = 1 /\ ones + 1 # ResetOnes /\ ones <= 5 /\ ones \in Nat
    BY <1>1, <1>2, <1>3 DEF Quiet, InRelease, TypeOK
  <1>5. /\ op' = op /\ got' = got /\ swdcode' = swdcode /\ n' = 0
        /\ at' = IF swdcode = SWD_OK THEN "data" ELSE "parked"
    BY <1>1, <1>2, HostParts DEF InRelease, After, Length, Reading, BitsRead
  <1>6. CASE Lost
    <2>1. Lost' /\ ones' = ones + 1
      BY <1>1, <1>2, <1>4, <1>6, OffCycle DEF Lost, Off
    <2>2. CASE swdcode = SWD_OK
      BY <1>1, <1>4, <1>5, <2>1, <2>2 DEF Inv, InData, InRelease
    <2>3. CASE swdcode # SWD_OK
      <3>1. Outcome' /\ tat' = "off"
        BY <1>1, <1>5, <2>1, <2>3 DEF Outcome, InRelease, Acks, Lost, Fresh
      <3> QED
        BY <1>1, <1>5, <2>3, <3>1 DEF Inv, Parked
    <2> QED
      BY <2>2, <2>3
  <1>7. CASE swdcode = SWD_OK /\ tat = "turnaround" /\ Fresh /\ Request /\ bits = <<>>
    <2>1. TargetData(b) /\ ones' = ones + 1
      BY <1>1, <1>2, <1>3, <1>4, <1>7, NoReset DEF TargetHeader, TargetTurn, TargetAck
    <2>2. tat' = "receive" /\ tn' = 0 /\ UNCHANGED <<hdr, answer, bits, did>>
      BY <1>7, <2>1 DEF TargetData, TargetGoes
    <2>3. Len(bits') = 0
      BY <1>7, <2>2
    <2>4. Near(bits', WithParity(op'.data), garbled')
      BY <2>3, NearEmpty
    <2>5. Fresh' /\ Request'
      BY <1>5, <1>7, <2>2 DEF Fresh, Request
    <2>6. InData'
      BY <1>1, <1>4, <1>5, <1>7, <2>1, <2>2, <2>3, <2>4, <2>5 DEF InData, InRelease
    <2> QED
      BY <1>1, <1>5, <1>7, <2>6 DEF Inv
  <1>8. CASE swdcode # SWD_OK /\ tat = "release" /\ Fresh
    <2>1. TargetData(b)
      BY <1>1, <1>2, <1>3, <1>4, <1>8, NoReset DEF TargetHeader, TargetTurn, TargetAck
    <2>2. tat' = "listen" /\ did' = did
      BY <1>8, <2>1 DEF TargetData, TargetGoes
    <2>3. Outcome'
      BY <1>1, <1>5, <1>8, <2>2 DEF Outcome, InRelease, Acks, Fresh
    <2> QED
      BY <1>1, <1>5, <1>8, <2>2, <2>3 DEF Inv, Parked
  <1> QED
    BY <1>1, <1>6, <1>7, <1>8 DEF InRelease

(* The target receives a word and its parity.                              *)
LEMMA DataStep == Inv /\ Clock /\ at = "data" => Inv'
  <1> SUFFICES ASSUME Inv, Clock, at = "data" PROVE Inv'
    OBVIOUS
  <1> DEFINE sent == WithParity(op.data)
             b == sent[n + 1]
  <1>1. TypeOK /\ InData /\ TypeOK' /\ op.data \in Words
    BY ClockType, OpType DEF Inv
  <1>2. Written(at, op) = sent
    BY DEF Written, WithParity
  <1> HIDE DEF sent
  <1>3. PICK received \in Bit :
            /\ b \in Bit /\ HostCycle(b) /\ TargetCycle(received)
            /\ received # b => tat = "receive"
            /\ garbled' = IF received # b THEN garbled + 1 ELSE garbled
    BY <1>1, <1>2, DataCycle
  <1>4. /\ n \in 0 .. WordBits /\ op.read = 0 /\ swdcode = SWD_OK /\ garbled \in 0 .. Noise
        /\ garbled' \in 0 .. Noise /\ bits \in Seq(Bit) /\ bits' \in Seq(Bit)
        /\ ones \in 0 .. ResetOnes - 1 /\ ones <= n + 6
    BY <1>1 DEF InData, TypeOK
  <1>5. /\ op' = op /\ got' = got /\ swdcode' = swdcode
        /\ \/ n < WordBits /\ n' = n + 1 /\ at' = "data"
           \/ n = WordBits /\ n' = 0 /\ at' = "idle"
    <2>1. Length = WordBits + 1
      BY <1>1, WrittenBits DEF Drives, Reading
    <2>2. /\ op' = op /\ got' = got /\ swdcode' = swdcode
          /\ \/ n + 1 < WordBits + 1 /\ n' = n + 1 /\ at' = "data"
             \/ n + 1 >= WordBits + 1 /\ n' = 0 /\ at' = After(swdcode')
      BY <1>1, <1>3, <2>1, HostParts
    <2>3. After(swdcode') = "idle"
      BY DEF After
    <2> QED
      BY <1>4, <2>2, <2>3
  <1>6. received = 0 \/ ones + 1 # ResetOnes
    BY <1>4
  <1>7. ~TargetDrives
    BY <1>1 DEF InData, TargetDrives, Lost
  <1>8. ones' <= n + 7
    BY <1>1, <1>3, <1>4, <1>6, NoReset
  <1>9. CASE Lost
    <2>1. Lost'
      BY <1>1, <1>3, <1>6, <1>9, OffCycle DEF Lost, Off
    <2>2. CASE n < WordBits /\ n' = n + 1 /\ at' = "data"
      <3>1. InData'
        BY <1>4, <1>5, <1>8, <2>1, <2>2 DEF InData
      <3> QED
        BY <1>1, <2>2, <3>1 DEF Inv
    <2>3. CASE n = WordBits /\ n' = 0 /\ at' = "idle"
      <3>1. Outcome' /\ Off'
        BY <1>4, <1>5, <2>1 DEF Outcome, Lost, Off
      <3>2. InIdle'
        BY <1>4, <1>8, <2>3, <3>1 DEF InIdle
      <3> QED
        BY <1>1, <2>3, <3>2 DEF Inv
    <2> QED
      BY <1>5, <2>2, <2>3
  <1>10. CASE /\ tat = "receive" /\ tn = n /\ Len(bits) = n /\ Fresh /\ Request
              /\ Near(bits, sent, garbled)
    <2>1. TargetData(received)
      BY <1>1, <1>3, <1>6, <1>7, <1>10, NoReset DEF TargetHeader, TargetTurn, TargetAck
    <2>2. /\ bits' = Append(bits, received) /\ UNCHANGED <<hdr, answer>>
          /\ \/ n < WordBits /\ tn' = n + 1 /\ UNCHANGED <<tat, did>>
             \/ /\ n = WordBits /\ tat' = "listen"
                /\ did' = IF Parity(SubSeq(bits', 1, WordBits)) = received THEN "write" ELSE "error"
      BY <1>4, <1>10, <2>1 DEF TargetData
    <2>3. /\ Len(bits') = n + 1 /\ bits'[n + 1] = received
      BY <1>4, <1>10, <2>2, AppendProperties
    <2>4. Near(bits', sent, garbled')
      BY <1>3, <1>4, <1>10, <2>2, NearStep
    <2>5. Request'
      BY <1>5, <1>10, <2>2 DEF Request
    <2>6. CASE n < WordBits /\ n' = n + 1 /\ at' = "data"
      <3>1. tat' = "receive" /\ tn' = n' /\ Fresh' /\ Len(bits') = n'
        BY <1>4, <1>10, <2>2, <2>3, <2>6 DEF Fresh
      <3>2. Near(bits', WithParity(op'.data), garbled')
        BY <1>5, <2>4 DEF sent
      <3>3. InData'
        BY <1>4, <1>5, <1>8, <2>5, <2>6, <3>1, <3>2 DEF InData
      <3> QED
        BY <1>1, <2>6, <3>3 DEF Inv
    <2>7. CASE n = WordBits /\ n' = 0 /\ at' = "idle"
      <3>1. /\ tat' = "listen"
            /\ did' = IF Parity(SubSeq(bits', 1, WordBits)) = received THEN "write" ELSE "error"
        BY <1>4, <2>2, <2>7
      <3>2. ASSUME did' = "write"
            PROVE  SubSeq(bits', 1, WordBits) = op.data
        <4>1. Parity(SubSeq(bits', 1, WordBits)) = bits'[WordBits + 1] /\ Len(bits') = WordBits + 1
          BY <2>3, <2>7, <3>1, <3>2
        <4>2. bits' = WithParity(op.data)
          BY <1>1, <1>4, <2>4, <4>1, ParityCatches DEF sent
        <4> QED
          BY <1>1, <4>2, WordOfWithParity
      <3>3. WriteDone'
        BY <1>5, <2>5, <3>1, <3>2 DEF WriteDone
      <3>4. Outcome'
        BY <1>4, <1>5, <3>3 DEF Outcome
      <3>5. InIdle'
        BY <1>4, <1>8, <2>7, <3>1, <3>4 DEF InIdle
      <3> QED
        BY <1>1, <2>7, <3>5 DEF Inv
    <2> QED
      BY <1>5, <2>6, <2>7
  <1> QED
    BY <1>1, <1>9, <1>10 DEF InData, sent

(* The programmer waits for the end of the data phase.                     *)
LEMMA EatStep == Inv /\ Clock /\ at = "eat" => Inv'
  <1> SUFFICES ASSUME Inv, Clock, at = "eat" PROVE Inv'
    OBVIOUS
  <1>1. TypeOK /\ InEat /\ TypeOK'
    BY ClockType DEF Inv
  <1>2. PICK b \in Bit : Quiet(b) /\ HostCycle(b) /\ TargetCycle(b)
    BY <1>1, WaitingCycle
  <1>3. /\ n \in 0 .. WordBits /\ ones \in 0 .. ResetOnes - 1 /\ ones <= n + 5
        /\ Len(swdcode) = 3 /\ swdcode \notin Acks
    BY <1>1 DEF InEat, TypeOK
  <1>4. /\ op' = op /\ got' = got /\ swdcode' = swdcode
        /\ \/ n < WordBits /\ n' = n + 1 /\ at' = "eat"
           \/ n = WordBits /\ n' = 0 /\ at' = "idle"
    <2>1. Length = WordBits + 1
      BY DEF Length, Reading, BitsRead
    <2>2. /\ op' = op /\ got' = got /\ swdcode' = swdcode
          /\ \/ n + 1 < WordBits + 1 /\ n' = n + 1 /\ at' = "eat"
             \/ n + 1 >= WordBits + 1 /\ n' = 0 /\ at' = After(swdcode')
      BY <1>1, <1>2, <2>1, HostParts
    <2>3. After(swdcode') = "idle"
      BY DEF After
    <2> QED
      BY <1>3, <2>2, <2>3
  <1>5. b = 0 \/ ones + 1 # ResetOnes
    BY <1>3
  <1>6. ones' <= n + 6
    BY <1>1, <1>2, <1>3, <1>5, NoReset
  <1>7. \/ Off'
        \/ tat' = "send" /\ tn' = n + 1 /\ Sends' /\ n < WordBits
        \/ tat' = "release" /\ n = WordBits
        \/ tat' = "receive" /\ tn' = n /\ Len(bits') = tn'
        \/ tat' = "listen" /\ n = 0
        \/ tat' = "header" /\ n \in 1 .. 7 /\ TakenOnes(hdr', n - 1)
    <2>1. CASE Off
      BY <1>1, <1>2, <1>5, <2>1, OffCycle
    <2>2. CASE tat = "send" /\ tn = n /\ Sends
      <3>1. TargetData(b)
        BY <1>1, <1>2, <1>5, <2>2, NoReset DEF TargetHeader, TargetTurn, TargetAck
      <3> QED
        BY <1>3, <2>2, <3>1 DEF TargetData, TargetStays, TargetGoes, Sends
    <2>3. CASE tat = "turnaround" /\ n = 0 /\ bits = <<>>
      <3>1. TargetData(b)
        BY <1>1, <1>2, <1>5, <2>3, NoReset DEF TargetHeader, TargetTurn, TargetAck
      <3> QED
        BY <2>3, <3>1 DEF TargetData, TargetGoes
    <2>4. CASE tat = "receive" /\ n >= 1 /\ tn = n - 1 /\ Len(bits) = tn
      <3>1. TargetData(b)
        BY <1>1, <1>2, <1>5, <2>4, NoReset DEF TargetHeader, TargetTurn, TargetAck
      <3>2. tat' = "receive" /\ tn' = tn + 1 /\ bits' = Append(bits, b)
        BY <1>3, <2>4, <3>1 DEF TargetData
      <3>3. Len(bits') = Len(bits) + 1
        BY <1>1, <3>2, AppendProperties DEF TypeOK
      <3> QED
        BY <1>3, <2>4, <3>2, <3>3
    <2>5. CASE tat = "release" /\ n = 0
      <3>1. TargetData(b)
        BY <1>1, <1>2, <1>5, <2>5, NoReset DEF TargetHeader, TargetTurn, TargetAck
      <3> QED
        BY <2>5, <3>1 DEF TargetData, TargetGoes
    <2>6. CASE tat = "listen" /\ n = 1
      <3>1. b = 1
        BY <1>2, <2>6 DEF Quiet, TargetDrives
      <3>2. tat' = "header" /\ hdr' = <<>>
        BY <1>1, <1>2, <1>5, <2>6, <3>1, ListenCycle
      <3>3. TakenOnes(hdr', 0)
        BY <3>2 DEF TakenOnes
      <3> QED
        BY <2>6, <3>2, <3>3
    <2>7. CASE tat = "header" /\ n \in 2 .. 8 /\ TakenOnes(hdr, n - 2)
      <3>1. b = 1
        BY <1>2, <2>7 DEF Quiet, TargetDrives
      <3>2. /\ hdr' = Append(hdr, 1)
            /\ Len(hdr) < 6 => tat' = "header"
            /\ Len(hdr) >= 6 => tat' = IF /\ hdr'[5] = Parity(SubSeq(hdr', 1, 4))
                                          /\ hdr'[6] = 0 /\ hdr'[7] = 1
                                         THEN "turn" ELSE "off"
        BY <1>1, <1>2, <1>5, <2>7, <3>1, HeaderCycle
      <3>3. n - 2 \in Nat /\ (n - 2) + 1 = n - 1 /\ Len(hdr) = n - 2
        BY <2>7 DEF TakenOnes
      <3>4. TakenOnes(Append(hdr, 1), (n - 2) + 1)
        BY <1>1, <2>7, <3>3, TakenOnesStep
      <3>5. TakenOnes(hdr', n - 1)
        BY <3>2, <3>3, <3>4
      <3>6. CASE n < 8
        BY <2>7, <3>2, <3>3, <3>5, <3>6
      <3>7. CASE n = 8
        <4>1. hdr'[6] = 1 /\ Len(hdr) >= 6
          BY <3>3, <3>5, <3>7 DEF TakenOnes
        <4> QED
          BY <3>2, <4>1 DEF Off
      <3> QED
        BY <2>7, <3>6, <3>7
    <2> QED
      BY <1>1, <2>1, <2>2, <2>3, <2>4, <2>5, <2>6, <2>7 DEF InEat
  <1>8. CASE n < WordBits /\ n' = n + 1 /\ at' = "eat"
    <2>1. /\ n' \in 1 .. WordBits /\ n' - 1 = n /\ ones' <= n' + 5
          /\ n \in 1 .. 7 => n' \in 2 .. 8 /\ n' - 2 = n - 1
      BY <1>1, <1>3, <1>6, <1>8 DEF TypeOK
    <2>2. InEat'
      BY <1>3, <1>4, <1>7, <1>8, <2>1 DEF InEat
    <2> QED
      BY <1>1, <1>8, <2>2 DEF Inv
  <1>9. CASE n = WordBits /\ n' = 0 /\ at' = "idle"
    <2>1. Outcome' /\ swdcode' \notin Acks
      BY <1>3, <1>4 DEF Outcome
    <2>2. \/ Off'
          \/ tat' = "release"
          \/ tat' = "receive" /\ tn' = WordBits /\ Len(bits') = tn'
      BY <1>7, <1>9
    <2>3. ones' <= WordBits + 7
      BY <1>1, <1>6, <1>9 DEF TypeOK
    <2>4. InIdle'
      BY <1>9, <2>1, <2>2, <2>3 DEF InIdle
    <2> QED
      BY <1>1, <1>9, <2>4 DEF Inv
  <1> QED
    BY <1>4, <1>8, <1>9

(* The idle bits keep what the transaction has come to.                    *)
LEMMA IdleStep == Inv /\ Clock /\ at = "idle" => Inv'
  <1> SUFFICES ASSUME Inv, Clock, at = "idle" PROVE Inv'
    OBVIOUS
  <1>1. TypeOK /\ InIdle /\ TypeOK' /\ n \in 0 .. IdleBits - 1
    BY ClockType DEF Inv, InIdle
  <1>2. HostCycle(0) /\ TargetCycle(0) /\ 0 \in Bit
    <2>1. n + 1 \in 1 .. IdleBits
      BY <1>1
    <2>2. Written(at, op)[n + 1] = 0
      BY <2>1, RunBits DEF Written
    <2> QED
      BY <1>1, <2>2, DrivenCycle DEF Bit
  <1>3. /\ op' = op /\ got' = got /\ swdcode' = swdcode
        /\ \/ n' \in 1 .. IdleBits - 1 /\ at' = "idle"
           \/ n' = 0 /\ at' = "parked"
    <2>1. Length = IdleBits
      BY <1>1, WrittenBits DEF Drives, Reading
    <2>2. After(swdcode') = "parked"
      BY DEF After
    <2> QED
      BY <1>1, <1>2, <2>1, <2>2, HostParts
  <1>4. ~TargetDrives
    BY <1>1 DEF InIdle, TargetDrives, Off
  <1>5. /\ ones' = 0
        /\ Off' \/ tat' = "listen"
        /\ swdcode \in Acks => UNCHANGED <<hdr, bits, did>>
    <2>1. CASE Off
      BY <1>1, <1>2, <2>1, OffCycle
    <2>2. CASE tat = "listen"
      BY <1>1, <1>2, <2>2, ListenCycle
    <2>3. CASE tat = "release"
      <3>1. TargetData(0) /\ ones' = 0
        BY <1>1, <1>2, <2>3, NoReset DEF TargetHeader, TargetTurn, TargetAck
      <3> QED
        BY <2>3, <3>1 DEF TargetData, TargetGoes
    <2>4. CASE tat = "receive" /\ tn = WordBits /\ swdcode \notin Acks
      <3>1. TargetData(0) /\ ones' = 0
        BY <1>1, <1>2, <2>4, NoReset DEF TargetHeader, TargetTurn, TargetAck
      <3> QED
        BY <2>4, <3>1 DEF TargetData
    <2> QED
      BY <1>1, <2>1, <2>2, <2>3, <2>4 DEF InIdle
  <1>6. Outcome'
    <2>1. CASE swdcode \in Acks
      BY <1>1, <1>3, <1>5, <2>1
      DEF InIdle, Outcome, ReadDone, WriteDone, Request, Fresh
    <2>2. CASE swdcode \notin Acks
      BY <1>3, <2>2 DEF Outcome
    <2> QED
      BY <2>1, <2>2
  <1>7. CASE n' \in 1 .. IdleBits - 1 /\ at' = "idle"
    <2>1. n' \in 0 .. IdleBits - 1 /\ ones' <= WordBits + 7
      BY <1>5, <1>7
    <2>2. InIdle'
      BY <1>5, <1>6, <2>1 DEF InIdle
    <2> QED
      BY <1>1, <1>7, <2>2 DEF Inv
  <1>8. CASE n' = 0 /\ at' = "parked"
    <2>1. Parked'
      BY <1>5, <1>6, <1>8 DEF Parked, Off
    <2> QED
      BY <1>1, <1>8, <2>1 DEF Inv
  <1> QED
    BY <1>3, <1>7, <1>8

-----------------------------------------------------------------------------
(* A step that changes nothing.                                            *)
LEMMA StutterStep == Inv /\ UNCHANGED vars => Inv'
  <1> SUFFICES ASSUME Inv, UNCHANGED vars PROVE Inv'
    OBVIOUS
  <1> USE DEF vars
  <1>1. TypeOK' /\ Outcome' = Outcome /\ at' = at
    BY DEF Inv, TypeOK, Outcome, ReadDone, WriteDone, Request, Fresh
  <1>2. at = "parked" => Parked'
    BY <1>1 DEF Inv, Parked
  <1>3. at = "connect" => InConnect'
    BY DEF Inv, InConnect, Lost, Off, Fresh
  <1>4. at = "header" => InHeader'
    BY DEF Inv, InHeader, Lost, Off, Fresh
  <1>5. at = "turn" => InTurn'
    BY DEF Inv, InTurn, Off, Fresh, Request
  <1>6. at = "ack" => InAck'
    BY DEF Inv, InAck, Lost, Off, Fresh, Request, Sending, Sends
  <1>7. at = "read" => InRead'
    BY DEF Inv, InRead, Lost, Request, Sends
  <1>8. at = "release" => InRelease'
    BY DEF Inv, InRelease, Lost, Fresh, Request
  <1>9. at = "data" => InData'
    BY DEF Inv, InData, Lost, Fresh, Request
  <1>10. at = "turnaround" => InTurnaround'
    BY DEF Inv, InTurnaround, Lost, ReadDone, Request
  <1>11. at = "eat" => InEat'
    BY DEF Inv, InEat, Off, Sends
  <1>12. at = "idle" => InIdle'
    BY <1>1 DEF Inv, InIdle, Off
  <1> QED
    BY <1>1, <1>2, <1>3, <1>4, <1>5, <1>6, <1>7, <1>8, <1>9, <1>10, <1>11, <1>12 DEF Inv

(* A clock cycle in any of the parts.                                      *)
LEMMA ClockStep == Inv /\ Clock => Inv'
  <1>1. Inv /\ Clock => at \in Parts \ {"parked"}
    BY DEF Inv, TypeOK, Clock
  <1> QED
    BY <1>1, ConnectStep, HeaderStep, TurnStep, AckStep, ReadStep, ReleaseStep, DataStep,
       TurnaroundStep, EatStep, IdleStep
    DEF Parts

(* The invariant holds in every state, for all sizes.                      *)
THEOREM Invariance == Spec => []Inv
  <1>1. Init => Inv
    <2> SUFFICES ASSUME Init PROVE Inv
      OBVIOUS
    <2>1. TypeOK /\ at = "parked"
      BY DEF Init, TypeOK, Parts, TargetParts, Acks
    <2>2. Parked
      BY DEF Init, Parked, Outcome, Acks, SWD_OK, SWD_WAIT, SWD_FAIL
    <2> QED
      BY <2>1, <2>2 DEF Inv
  <1>2. Inv /\ [Next]_vars => Inv'
    <2> SUFFICES ASSUME Inv, [Next]_vars PROVE Inv'
      OBVIOUS
    <2>1. CASE \E o \in Ops : Begin(o)
      BY <2>1, BeginStep
    <2>2. CASE Clock
      BY <2>2, ClockStep
    <2>3. CASE PowerLoss
      BY <2>3, PowerLossStep
    <2>4. CASE UNCHANGED vars
      BY <2>4, StutterStep
    <2> QED
      BY <2>1, <2>2, <2>3, <2>4 DEF Next
  <1> QED
    BY <1>1, <1>2, PTL DEF Spec

(* doConnect, readTransaction and writeTransaction never drive the line    *)
(* while the target does, whatever the ack read and the one given.         *)
THEOREM NoContentionHolds == Spec => []NoContention
  <1>1. Inv => NoContention
    <2> SUFFICES ASSUME Inv PROVE NoContention
      OBVIOUS
    <2>1. CASE at \in {"turn", "ack", "read", "release", "eat"}
      BY <2>1 DEF NoContention, Drives, Reading
    <2>2. CASE at = "parked"
      BY <2>2 DEF Inv, Parked, NoContention, TargetDrives
    <2>3. CASE at = "connect"
      BY <2>3 DEF Inv, InConnect, Off, NoContention, TargetDrives
    <2>4. CASE at \in {"header", "data", "turnaround", "idle"}
      BY <2>4 DEF Inv, InHeader, InData, InTurnaround, InIdle, Off, Lost, NoContention,
                  TargetDrives
    <2> QED
      BY <2>1, <2>2, <2>3, <2>4 DEF Inv, TypeOK, Parts
  <1> QED
    BY <1>1, Invariance, PTL

(* Every transaction leaves the target waiting for a start bit, or off:    *)
(* lineIdle ends what an answer gone wrong has left open.                  *)
THEOREM InFrameHolds == Spec => []InFrame
  <1>1. Inv => InFrame
    BY DEF Inv, Parked, InFrame
  <1> QED
    BY <1>1, Invariance, PTL

(* A transaction that returns OK has done what it was asked to do: parity  *)
(* finds every single garbled bit.                                         *)
THEOREM OkMeansDoneHolds == Spec => []OkMeansDone
  <1>1. Inv => OkMeansDone
    <2> SUFFICES ASSUME Inv, at = "parked", swdcode = SWD_OK, did # "lost"
                 PROVE  /\ Understood
                        /\ op.read = 1 => did = "read" /\ got = bits
                        /\ op.read = 0 => \/ did = "write" /\ SubSeq(bits, 1, WordBits) = op.data
                                          \/ did = "error"
      BY DEF OkMeansDone
    <2>1. IF op.read = 1 THEN ReadDone ELSE WriteDone
      BY DEF Inv, Parked, Outcome, Acks, SWD_OK, SWD_WAIT, SWD_FAIL
    <2>2. Request /\ TypeOK /\ hdr \in Seq(Bit)
      BY <2>1 DEF ReadDone, WriteDone, Inv, TypeOK
    <2>3. Understood
      BY <2>2, RequestTaken DEF Request, Understood
    <2> QED
      BY <2>1, <2>3 DEF ReadDone, WriteDone
  <1> QED
    BY <1>1, Invariance, PTL

(* A transaction that returns WAIT, or a write that returns FAIL, has done *)
(* nothing, so that the retry loops repeat no access.                      *)
THEOREM WaitMeansNotDoneHolds == Spec => []WaitMeansNotDone
  <1>1. Inv => WaitMeansNotDone
    BY DEF Inv, Parked, Outcome, WaitMeansNotDone, Fresh, Acks, SWD_OK, SWD_WAIT, SWD_FAIL
  <1> QED
    BY <1>1, Invariance, PTL

(* doConnect finds a target, whatever state it was in, unless it loses     *)
(* power meanwhile.                                                        *)
THEOREM RecoversHolds == Spec => []Recovers
  <1>1. Inv => Recovers
    BY DEF Inv, InHeader, Recovers, Lost
  <1> QED
    BY <1>1, Invariance, PTL
=============================================================================
