------------------------------ MODULE SwdWire ------------------------------
(***************************************************************************)
(* SWDInterfaceBase (low_level.cpp): transactions on the two-wire line,    *)
(* one clock cycle per step.  In each cycle the programmer and the target  *)
(* both look at the one data line, which one of them drives, or neither    *)
(* (then the pull-up of the target holds it at 1), or both.  The target is *)
(* external: a debug port that follows the same protocol, answers what it  *)
(* likes, and may lose power in any cycle.                                 *)
(***************************************************************************)
EXTENDS Integers, Sequences, FiniteSets

CONSTANTS
    WordBits,   \* 32
    Words,      \* the words transferred, as sequences of bits, LSB first
    IdleBits,   \* the length of lineIdle, 8
    ResetBits,  \* the length of lineReset, 64
    ResetOnes,  \* the 1s the target takes for a line reset, 50
    Noise,      \* how many bits are garbled per transaction, at most
    Ops         \* the transactions that may be asked for

Bit == {0, 1}

ASSUME SizesAssumption ==
    /\ WordBits \in Nat /\ WordBits > 0 /\ IdleBits \in Nat /\ IdleBits > 0
    /\ ResetBits \in Nat /\ ResetOnes \in Nat /\ ResetBits >= ResetOnes /\ ResetOnes > 0
    /\ Noise \in Nat
\* A word is longer than a header after a start bit; no data phase can pass for
\* a line reset; and one bit of a transaction may be garbled, but not two.
ASSUME WireTimingAssumption ==
    /\ WordBits >= 8 /\ ResetOnes > WordBits + 7
    /\ Noise <= 1
ASSUME WireWordsAssumption == Words \subseteq [1 .. WordBits -> Bit]

\* The acks, in the order of their bits on the line.
SWD_OK   == <<1, 0, 0>>
SWD_WAIT == <<0, 1, 0>>
SWD_FAIL == <<0, 0, 1>>
Acks == {SWD_OK, SWD_WAIT, SWD_FAIL}

Op == [connect : {FALSE}, APnDP : Bit, read : Bit, address : Bit \X Bit, data : Words]
      \cup [connect : {TRUE}, APnDP : {0}, read : {1}, address : {<<0, 0>>}, data : Words]

ASSUME OpsAssumption == Ops \subseteq Op

VARIABLES
    \* the programmer
    op,         \* the transaction
    at,         \* the part of it in progress, or "parked"
    n,          \* bits of that part done
    swdcode,    \* ack bits read so far; the value returned
    got,        \* data and parity bits read
    \* the target
    tat,        \* what it is doing
    tn,         \* bits of that done
    ones,       \* 1s received in a row
    hdr,        \* the header bits after the start bit
    answer,     \* the ack it gives
    bits,       \* the data and parity bits it sends or has received
    did,        \* what it did for this transaction
    \* the line
    garbled     \* bits of this transaction that were garbled

hostVars   == <<op, at, n, swdcode, got>>
targetVars == <<tat, tn, ones, hdr, answer, bits, did>>
vars       == <<op, at, n, swdcode, got, tat, tn, ones, hdr, answer, bits, did, garbled>>

-----------------------------------------------------------------------------
(* calcParity.                                                             *)
Parity(s) == Cardinality({i \in DOMAIN s : s[i] = 1}) % 2

Ones(k)  == [i \in 1 .. k |-> 1]
Zeros(k) == [i \in 1 .. k |-> 0]

(* 0xE79E, LSB first, written as a word of 32 bits.                        *)
JtagToSwd == <<0,1,1,1, 1,0,0,1, 1,1,1,0, 0,1,1,1>> \o Zeros(16)

(* Faulty: no line reset after the switch from JTAG.                       *)
ConnectBitsOnce == Ones(ResetBits) \o JtagToSwd \o Zeros(IdleBits)

ConnectBits == Ones(ResetBits) \o JtagToSwd \o Ones(ResetBits) \o Zeros(IdleBits)

Header(o) ==
    LET request == <<o.APnDP, o.read, o.address[1], o.address[2]>>
    IN  <<0, 1>> \o request \o <<Parity(request), 0, 1>>

(* The bits the programmer writes in a part in which it drives the line.   *)
Written(part, o) ==
    CASE part = "connect"    -> ConnectBits
      [] part = "header"     -> Header(o)
      [] part = "data"       -> Append(o.data, Parity(o.data))
      [] part = "turnaround" -> <<0>>
      [] part = "idle"       -> Zeros(IdleBits)

(* How many bits it reads in one in which it does not.                     *)
BitsRead(part) ==
    CASE part \in {"turn", "release"} -> 1
      [] part = "ack"                 -> 3
      [] part \in {"read", "eat"}     -> WordBits + 1

Reading == at \in {"turn", "ack", "read", "release", "eat"}
Drives  == ~Reading     \* parked, the data pin is an output as well
Length  == IF Reading THEN BitsRead(at) ELSE Len(Written(at, op))

(* Faulty: after a protocol error the line is taken back at once.          *)
AfterAckImpatient(code) ==
    CASE code = SWD_OK                 -> IF op.read = 1 THEN "read" ELSE "release"
      [] code \in {SWD_WAIT, SWD_FAIL} -> "release"
      [] code \notin Acks              -> "idle"

(* Faulty: no turn-around bit after WAIT and FAIL.                         *)
AfterAckHasty(code) ==
    CASE code = SWD_OK                 -> IF op.read = 1 THEN "read" ELSE "release"
      [] code \in {SWD_WAIT, SWD_FAIL} -> "parked"
      [] code \notin Acks              -> "eat"

AfterAck(code) ==
    CASE code = SWD_OK                 -> IF op.read = 1 THEN "read" ELSE "release"
      [] code \in {SWD_WAIT, SWD_FAIL} -> "release"
      [] code \notin Acks              -> "eat"

(* The part that follows the one in progress, given the ack.               *)
After(code) ==
    CASE at = "connect"                       -> "header"
      [] at = "header"                        -> "turn"
      [] at = "turn"                          -> "ack"
      [] at = "ack"                           -> AfterAck(code)
      [] at = "release"                       -> IF code = SWD_OK THEN "data" ELSE "parked"
      [] at = "read"                          -> "turnaround"
      [] at \in {"turnaround", "data", "eat"} -> "idle"
      [] at = "idle"                          -> "parked"

ReadAck(b) == Append(swdcode, b)

(* Faulty: the parity bit is read and ignored.                             *)
CheckedUnchecked(s) == swdcode

(* Faulty: a parity error asks for a retry.                                *)
CheckedRetrying(s) ==
    IF Parity(SubSeq(s, 1, WordBits)) = s[WordBits + 1] THEN swdcode ELSE SWD_WAIT

(* A parity error in the data is returned as a FAIL.                       *)
Checked(s) ==
    IF Parity(SubSeq(s, 1, WordBits)) = s[WordBits + 1] THEN swdcode ELSE SWD_FAIL

(* The programmer's part of a cycle in which it sees b on the line.        *)
HostCycle(b) ==
    /\ swdcode' = CASE at = "ack"                       -> ReadAck(b)
                    [] at = "read" /\ n + 1 = Length    -> Checked(Append(got, b))
                    [] OTHER                            -> swdcode
    /\ got' = IF at = "read" THEN Append(got, b) ELSE got
    /\ IF n + 1 < Length
         THEN n' = n + 1 /\ at' = at
         ELSE n' = 0 /\ at' = After(swdcode')
    /\ UNCHANGED op

-----------------------------------------------------------------------------
(* The target.                                                             *)
TargetDrives == tat \in {"ack", "send"}
TargetBit    == IF tat = "ack" THEN answer[tn + 1] ELSE bits[tn + 1]

TargetGoes(p) ==
    /\ tat' = p /\ tn' = 0
    /\ UNCHANGED <<hdr, answer, bits, did>>

TargetStays ==
    /\ tn' = tn + 1
    /\ UNCHANGED <<tat, hdr, answer, bits, did>>

(* It is listening for a start bit, has been reset and waits for a 0, or   *)
(* is "off": without power or in the protocol error state, both of which   *)
(* only a line reset ends.                                                 *)
TargetListens(b) ==
    \/ tat = "off" /\ TargetGoes("off")
    \/ tat = "reset" /\ TargetGoes(IF b = 0 THEN "listen" ELSE "reset")
    \/ /\ tat = "listen" /\ b = 0 /\ TargetGoes("listen")
    \/ /\ tat = "listen" /\ b = 1
       /\ tat' = "header" /\ hdr' = <<>> /\ bits' = <<>> /\ tn' = 0
       /\ UNCHANGED <<answer, did>>

(* The request, its parity, a stop bit 0 and a park bit 1.                 *)
TargetHeader(b) ==
    /\ tat = "header"
    /\ hdr' = Append(hdr, b)
    /\ UNCHANGED <<answer, bits, did>>
    /\ IF Len(hdr') < 7
         THEN UNCHANGED <<tat, tn>>
         ELSE /\ tn' = 0
              /\ tat' = IF hdr'[5] = Parity(SubSeq(hdr', 1, 4)) /\ hdr'[6] = 0 /\ hdr'[7] = 1
                          THEN "turn" ELSE "off"

(* It decides what to answer and, for a read, with which word.             *)
TargetTurn ==
    /\ tat = "turn"
    /\ tat' = "ack" /\ tn' = 0
    /\ answer' \in Acks
    /\ \E w \in Words : bits' = IF hdr[2] = 1 THEN Append(w, Parity(w)) ELSE <<>>
    /\ UNCHANGED <<hdr, did>>

TargetAck ==
    /\ tat = "ack"
    /\ \/ tn < 2 /\ TargetStays
       \/ tn = 2 /\ answer = SWD_OK /\ hdr[2] = 0 /\ TargetGoes("turnaround")
       \/ tn = 2 /\ answer # SWD_OK /\ TargetGoes("release")
       \/ /\ tn = 2 /\ answer = SWD_OK /\ hdr[2] = 1
          /\ tat' = "send" /\ tn' = 0 /\ did' = "read"
          /\ UNCHANGED <<hdr, answer, bits>>

TargetData(b) ==
    \/ tat = "send" /\ tn < WordBits /\ TargetStays
    \/ tat = "send" /\ tn = WordBits /\ TargetGoes("release")
    \/ tat = "release" /\ TargetGoes("listen")
    \/ tat = "turnaround" /\ TargetGoes("receive")
    \/ /\ tat = "receive"
       /\ bits' = Append(bits, b)
       /\ \/ tn < WordBits /\ tn' = tn + 1 /\ UNCHANGED <<tat, did>>
          \/ /\ tn = WordBits /\ tn' = 0 /\ tat' = "listen"
             /\ did' = IF Parity(SubSeq(bits', 1, WordBits)) = b THEN "write" ELSE "error"
       /\ UNCHANGED <<hdr, answer>>

TargetCycle(b) ==
    /\ ones' = IF TargetDrives \/ b = 0 \/ ones + 1 = ResetOnes THEN 0 ELSE ones + 1
    /\ IF ~TargetDrives /\ b = 1 /\ ones + 1 = ResetOnes
         THEN TargetGoes("reset")
         ELSE TargetListens(b) \/ TargetHeader(b) \/ TargetTurn \/ TargetAck \/ TargetData(b)

(* From here on nothing the target did for the transaction is certain.     *)
PowerLoss ==
    /\ tat # "off"
    /\ tat' = "off" /\ tn' = 0 /\ ones' = 0 /\ hdr' = <<>> /\ bits' = <<>> /\ did' = "lost"
    /\ UNCHANGED <<answer, garbled>> /\ UNCHANGED hostVars

-----------------------------------------------------------------------------
(* What is on the line.  Noise may garble what the programmer reads of an  *)
(* ack or of data, and what the target receives as data.                   *)
Line ==
    CASE Drives                  -> Written(at, op)[n + 1]
      [] ~Drives /\ TargetDrives -> TargetBit
      [] OTHER                   -> 1

Clock ==
    /\ at # "parked"
    /\ \E seen, received \in Bit :
        /\ seen # Line     => at \in {"ack", "read"}
        /\ received # Line => at = "data" /\ tat = "receive"
        /\ garbled' = garbled + IF seen # Line \/ received # Line THEN 1 ELSE 0
        /\ garbled' <= Noise
        /\ HostCycle(seen) /\ TargetCycle(received)

Begin(o) ==
    /\ at = "parked"
    /\ op' = o
    /\ at' = IF o.connect THEN "connect" ELSE "header"
    /\ n' = 0 /\ swdcode' = <<>> /\ got' = <<>>
    /\ did' = "nothing" /\ garbled' = 0
    /\ UNCHANGED <<tat, tn, ones, hdr, answer, bits>>

Init ==
    /\ op \in Ops /\ at = "parked" /\ n = 0 /\ swdcode = <<>> /\ got = <<>>
    /\ tat = "off" /\ tn = 0 /\ ones = 0 /\ hdr = <<>> /\ answer = SWD_OK /\ bits = <<>>
    /\ did = "lost" /\ garbled = 0

Next == (\E o \in Ops : Begin(o)) \/ Clock \/ PowerLoss

Spec == Init /\ [][Next]_vars

-----------------------------------------------------------------------------

(* The two sides never drive the line against each other, not even when    *)
(* the programmer reads another ack than the target gave: a single garbled *)
(* bit turns none of the three acks into another, and on anything else the *)
(* programmer keeps off the line for as long as the target may send.       *)
NoContention == ~(Drives /\ TargetDrives)

(* A transaction ends with the target waiting for the next start bit or    *)
(* for a line reset, never in the middle of something: one bad answer does *)
(* not make it misread the next request.                                   *)
InFrame == at = "parked" => tat \in {"off", "reset", "listen"}

(* The requested access, as the target understood it.                      *)
Understood == SubSeq(hdr, 1, 4) = <<op.APnDP, op.read, op.address[1], op.address[2]>>

(* OK means done: what a read returns is what the target sent, and what a  *)
(* write sent is what the target took, or the target has noted the error.  *)
OkMeansDone ==
    at = "parked" /\ swdcode = SWD_OK /\ did # "lost" =>
        /\ Understood
        /\ op.read = 1 => did = "read" /\ got = bits
        /\ op.read = 0 => \/ did = "write" /\ SubSeq(bits, 1, WordBits) = op.data
                          \/ did = "error"

(* WAIT means that nothing happened, so the retry loops of mid_level.cpp   *)
(* repeat no access; the same for a write that is answered FAIL.           *)
WaitMeansNotDone ==
    at = "parked" /\ (swdcode = SWD_WAIT \/ (swdcode = SWD_FAIL /\ op.read = 0))
        => did \in {"nothing", "lost"}

(* doConnect brings the target back from wherever noise or a power loss    *)
(* has left it: its IDCODE request finds the target listening.             *)
Recovers == at = "header" /\ n = 0 /\ op.connect /\ did # "lost" => tat = "listen"

(* low_level.cpp, on the protocol error path of both transactions: "eat    *)
(* data + parity bit".  When the programmer takes the line back, the data  *)
(* phase is over for the target, too.                                      *)
DataAndParityEaten ==
    at = "idle" /\ n = 0 /\ swdcode \notin Acks => tat \notin {"send", "turnaround", "receive"}
=============================================================================
