----------------------------- MODULE Programmer -----------------------------
(***************************************************************************)
(* The command interpreter of the programmer: loop() of swdinterface.ino   *)
(* with its receive and transmit buffers.  Bytes of a packet arrive one by *)
(* one; a packet is decoded, its commands are executed one after the       *)
(* other, results are queued in g_txbuffer and sent behind a status byte.  *)
(*                                                                         *)
(* Bytes are counted, not represented: a command is its kind, a result the *)
(* index of the command that produced it.  The SWD driver is represented   *)
(* by the status it returns (module SwdPort shows that it always does).    *)
(***************************************************************************)
EXTENDS Integers, Sequences, SequencesExt

CONSTANTS
    RxSize,      \* sizeof(g_rxbuffer), 64
    TxSize,      \* sizeof(g_txbuffer), 64
    WaitRetries, \* MAX_RETRIES of WAITMEMTRUE, 100
    Ids,         \* names that tell packets apart
    Programs,    \* the command sequences the host may send
    Garbage,     \* the command sequences the tail of a packet may decode to
    MaxLine,     \* bound: packets waiting in the serial port
    MaxReplies   \* bound: replies waiting on the host's side

ReadKinds  == {"CONNECT", "READDP", "READAP", "READMEM"}
WriteKinds == {"WRITEDP", "WRITEAP", "WRITEMEM"}
Kinds == ReadKinds \cup WriteKinds \cup {"RESET", "WAITMEMTRUE", "GETPROGID", "UNKNOWN"}

ASSUME BufferAssumption == RxSize \in Nat /\ TxSize \in Nat /\ RxSize > 0 /\ TxSize > 1
ASSUME RetryAssumption == WaitRetries \in Nat /\ WaitRetries > 0
ASSUME ProgramsAssumption == Programs \subseteq Seq(Kinds) /\ Garbage \subseteq Seq(Kinds)
ASSUME BoundsAssumption == MaxLine \in Nat /\ MaxReplies \in Nat

(* What ptr advances over, and the result bytes of a command.              *)
Size ==
    [k \in Kinds |->
        CASE k \in {"CONNECT", "GETPROGID", "UNKNOWN"}             -> 1
          [] k \in {"RESET", "READDP"}                             -> 2
          [] k \in {"READAP", "READMEM"}                           -> 5
          [] k = "WRITEDP"                                         -> 6
          [] k \in {"WRITEAP", "WRITEMEM", "WAITMEMTRUE"}          -> 9]
ResultSize ==
    [k \in Kinds |-> IF k \in ReadKinds \cup {"UNKNOWN"} THEN 4
                     ELSE IF k = "GETPROGID" THEN 3 ELSE 0]

Bytes(cmds) == FoldLeft(LAMBDA n, k : n + Size[k], 0, cmds)
Encoded(cmds) == Bytes(cmds) + 1    \* COBS adds one byte before the terminator

Errors   == {"TIMEOUT", "SWDFAULT"}
Statuses == Errors \cup {"OK", "RXOVERFLOW", "UNKNOWNCMD"}
Packet   == [id : Ids, cmds : Programs]
NoJob    == [id |-> CHOOSE i \in Ids : TRUE, cmds |-> <<>>]

VARIABLES
    line,        \* packets sent by the host and not yet read to the end
    read,        \* bytes read of the first of them
    g_rxidx,
    mangled,     \* the receive buffer overflowed during this packet
    job,         \* the packet being executed, or NoJob
    prog, ip,    \* decodebuffer, and the command that ptr points at
    pc,          \* "receive", "execute", or "wait" in the WAITMEMTRUE loop
    retries,
    g_txidx,
    queued,      \* results in g_txbuffer: pairs of command index and bytes
    performed,   \* history: commands of prog that succeeded, in order
    answered,    \* history: replies sent for the packet read last, counted up to 2
    replies      \* replies on their way to the host

rxVars   == <<line, read, g_rxidx, mangled>>
execVars == <<job, prog, ip, pc, retries, performed>>
txVars   == <<g_txidx, queued, answered, replies>>
vars == <<line, read, g_rxidx, mangled, job, prog, ip, pc, retries,
          g_txidx, queued, performed, answered, replies>>

-----------------------------------------------------------------------------
(* queueReplyUInt32 and queueReplyUInt8.  Both refuse when the buffer is   *)
(* full, and the callers ignore the refusal.                               *)
QueueWord ==
    IF g_txidx + 4 >= TxSize THEN UNCHANGED <<g_txidx, queued>>
    ELSE g_txidx' = g_txidx + 4 /\ queued' = Append(queued, <<ip, 4>>)

(* Faulty: the index advances although a byte was refused.                 *)
QueueProgIdBlindly ==
    LET room == TxSize - g_txidx
        n    == IF room < 3 THEN room ELSE 3
    IN  /\ g_txidx' = IF n > 0 THEN g_txidx + 3 ELSE g_txidx
        /\ queued' = IF n > 0 THEN Append(queued, <<ip, n>>) ELSE queued

QueueProgId ==
    LET room == TxSize - g_txidx
        n    == IF room < 3 THEN room ELSE 3
    IN  /\ g_txidx' = g_txidx + n
        /\ queued' = IF n > 0 THEN Append(queued, <<ip, n>>) ELSE queued

(* Faulty: the transmit buffer is not emptied.                             *)
SendReplyKeeping(for, s, data, spoilt) ==
    LET r == [job |-> for, status |-> s, data |-> data,
              performed |-> performed, mangled |-> spoilt, first |-> answered = 0]
    IN  /\ replies' = IF Len(replies) < MaxReplies THEN Append(replies, r) ELSE replies
        /\ answered' = IF answered < 2 THEN answered + 1 ELSE 2
        /\ UNCHANGED <<g_txidx, queued>>

(* sendReply: the status, the results queued in data, and a fresh buffer.  *)
(* for is the packet in whose processing the reply is sent.                *)
SendReply(for, s, data, spoilt) ==
    LET r == [job |-> for, status |-> s, data |-> data,
              performed |-> performed, mangled |-> spoilt, first |-> answered = 0]
    IN  /\ replies' = IF Len(replies) < MaxReplies THEN Append(replies, r) ELSE replies
        /\ answered' = IF answered < 2 THEN answered + 1 ELSE 2
        /\ g_txidx' = 1 /\ queued' = <<>>

-----------------------------------------------------------------------------
(* The receiving half of loop().                                           *)
More == line # <<>> /\ read < Encoded(Head(line).cmds)

(* A byte is stored.                                                       *)
ReadByte ==
    /\ pc = "receive" /\ More
    /\ g_rxidx < RxSize
    /\ g_rxidx' = g_rxidx + 1
    /\ read' = read + 1
    /\ mangled' = (read > 0 /\ mangled)
    /\ answered' = IF read = 0 THEN 0 ELSE answered
    /\ UNCHANGED <<line, g_txidx, queued, replies>> /\ UNCHANGED execVars

(* The byte that does not fit is dropped, and so is what was received, but *)
(* not what is still to come.                                              *)
RxOverflow ==
    /\ pc = "receive" /\ More
    /\ g_rxidx >= RxSize
    /\ g_rxidx' = 0
    /\ read' = read + 1
    /\ mangled' = TRUE
    /\ SendReply(Head(line), "RXOVERFLOW", <<>>, TRUE)
    /\ UNCHANGED line /\ UNCHANGED execVars

(* The commands found in n received bytes that are not a whole packet: the *)
(* last one may reach past their end.                                      *)
Decodable(cmds, n) == cmds = <<>> \/ Bytes(Front(cmds)) < n - 1

(* The terminator: decode what the buffer holds.                           *)
Decode ==
    /\ pc = "receive" /\ line # <<>> /\ ~More
    /\ \E cmds \in IF mangled THEN {g \in Garbage : Decodable(g, g_rxidx)}
                   ELSE {Head(line).cmds} :
            prog' = cmds
    /\ ip' = 1 /\ pc' = "execute" /\ retries' = 0
    /\ g_rxidx' = 0
    /\ job' = Head(line)
    /\ line' = Tail(line) /\ read' = 0
    /\ performed' = <<>>
    /\ UNCHANGED mangled /\ UNCHANGED txVars

-----------------------------------------------------------------------------
(* The executing half.                                                     *)
At(kinds) == pc = "execute" /\ ip <= Len(prog) /\ prog[ip] \in kinds

Advance ==
    /\ ip' = ip + 1 /\ pc' = "execute"
    /\ performed' = Append(performed, ip)
    /\ UNCHANGED <<job, prog, retries>>

(* sendReply(status); return: the rest of the packet is abandoned, and the *)
(* locals of loop() are gone.                                              *)
Abort(s, data) ==
    /\ SendReply(job, s, data, mangled)
    /\ pc' = "receive"
    /\ job' = NoJob /\ prog' = <<>> /\ ip' = 1 /\ retries' = 0 /\ performed' = <<>>

(* Faulty: the reply is sent, but the return is missing.                   *)
ExecuteReadNoReturn ==
    /\ At(ReadKinds)
    /\ \/ Advance /\ QueueWord /\ UNCHANGED <<answered, replies>>
       \/ \E s \in Errors :
            /\ SendReply(job, s, queued, mangled)
            /\ ip' = ip + 1
            /\ UNCHANGED <<job, prog, pc, retries, performed>>
    /\ UNCHANGED rxVars

(* Faulty: a failed read is skipped.                                       *)
ExecuteReadIgnoring ==
    /\ At(ReadKinds)
    /\ \/ Advance /\ QueueWord /\ UNCHANGED <<answered, replies>>
       \/ /\ ip' = ip + 1
          /\ UNCHANGED <<job, prog, pc, retries, performed>> /\ UNCHANGED txVars
    /\ UNCHANGED rxVars

ExecuteRead ==
    /\ At(ReadKinds)
    /\ \/ Advance /\ QueueWord /\ UNCHANGED <<answered, replies>>
       \/ \E s \in IF prog[ip] = "CONNECT" THEN {"SWDFAULT"} ELSE Errors : Abort(s, queued)
    /\ UNCHANGED rxVars

ExecuteWrite ==
    /\ At(WriteKinds)
    /\ \/ Advance /\ UNCHANGED txVars
       \/ \E s \in Errors : Abort(s, queued)
    /\ UNCHANGED rxVars

ExecuteReset ==
    /\ At({"RESET"})
    /\ Advance
    /\ UNCHANGED rxVars /\ UNCHANGED txVars

ExecuteGetProgId ==
    /\ At({"GETPROGID"})
    /\ Advance /\ QueueProgId
    /\ UNCHANGED <<answered, replies>> /\ UNCHANGED rxVars

ExecuteUnknown ==
    /\ At({"UNKNOWN"})
    /\ LET fits == g_txidx + 4 < TxSize
       IN  Abort("UNKNOWNCMD", IF fits THEN Append(queued, <<ip, 4>>) ELSE queued)
    /\ UNCHANGED rxVars

WaitBegin ==
    /\ At({"WAITMEMTRUE"})
    /\ pc' = "wait" /\ retries' = 0
    /\ UNCHANGED <<job, prog, ip, performed>> /\ UNCHANGED rxVars /\ UNCHANGED txVars

WaitMatch ==
    /\ pc = "wait" /\ retries < WaitRetries
    /\ Advance
    /\ UNCHANGED rxVars /\ UNCHANGED txVars

WaitError ==
    /\ pc = "wait" /\ retries < WaitRetries
    /\ \E s \in Errors : Abort(s, queued)
    /\ UNCHANGED rxVars

WaitAgain ==
    /\ pc = "wait" /\ retries < WaitRetries
    /\ retries' = retries + 1
    /\ UNCHANGED <<job, prog, ip, pc, performed>> /\ UNCHANGED rxVars /\ UNCHANGED txVars

(* The last retry is used up: TIMEOUT is sent, but the break leaves only   *)
(* the switch, with ptr still at the WAITMEMTRUE command.                  *)
WaitTimeout ==
    /\ pc = "wait" /\ retries = WaitRetries
    /\ SendReply(job, "TIMEOUT", queued, mangled)
    /\ pc' = "execute"
    /\ UNCHANGED <<job, prog, ip, retries, performed>> /\ UNCHANGED rxVars

(* Faulty: nothing is sent when there are no results.                      *)
FinishSilently ==
    /\ pc = "execute" /\ ip > Len(prog)
    /\ \/ queued # <<>> /\ Abort("OK", queued)
       \/ /\ queued = <<>>
          /\ pc' = "receive"
          /\ job' = NoJob /\ prog' = <<>> /\ ip' = 1 /\ retries' = 0 /\ performed' = <<>>
          /\ UNCHANGED txVars
    /\ UNCHANGED rxVars

Finish ==
    /\ pc = "execute" /\ ip > Len(prog)
    /\ Abort("OK", queued)
    /\ UNCHANGED rxVars

(* All but the two steps that reply and then go on with the same packet.   *)
Steady ==
    \/ ReadByte \/ Decode
    \/ ExecuteRead \/ ExecuteWrite \/ ExecuteReset \/ ExecuteGetProgId \/ ExecuteUnknown
    \/ WaitBegin \/ WaitMatch \/ WaitError \/ WaitAgain \/ Finish
Loop == Steady \/ RxOverflow \/ WaitTimeout

-----------------------------------------------------------------------------
(* The host, reduced to what the line carries.                             *)
Send(p) ==
    /\ Len(line) < MaxLine
    /\ line' = Append(line, p)
    /\ UNCHANGED <<read, g_rxidx, mangled>> /\ UNCHANGED execVars /\ UNCHANGED txVars

TakeReply ==
    /\ replies # <<>>
    /\ replies' = Tail(replies)
    /\ UNCHANGED <<g_txidx, queued, answered>>
    /\ UNCHANGED rxVars /\ UNCHANGED execVars

(* Nothing the interpreter does depends on replies, and it looks at line   *)
(* only between packets: it is enough that the host sends when neither     *)
(* holds anything.                                                         *)
Host ==
    \/ line = <<>> /\ replies = <<>> /\ pc = "receive" /\ \E p \in Packet : Send(p)
    \/ TakeReply

Init ==
    /\ line = <<>> /\ read = 0 /\ g_rxidx = 0 /\ mangled = FALSE
    /\ job = NoJob
    /\ prog = <<>> /\ ip = 1 /\ pc = "receive" /\ retries = 0
    /\ g_txidx = 1 /\ queued = <<>>
    /\ performed = <<>> /\ answered = 0 /\ replies = <<>>

Next == Loop \/ Host

(* The processor runs loop() for ever.  WAITMEMTRUE may never match.       *)
Spec == Init /\ [][Next]_vars /\ WF_vars(Loop)

-----------------------------------------------------------------------------
(* The results the commands of p performed so far have to return, and      *)
(* their size.                                                             *)
ResultsOf(cmds, done) ==
    LET results[k \in 0 .. Len(done)] ==
            IF k = 0 THEN <<>>
            ELSE IF ResultSize[cmds[done[k]]] = 0 THEN results[k - 1]
            ELSE Append(results[k - 1], <<done[k], ResultSize[cmds[done[k]]]>>)
    IN  results[Len(done)]
BytesOf(results) ==
    LET sum[k \in 0 .. Len(results)] == IF k = 0 THEN 0 ELSE sum[k - 1] + results[k][2]
    IN  sum[Len(results)]

Untouched == {k \in 1 .. Len(replies) : ~replies[k].mangled}

(* A reply that says OK was sent after every command of the packet was     *)
(* performed once, in order; one that says otherwise after a proper prefix *)
(* of them.  Packets that overflowed the buffer are excepted.              *)
OkMeansPerformed ==
    \A k \in Untouched :
        LET r == replies[k]
        IN  /\ r.performed = [i \in 1 .. Len(r.performed) |-> i]
            /\ (r.status = "OK") <=> (Len(r.performed) = Len(r.job.cmds))

(* The first reply to a packet carries the results of exactly the commands *)
(* performed of that packet, in order, as long as they leave one byte of   *)
(* g_txbuffer free: nothing is left over from an aborted packet, nothing   *)
(* is lost.  An UNKNOWNCMD reply has one more word.                        *)
ResultsMatch ==
    \A k \in Untouched :
        LET r    == replies[k]
            due  == ResultsOf(r.job.cmds, r.performed)
            all  == IF r.status = "UNKNOWNCMD"
                    THEN Append(due, <<Len(r.performed) + 1, 4>>) ELSE due
        IN  r.first /\ 1 + BytesOf(all) < TxSize => r.data = all

(* Neither buffer is overrun; g_txidx and the contents of the buffer agree,*)
(* and between packets the buffer is empty and there is room for the status*)
(* byte.                                                                   *)
TxConsistent ==
    /\ g_rxidx \in 0 .. RxSize /\ g_txidx \in 1 .. TxSize
    /\ g_txidx = 1 + BytesOf(queued)
    /\ pc = "receive" => g_txidx = 1

(* Every packet, whatever it holds and however long it is, gets an answer. *)
PacketsAnswered == (read > 0) ~> (answered > 0)

-----------------------------------------------------------------------------
(* What doc/protocol.md says, and loop() does not do.                      *)

(* "only one status code is generated for every packet"                    *)
OneStatusPerPacket == answered <= 1

(* "The programming hardware must implement a time-out on all commands."   *)
CommandsTimeOut == (pc = "wait") ~> (pc = "receive")
=============================================================================
