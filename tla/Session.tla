------------------------------ MODULE Session ------------------------------
(***************************************************************************)
(* The host end of the line and the programmer together.  The host is      *)
(* executeCmdQueue (squirrel_funcs.cpp) over HardwareInterface, as the     *)
(* immediate functions of targetfuncs.nut use it: clear and fill the       *)
(* command queue, write the packet, read a packet or time out, pop the     *)
(* status and the results.  A timeout is real: the reply may still come.   *)
(***************************************************************************)
EXTENDS Programmer

CONSTANTS
    ConnectRetries,  \* the 10 of connect()
    MaxPackets       \* bound: packets the host sends

ASSUME SessionAssumption ==
    /\ ConnectRetries \in Nat \ {0} /\ MaxPackets \in Nat /\ Ids = 0 .. MaxPackets
    /\ MaxReplies > 0    \* the bound leaves room for the reply of one packet

ConnectCmds == <<"CONNECT">>
Nothing == [status |-> "NONE", data |-> <<>>]    \* an empty result queue
NotConnected == -1

VARIABLES
    hpc,           \* "script", "write", "read" or "check"
    g_cmdQueue,
    g_resultQueue, \* the reply read: its status and results
    got,           \* bytes read so far of the first frame in the port
    origin,        \* history: the reply g_resultQueue was read from, or Nothing
    tries,         \* retries of connect()
    sent,          \* history: packets written so far, the id of the next one
    idcode,        \* what connect() returned last
    disturbed      \* history: something was late, lost, torn or answered twice

hostVars == <<hpc, g_cmdQueue, g_resultQueue, got, origin, tries, sent, idcode>>
sessionVars == <<vars, hostVars, disturbed>>

-----------------------------------------------------------------------------
(* A script function: clearCmdQueue, then one packet of commands.          *)
Call(cmds) ==
    /\ hpc = "script" /\ sent < MaxPackets
    /\ g_cmdQueue' = cmds
    /\ tries' = 0
    /\ hpc' = "write"
    /\ UNCHANGED <<g_resultQueue, got, origin, sent, idcode, disturbed>>
    /\ UNCHANGED vars

(* writePacket may fail, with the bytes still going out (a timeout on      *)
(* write) or not; executeCmdQueue goes on to read all the same, with an    *)
(* empty result queue.                                                     *)
WritePacket ==
    /\ hpc = "write" /\ sent < MaxPackets
    /\ \E wrote \in BOOLEAN :
        /\ disturbed' = (disturbed \/ ~wrote)
        /\ \/ Send([id |-> sent, cmds |-> g_cmdQueue])
           \/ ~wrote /\ UNCHANGED vars
    /\ sent' = sent + 1
    /\ g_resultQueue' = Nothing /\ origin' = Nothing
    /\ hpc' = "read"
    /\ UNCHANGED <<g_cmdQueue, got, tries, idcode>>

(* sendReply's frame before its terminator: the first code of the encoder, *)
(* the status, the results.                                                *)
FrameSize(r) == 2 + BytesOf(r.data)

(* One turn of readPacket's loop: a byte that is not the terminator.  The  *)
(* next wait starts its time-out anew.                                     *)
ReadFrameByte ==
    /\ hpc = "read" /\ replies # <<>>
    /\ got < FrameSize(replies[1])
    /\ got' = got + 1
    /\ UNCHANGED vars
    /\ UNCHANGED <<hpc, g_cmdQueue, g_resultQueue, origin, tries, sent, idcode, disturbed>>

(* The loop's last turn, the terminator of a frame read from its           *)
(* beginning: readPacket succeeds, whichever packet the frame answers.     *)
(* What executeCmdQueue returns is 0 in every case.                        *)
ReadPacket ==
    /\ hpc = "read" /\ replies # <<>>
    /\ got = FrameSize(replies[1]) /\ replies[1].status # "TORN"
    /\ g_resultQueue' = [status |-> replies[1].status, data |-> replies[1].data]
    /\ origin' = replies[1]
    /\ TakeReply /\ got' = 0
    /\ hpc' = "check"
    /\ UNCHANGED <<g_cmdQueue, tries, sent, idcode, disturbed>>

(* The terminator of a frame whose beginning an earlier read took: what is *)
(* left decodes to some other packet, or to nothing.                       *)
ReadRest ==
    /\ hpc = "read" /\ replies # <<>>
    /\ got = FrameSize(replies[1]) /\ replies[1].status = "TORN"
    /\ \/ g_resultQueue' \in [status : Statuses, data : {<<>>, <<<<1, 4>>>>}]
       \/ UNCHANGED g_resultQueue
    /\ TakeReply /\ got' = 0
    /\ hpc' = "check"
    /\ UNCHANGED <<g_cmdQueue, origin, tries, sent, idcode, disturbed>>

(* Faulty: the wait for the first byte has no time-out.                    *)
ReadTimeoutNever ==
    /\ hpc = "read"
    /\ got > 0 /\ replies # <<>>
    /\ replies' = [replies EXCEPT ![1].status = "TORN"]
    /\ UNCHANGED <<g_txidx, queued, answered>>
    /\ UNCHANGED rxVars /\ UNCHANGED execVars
    /\ disturbed' = TRUE
    /\ hpc' = "check"
    /\ UNCHANGED <<g_cmdQueue, g_resultQueue, got, origin, tries, sent, idcode>>

(* waitForReadyRead times out, in any turn of the loop.  Before the first  *)
(* byte the frame stays whole, late or lost; after it what was read is     *)
(* dropped with the local rxbuffer, and the rest stays in the port.        *)
ReadTimeout ==
    /\ hpc = "read"
    /\ \/ got = 0 /\ UNCHANGED vars
       \/ /\ got > 0 /\ replies # <<>>
          /\ replies' = [replies EXCEPT ![1].status = "TORN"]
          /\ UNCHANGED <<g_txidx, queued, answered>>
          /\ UNCHANGED rxVars /\ UNCHANGED execVars
    /\ disturbed' = TRUE
    /\ hpc' = "check"
    /\ UNCHANGED <<g_cmdQueue, g_resultQueue, got, origin, tries, sent, idcode>>

-----------------------------------------------------------------------------
(* popUInt8 and popUInt32: an empty queue gives 0, which is OK as a status *)
(* and an ordinary word as a result.                                       *)
PopStatus == IF g_resultQueue = Nothing THEN "OK" ELSE g_resultQueue.status
PopWord   == IF g_resultQueue.data = <<>> THEN 0 ELSE 1   \* 1: a word from the line

CheckCall ==
    /\ hpc = "check" /\ g_cmdQueue # ConnectCmds
    /\ hpc' = "script"
    /\ UNCHANGED <<g_cmdQueue, g_resultQueue, got, origin, tries, sent, idcode, disturbed>>
    /\ UNCHANGED vars

(* connect(): the loop around the packet.                                  *)
CheckConnect ==
    /\ hpc = "check" /\ g_cmdQueue = ConnectCmds
    /\ \/ /\ PopStatus = "OK"
          /\ idcode' = PopWord /\ hpc' = "script" /\ UNCHANGED tries
       \/ /\ PopStatus # "OK" /\ tries + 1 < ConnectRetries /\ sent < MaxPackets
          /\ tries' = tries + 1 /\ hpc' = "write" /\ UNCHANGED idcode
       \/ /\ PopStatus # "OK" /\ ~(tries + 1 < ConnectRetries /\ sent < MaxPackets)
          /\ idcode' = NotConnected /\ hpc' = "script" /\ UNCHANGED tries
    /\ UNCHANGED <<g_cmdQueue, g_resultQueue, got, origin, sent, disturbed>>
    /\ UNCHANGED vars

HostStep ==
    \/ WritePacket
    \/ ReadFrameByte \/ ReadPacket \/ ReadRest \/ ReadTimeout
    \/ CheckCall \/ CheckConnect

ProgrammerStep ==
    /\ \/ Steady /\ UNCHANGED disturbed
       \/ (RxOverflow \/ WaitTimeout) /\ disturbed' = TRUE
    /\ UNCHANGED hostVars

SessionInit ==
    /\ Init
    /\ hpc = "script" /\ g_cmdQueue = <<>>
    /\ g_resultQueue = Nothing /\ got = 0 /\ origin = Nothing
    /\ tries = 0 /\ sent = 0 /\ idcode = NotConnected
    /\ disturbed = FALSE

SessionNext ==
    \/ \E cmds \in Programs : Call(cmds)
    \/ HostStep
    \/ ProgrammerStep

(* The host is one thread that blocks only in waitForReadyRead, which ends *)
(* with a byte or with its time-out; the programmer runs loop() for ever.  *)
SessionSpec ==
    /\ SessionInit /\ [][SessionNext]_sessionVars
    /\ WF_sessionVars(HostStep) /\ WF_sessionVars(ProgrammerStep)

-----------------------------------------------------------------------------

(* As long as no timeout, failed write, receive overflow or wait timeout   *)
(* has happened, host and programmer are in lockstep: between two calls    *)
(* nothing is on the line, no part of a frame is left in the port and the  *)
(* programmer is waiting, and whatever the host reads is the one answer to *)
(* the packet it has just written.                                         *)
InStep ==
    ~disturbed =>
        /\ hpc \in {"script", "write"} =>
               line = <<>> /\ replies = <<>> /\ pc = "receive" /\ g_rxidx = 0
        /\ hpc = "read" => Len(line) + Len(replies) + (IF pc = "receive" THEN 0 ELSE 1) = 1
        /\ hpc # "read" => got = 0
        /\ hpc = "check" => origin # Nothing /\ origin.job = [id |-> sent - 1, cmds |-> g_cmdQueue]

(* Then the status the script pops is true: OK exactly when the programmer *)
(* performed all commands of this packet.                                  *)
StatusTrue ==
    ~disturbed /\ hpc = "check" =>
        (PopStatus = "OK") <=> (origin.performed = [i \in 1 .. Len(g_cmdQueue) |-> i])

(* Every call of the script returns, and connect() among them: the loop    *)
(* over the bytes of a frame, whose time-out starts anew with every byte,  *)
(* and connect()'s loop over packets both end, whatever is late, lost,     *)
(* torn or left over from an earlier packet.                               *)
ScriptGoesOn == (hpc # "script") ~> (hpc = "script")

-----------------------------------------------------------------------------
(* connect() "returns the IDCODE, if connect is succesful or 0xFFFFFFFF if *)
(* it failed": a value other than -1 comes from a CONNECT that the         *)
(* programmer performed.                                                   *)
ConnectTrue ==
    [][ idcode' # idcode /\ idcode' # NotConnected =>
            origin # Nothing /\ origin.job.cmds = ConnectCmds /\ origin.status = "OK" ]_sessionVars
=============================================================================
