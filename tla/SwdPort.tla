------------------------------ MODULE SwdPort ------------------------------
(***************************************************************************)
(* ArduinoSWDInterface (mid_level.cpp): the driver that turns memory, AP   *)
(* and DP calls into SWD transactions, retries on WAIT, and caches in      *)
(* m_APcache the access port it believes selected.  One transaction of the *)
(* low-level driver is one step.  The target is external: its acks, bus    *)
(* errors, busy bit and power losses are the environment's choice.         *)
(*                                                                         *)
(* An AP address is a pair: the bank that selectAP masks out with          *)
(* 0xFF0000F0 and the register number (address >> 2) & 3.                  *)
(***************************************************************************)
EXTENDS Integers, Sequences

CONSTANTS
    NumWords,    \* words are 0 .. NumWords-1, as addresses and as data
    MaxRetries,  \* MAX_RETRIES
    Banks,       \* the AP banks of the target
    MemBank,     \* bank 0 of the memory access port
    NoBank,      \* 0xFFFFFFFF, which no masked address equals
    Ones,        \* 0xFFFFFFFF, what a line left high reads as
    OnesBank,    \* its AP bank, 0xFF0000F0
    CswConfig,   \* 0x22000012: word accesses, auto-increment
    BusyWords,   \* the words with bit 7 set
    HostCalls    \* the calls the command loop may make

Word == 0 .. NumWords - 1

ASSUME NumWordsAssumption   == NumWords \in Nat /\ NumWords > 0
ASSUME MaxRetriesAssumption == MaxRetries \in Nat /\ MaxRetries > 0
ASSUME BanksAssumption      == {MemBank, OnesBank} \subseteq Banks /\ NoBank \notin Banks
ASSUME WordsAssumption      == {CswConfig, Ones} \subseteq Word /\ BusyWords \subseteq Word

\* Registers of the memory access port and of the debug port
CSW == 0
TAR == 1
DRW == 3
ABORT == 0
CTRLSTAT == 1
SELECT == 2
RDBUFF == 3

Acks     == {"OK", "WAIT", "FAIL", "NONE"}   \* NONE: not an ack (protocol error)
Statuses == {"OK", "TIMEOUT", "SWDFAULT"}
MemKinds == {"readMemory", "writeMemory"}
ApKinds  == {"readAP", "writeAP"}
DpKinds  == {"readDP", "writeDP", "connect"}

Call == [kind : MemKinds \cup ApKinds \cup DpKinds, bank : Banks, reg : 0 .. 3,
         addr : Word, data : Word]

ASSUME HostCallsAssumption == HostCalls \subseteq Call

\* NoBank also stands for "no call" in the refinement below.
ASSUME IdleAssumption ==
    NoBank \notin [kind : {"read", "write", "raw", "control", "connect"},
                   addr : Word, data : Word]

NoCall == [kind |-> "connect", bank |-> MemBank, reg |-> 0, addr |-> 0, data |-> 0]

VARIABLES
    \* the driver
    m_APcache,   \* current selected access port, or NoBank
    call,        \* the call being executed; the locals below are its own
    phase,       \* "idle", the transaction to make next, or "return"
    step,        \* which access of the call's sequence
    retries,     \* WAITs seen by the current retry loop
    polls,       \* retries of waitForMemory
    status,      \* retval
    data,        \* the word last read
    result,      \* what the last call returned to the command loop
    trusted,     \* history: no call failed since the last connect
    \* the target (external)
    live,        \* has power and has seen a line reset since
    sel, csw, tar, rdbuff, sticky, mem

targetVars == <<live, sel, csw, tar, rdbuff, sticky, mem>>
vars == <<m_APcache, call, result, trusted, phase, step, retries, polls, status, data,
          live, sel, csw, tar, rdbuff, sticky, mem>>

-----------------------------------------------------------------------------
(* The accesses a call makes, in order.                                    *)
Write(b, r, d) == [dir |-> "write", bank |-> b, reg |-> r, data |-> d]
Read(b, r)     == [dir |-> "read",  bank |-> b, reg |-> r, data |-> 0]

(* readMemory and writeMemory: configure CSW, wait until the memory port   *)
(* is free (waitForMemory, the second access), set TAR, access the data.   *)
Accesses(c) ==
    CASE c.kind = "readMemory" ->
            << Write(MemBank, CSW, CswConfig), Read(MemBank, CSW),
               Write(MemBank, TAR, c.addr),    Read(MemBank, DRW) >>
      [] c.kind = "writeMemory" ->
            << Write(MemBank, CSW, CswConfig), Read(MemBank, CSW),
               Write(MemBank, TAR, c.addr),    Write(MemBank, DRW, c.data) >>
      [] c.kind \in {"writeAP", "writeDP"} -> << Write(c.bank, c.reg, c.data) >>
      [] c.kind \in {"readAP", "readDP", "connect"} -> << Read(c.bank, c.reg) >>

access == Accesses(call)[step]
InWaitForMemory == call.kind \in MemKinds /\ step = 2

-----------------------------------------------------------------------------
(* The driver's control flow.                                              *)
Leave(s) ==
    /\ phase' = "return" /\ status' = s
    /\ UNCHANGED <<step, retries, polls, data>>

(* Faulty: one WAIT too many is tolerated.                                 *)
RefusedByOne(ack) ==
    \/ /\ ack = "WAIT" /\ retries + 1 <= MaxRetries
       /\ retries' = retries + 1
       /\ UNCHANGED <<phase, step, polls, status, data>>
    \/ ack = "WAIT" /\ retries + 1 > MaxRetries /\ Leave("TIMEOUT")
    \/ ack \in {"FAIL", "NONE"} /\ Leave("SWDFAULT")

(* The retry loop of every transaction: MAX_RETRIES WAITs time out, any    *)
(* other answer than OK is a fault.                                        *)
Refused(ack) ==
    \/ /\ ack = "WAIT" /\ retries + 1 < MaxRetries
       /\ retries' = retries + 1
       /\ UNCHANGED <<phase, step, polls, status, data>>
    \/ ack = "WAIT" /\ retries + 1 >= MaxRetries /\ Leave("TIMEOUT")
    \/ ack \in {"FAIL", "NONE"} /\ Leave("SWDFAULT")

GoTo(p) ==
    /\ phase' = p /\ retries' = 0
    /\ UNCHANGED <<step, polls, status, data>>

(* Faulty: the polls of a busy memory port are not counted.                *)
SucceededUncounted(d) ==
    /\ data' = d
    /\ \/ /\ step = Len(Accesses(call))
          /\ phase' = "return" /\ status' = "OK"
          /\ UNCHANGED <<step, retries, polls>>
       \/ /\ step < Len(Accesses(call)) /\ ~(InWaitForMemory /\ d \in BusyWords)
          /\ step' = step + 1 /\ phase' = "select" /\ retries' = 0
          /\ UNCHANGED <<polls, status>>
       \/ /\ InWaitForMemory /\ d \in BusyWords
          /\ phase' = "select" /\ retries' = 0
          /\ UNCHANGED <<step, polls, status>>

(* An access succeeded and read d: return, go to the next one, or, when    *)
(* waitForMemory finds the port busy, read CSW again.                      *)
Succeeded(d) ==
    /\ data' = d
    /\ \/ /\ step = Len(Accesses(call))
          /\ phase' = "return" /\ status' = "OK"
          /\ UNCHANGED <<step, retries, polls>>
       \/ /\ step < Len(Accesses(call)) /\ ~(InWaitForMemory /\ d \in BusyWords)
          /\ step' = step + 1 /\ phase' = "select" /\ retries' = 0
          /\ UNCHANGED <<polls, status>>
       \/ /\ InWaitForMemory /\ d \in BusyWords /\ polls # MaxRetries
          /\ polls' = polls + 1 /\ phase' = "select" /\ retries' = 0
          /\ UNCHANGED <<step, status>>
       \/ /\ InWaitForMemory /\ d \in BusyWords /\ polls = MaxRetries
          /\ phase' = "return" /\ status' = "TIMEOUT"
          /\ UNCHANGED <<step, retries, polls>>

-----------------------------------------------------------------------------
(* The target.  Without power or a line reset it does not answer; while an *)
(* error is latched it accepts only what is exempt (IDCODE and CTRL/STAT   *)
(* reads, ABORT writes).  CanAck is what the driver may read.              *)
CanAck(ack, exempt) ==
    /\ ~live => ack = "NONE"
    /\ sticky /\ ~exempt => ack # "OK"

(* The target answers OK, but the driver reads no valid ack and leaves the *)
(* line high for the data phase of the write (SwdWire): the target takes   *)
(* the word Ones.                                                          *)
TakesOnes(ack, exempt) == ack = "NONE" /\ live /\ (sticky => exempt)

(* The driver reads OK and sends its word, which the target finds damaged: *)
(* it leaves its registers alone and notes an error.                       *)
Discards ==
    /\ sticky' = TRUE
    /\ UNCHANGED <<live, sel, csw, tar, rdbuff, mem>>

(* An accepted write to a register of the selected access port.            *)
TargetApWrite(r, d) ==
    /\ UNCHANGED <<live, sel, rdbuff>>
    /\ \/ /\ sel = MemBank /\ r = CSW
          /\ csw' = d /\ UNCHANGED <<tar, sticky, mem>>
       \/ /\ sel = MemBank /\ r = TAR
          /\ tar' = d /\ UNCHANGED <<csw, sticky, mem>>
       \/ /\ sel = MemBank /\ r = DRW /\ csw = CswConfig
          /\ mem' = [mem EXCEPT ![tar] = d] /\ tar' = (tar + 1) % NumWords
          /\ UNCHANGED <<csw, sticky>>
       \/ /\ sel = MemBank /\ r = DRW /\ csw # CswConfig
          /\ mem' \in [Word -> Word] /\ tar' \in Word
          /\ UNCHANGED <<csw, sticky>>
       \/ /\ sel = MemBank /\ r = DRW
          /\ sticky' = TRUE /\ UNCHANGED <<csw, tar, mem>>
       \/ /\ sel # MemBank \/ r \notin {CSW, TAR, DRW}
          /\ UNCHANGED <<csw, tar, sticky, mem>>

(* An accepted write to the debug port: SELECT names a bank, ABORT may     *)
(* clear the error.                                                        *)
TargetDpWrite(r, b) ==
    /\ sel' = IF r = SELECT THEN b ELSE sel
    /\ sticky' \in IF r = ABORT THEN {sticky, FALSE} ELSE {sticky}
    /\ UNCHANGED <<live, csw, tar, rdbuff, mem>>

(* An executed read of a register of the selected access port: its value   *)
(* is fetched into RDBUFF.                                                 *)
TargetApRead(r) ==
    /\ UNCHANGED <<live, sel, csw, mem>>
    /\ \/ /\ sel = MemBank /\ r = DRW /\ csw = CswConfig
          /\ rdbuff' = mem[tar] /\ tar' = (tar + 1) % NumWords
          /\ UNCHANGED sticky
       \/ /\ sel = MemBank /\ r = DRW /\ csw # CswConfig
          /\ rdbuff' \in Word /\ tar' \in Word
          /\ UNCHANGED sticky
       \/ /\ sel = MemBank /\ r = DRW
          /\ sticky' = TRUE /\ UNCHANGED <<rdbuff, tar>>
       \/ /\ sel # MemBank \/ r # DRW
          /\ rdbuff' \in Word /\ UNCHANGED <<tar, sticky>>

(* The target loses power: it forgets everything but its memory (flash)    *)
(* and does not answer until the next line reset.  Its registers stand for *)
(* nothing until then; what they hold after it is for Connect to choose.   *)
PowerLoss ==
    /\ live
    /\ live' = FALSE /\ sticky' = FALSE
    /\ sel' = MemBank /\ csw' = 0 /\ tar' = 0 /\ rdbuff' = 0
    /\ UNCHANGED <<mem, m_APcache, call, result, trusted, phase, step, retries, polls, status, data>>

-----------------------------------------------------------------------------
(* Faulty: a new connection keeps the cached access port.                  *)
BeginKeepingCache(c) ==
    /\ phase = "idle"
    /\ call' = c
    /\ phase' = CASE c.kind \in MemKinds \cup ApKinds -> "select"
                  [] c.kind = "connect" -> "connect"
                  [] OTHER -> "dp"
    /\ step' = 1 /\ retries' = 0 /\ polls' = 0
    /\ UNCHANGED <<m_APcache, status, data, result, trusted>> /\ UNCHANGED targetVars

Begin(c) ==
    /\ phase = "idle"
    /\ call' = c
    /\ phase' = CASE c.kind \in MemKinds \cup ApKinds -> "select"
                  [] c.kind = "connect" -> "connect"
                  [] OTHER -> "dp"
    /\ step' = 1 /\ retries' = 0 /\ polls' = 0
    /\ m_APcache' = IF c.kind = "connect" THEN NoBank ELSE m_APcache
    /\ UNCHANGED <<status, data, result, trusted>> /\ UNCHANGED targetVars

(* doConnect: line reset, then IDCODE.  tryConnect does not retry a WAIT.  *)
(* A target that wakes up has anything in its registers.                   *)
Connect ==
    /\ phase = "connect"
    /\ \E ack \in Acks, d \in Word :
        \/ ack = "OK" /\ live' = TRUE /\ Succeeded(d)
        \/ ack # "OK" /\ live' \in {live, TRUE} /\ Leave("SWDFAULT")
    /\ \/ live' = live /\ UNCHANGED <<sel, csw, tar, rdbuff>>
       \/ /\ live' # live
          /\ sel' \in Banks /\ csw' \in Word /\ tar' \in Word /\ rdbuff' \in Word
    /\ UNCHANGED <<m_APcache, call, result, trusted, sticky, mem>>

SelectCached ==
    /\ phase = "select" /\ access.bank = m_APcache
    /\ GoTo("access")
    /\ UNCHANGED <<m_APcache, call, result, trusted>> /\ UNCHANGED targetVars

(* Faulty: the cache is updated before the outcome is known.               *)
SelectWriteEager ==
    /\ phase = "select" /\ access.bank # m_APcache
    /\ m_APcache' = access.bank
    /\ \E ack \in Acks :
        /\ CanAck(ack, FALSE)
        /\ \/ /\ ack = "OK" /\ GoTo("access")
              /\ TargetDpWrite(SELECT, access.bank) \/ Discards
           \/ /\ ack # "OK" /\ Refused(ack)
              /\ \/ UNCHANGED targetVars
                 \/ TakesOnes(ack, FALSE) /\ TargetDpWrite(SELECT, OnesBank)
    /\ UNCHANGED <<call, result, trusted>>

SelectWrite ==
    /\ phase = "select" /\ access.bank # m_APcache
    /\ \E ack \in Acks :
        /\ CanAck(ack, FALSE)
        /\ \/ /\ ack = "OK" /\ m_APcache' = access.bank /\ GoTo("access")
              /\ TargetDpWrite(SELECT, access.bank) \/ Discards
           \/ /\ ack # "OK" /\ Refused(ack) /\ UNCHANGED m_APcache
              /\ \/ UNCHANGED targetVars
                 \/ TakesOnes(ack, FALSE) /\ TargetDpWrite(SELECT, OnesBank)
    /\ UNCHANGED <<call, result, trusted>>

ApWrite ==
    /\ phase = "access" /\ access.dir = "write"
    /\ \E ack \in Acks :
        /\ CanAck(ack, FALSE)
        /\ \/ /\ ack = "OK" /\ Succeeded(data)
              /\ TargetApWrite(access.reg, access.data) \/ Discards
           \/ /\ ack # "OK" /\ Refused(ack)
              /\ \/ UNCHANGED targetVars
                 \/ TakesOnes(ack, FALSE) /\ TargetApWrite(access.reg, Ones)
    /\ UNCHANGED <<m_APcache, call, result, trusted>>

(* The data phase may fail its parity check, or the ack may be garbled,    *)
(* although the target executed the read: the driver then sees a FAIL or   *)
(* no ack at all.                                                          *)
ApRead ==
    /\ phase = "access" /\ access.dir = "read"
    /\ \E ack \in Acks :
        /\ CanAck(ack, FALSE)
        /\ \/ ack = "OK" /\ TargetApRead(access.reg) /\ GoTo("rdbuff")
           \/ ack # "OK" /\ Refused(ack) /\ UNCHANGED targetVars
           \/ /\ ack \in {"FAIL", "NONE"} /\ live /\ ~sticky
              /\ TargetApRead(access.reg) /\ Refused(ack)
    /\ UNCHANGED <<m_APcache, call, result, trusted>>

ReadRdBuff ==
    /\ phase = "rdbuff"
    /\ \E ack \in Acks :
        /\ CanAck(ack, FALSE)
        /\ \/ ack = "OK" /\ Succeeded(rdbuff)
           \/ ack # "OK" /\ Refused(ack)
    /\ UNCHANGED <<m_APcache, call, result, trusted>> /\ UNCHANGED targetVars

DpRead ==
    /\ phase = "dp" /\ access.dir = "read"
    /\ \E ack \in Acks, d \in Word :
        /\ CanAck(ack, access.reg \in {ABORT, CTRLSTAT})
        /\ \/ ack = "OK" /\ Succeeded(d)
           \/ ack # "OK" /\ Refused(ack)
    /\ UNCHANGED <<m_APcache, call, result, trusted>> /\ UNCHANGED targetVars

DpWrite ==
    /\ phase = "dp" /\ access.dir = "write"
    /\ \E ack \in Acks :
        /\ CanAck(ack, access.reg = ABORT)
        /\ \/ /\ ack = "OK" /\ Succeeded(data)
              /\ TargetDpWrite(access.reg, access.bank) \/ Discards
           \/ /\ ack # "OK" /\ Refused(ack)
              /\ \/ UNCHANGED targetVars
                 \/ /\ TakesOnes(ack, access.reg = ABORT)
                    /\ TargetDpWrite(access.reg, OnesBank)
    /\ UNCHANGED <<m_APcache, call, result, trusted>>

Return ==
    /\ phase = "return"
    /\ result' = [status |-> status, data |-> data]
    /\ trusted' = (call.kind = "connect" \/ (trusted /\ status = "OK"))
    /\ phase' = "idle" /\ call' = NoCall /\ step' = 1 /\ retries' = 0 /\ polls' = 0
    /\ status' = "OK" /\ data' = 0
    /\ UNCHANGED m_APcache /\ UNCHANGED targetVars

-----------------------------------------------------------------------------
Init ==
    /\ m_APcache = NoBank
    /\ call = NoCall
    /\ phase = "idle" /\ step = 1 /\ retries = 0 /\ polls = 0
    /\ status = "OK" /\ data = 0 /\ result = [status |-> "OK", data |-> 0]
    /\ trusted = TRUE
    /\ live = FALSE /\ sticky = FALSE
    /\ sel = MemBank /\ csw = 0 /\ tar = 0 /\ rdbuff = 0
    /\ mem \in [Word -> Word]

Driver ==
    \/ Connect \/ SelectCached \/ SelectWrite \/ ApWrite \/ ApRead
    \/ ReadRdBuff \/ DpRead \/ DpWrite \/ Return

Next == (\E c \in HostCalls : Begin(c)) \/ Driver \/ PowerLoss

(* The firmware is a single loop on a processor of its own: a call it has  *)
(* begun keeps running.  Nothing obliges the host to call, or the target   *)
(* to answer OK, to stay powered or to become free.                        *)
Spec == Init /\ [][Next]_vars /\ WF_vars(Driver)

-----------------------------------------------------------------------------
TypeOK ==
    /\ m_APcache \in Banks \cup {NoBank}
    /\ call \in Call
    /\ phase \in {"idle", "connect", "select", "access", "rdbuff", "dp", "return"}
    /\ step \in 1 .. Len(Accesses(call))
    /\ retries \in 0 .. MaxRetries - 1
    /\ polls \in 0 .. MaxRetries
    /\ status \in Statuses /\ data \in Word
    /\ result \in [status : Statuses, data : Word]
    /\ trusted \in BOOLEAN /\ live \in BOOLEAN /\ sticky \in BOOLEAN
    /\ sel \in Banks /\ csw \in Word /\ tar \in Word /\ rdbuff \in Word
    /\ mem \in [Word -> Word]

(* No call has failed since the last connect, the current one included.    *)
Trusted == trusted /\ (phase = "return" => status = "OK")

(* m_APcache, when valid, is what the target's SELECT register holds: the  *)
(* writes that selectAP skips would have changed nothing.  WAITs, power    *)
(* losses and reconnections in any order do not break it.  A SELECT write  *)
(* damaged on the wire makes the two differ only within its call, and the  *)
(* error the target notes keeps the access that follows from being made.   *)
(* A SELECT write whose ack is damaged does break it: selectAP keeps its   *)
(* cache and SELECT holds 0xFFFFFFFF.  The call fails, and nothing is      *)
(* claimed from there to the next connect, which forgets the cache.        *)
CacheCoherent ==
    Trusted /\ live /\ m_APcache # NoBank =>
        sel = m_APcache \/ (sticky /\ phase = "access")

(* The retry loops are bounded, so every call the command loop makes comes *)
(* back, whatever the target answers: WAIT for ever, a memory port that    *)
(* stays busy, no answer at all.                                           *)
CallsReturn == (phase # "idle") ~> (phase = "idle")

(* The memory calls implement MemoryPort: answered OK, they have done what *)
(* they say, through retries, bus errors, power losses and words or acks   *)
(* damaged on the wire, from a connect to the first call that fails.       *)
AbstractKind ==
    CASE call.kind = "readMemory"  -> "read"
      [] call.kind = "writeMemory" -> "write"
      [] call.kind = "writeAP"     -> "raw"
      [] call.kind = "connect"     -> "connect"
      [] OTHER                     -> "control"

AbstractOutcome ==
    IF call.kind # "writeMemory" \/ phase # "return" THEN "none"
    ELSE IF status = "OK" THEN "taken" ELSE "failed"

Abstract == INSTANCE MemoryPort WITH
    Idle    <- NoBank,
    call    <- IF phase = "idle" THEN NoBank
               ELSE [kind |-> AbstractKind, addr |-> call.addr, data |-> call.data],
    outcome <- AbstractOutcome,
    sound   <- trusted,
    fault   <- sticky

ImplementsMemoryPort == Abstract!Spec
=============================================================================
