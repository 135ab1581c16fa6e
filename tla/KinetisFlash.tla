---------------------------- MODULE KinetisFlash ----------------------------
(***************************************************************************)
(* What the program does when it is not interactive: initSystem connects,  *)
(* erases the flash (kinetis_flasherase), programs the image word by word  *)
(* (flash_program, kinetis_flash_longword) and compares (verifyFlash).     *)
(* One packet to the programmer and its reply is one step.  The link is    *)
(* that of Session: replies may be missing or come late, and what is read  *)
(* instead of a missing one is the oldest late one or nothing; the pop     *)
(* functions make an OK and zeros of nothing.                              *)
(*                                                                         *)
(* A word is the set of its bits that are set.                             *)
(***************************************************************************)
EXTENDS Integers, Sequences

CONSTANTS
    Images,         \* the images, as sequences of words
    ChunkWords,     \* words verified per packet, 6
    MAX_RETRIES,    \* of pollAP and pollAP_not, 100
    PowerRetries,   \* of kinetis_enableDebugPower, 101
    ConnectRetries, \* of connect, 10
    MaxTrouble      \* faults and lost or late replies, at most

\* MDM_AP_CTRL and MDM_AP_STAT
FLASHERASE  == 0
FLASHREADY  == 1
SYSSECURITY == 2
COREHALTED  == 16
\* FTFA_FSTAT
MGSTAT0 == 0
FPVIOL == 4
ACCERR == 5
RDCOLERR == 6
CCIF == 7
\* SIM_FCFG1: flash disabled, and the size code of 32 KB, which is one bit here
FLASHDIS == 0
SIZE32K == 24
POWERUP == 31       \* the four bits 0xF0000000 of CTRL/STAT

\* Words that may be taken for another when they are read late: 0x0BC11477, the
\* program counter, and a stack pointer at the end of the RAM, 0x1FFFF000 or so.
IDCODE == {0, 1, 2, 4, 5, 6, 16}
CorePC == {{}, {1}}
MSP    == {16, 24}

Bits  == {0, 1, 2, 4, 5, 6, 7, 16, 24, 31}
Word  == SUBSET Bits
Blank == Bits       \* 0xFFFFFFFF

ASSUME ImagesAssumption == Images \subseteq Seq(Word)
ASSUME LimitsAssumption ==
    /\ ChunkWords \in Nat \ {0} /\ MAX_RETRIES \in Nat \ {0}
    /\ PowerRetries \in Nat \ {0} /\ ConnectRetries \in Nat \ {0} /\ MaxTrouble \in Nat

VARIABLES
    \* the script
    pc,         \* the packet to make next, or "done"
    stage,      \* 0: connecting, 1: erasing, 2: programming, 3: verifying
    retries,    \* of the loop in progress
    idx,        \* words programmed, or verified
    image,      \* the binary file, as whole words ...
    ragged,     \* ... and whether some bytes are left over
    result,     \* what initSystem returned; 1 if it was left by an exception
    \* the target
    flash,      \* the words the image goes to
    fcfg,       \* SIM_FCFG1
    secure,     \* the part is secured
    erasing,    \* a mass erase is in progress
    \* the link
    late,       \* replies not read in time
    faults,     \* history: packets answered with an error
    losses      \* history: packets and replies that were lost or late

scriptVars == <<pc, stage, retries, idx, image, ragged, result>>
targetVars == <<flash, fcfg, secure, erasing>>
linkVars   == <<late, faults, losses>>
vars       == <<scriptVars, targetVars, linkVars>>

-----------------------------------------------------------------------------
(* The link: executeCmdQueue and the pop functions.                        *)
Reply(s, words) == [status |-> s, data |-> words]
Nothing         == Reply("OK", <<>>)
PopWord(r, k)   == IF k <= Len(r.data) THEN r.data[k] ELSE {}

(* What may become of a packet that was performed or not, and for which    *)
(* the programmer sends the replies in sent, one or none: the script goes  *)
(* on with the oldest unread one, or after a timeout with nothing.         *)
Outcome(performed, fault, sent) ==
    LET waiting == late \o sent
        Read(reply, left, loss) ==
            [status |-> reply.status, data |-> reply.data, performed |-> performed,
             late |-> left, faults |-> faults + fault, losses |-> losses + loss]
        outcomes ==
            (IF waiting # <<>> THEN {Read(Head(waiting), Tail(waiting), 1 - Len(sent))} ELSE {})
            \cup {Read(Nothing, waiting, 1)}
    IN  { r \in outcomes : r.faults + r.losses <= MaxTrouble }

Performed(words) == Outcome(TRUE, 0, <<Reply("OK", words)>>) \cup Outcome(TRUE, 0, <<>>)
NotPerformed     == Outcome(FALSE, 1, <<Reply("SWDFAULT", <<>>)>>) \cup Outcome(FALSE, 0, <<>>)

(* A packet whose commands have the given results.                         *)
Exchange(words) == Performed(words) \cup NotPerformed

(* Memory is out of reach on a secured part, the flash while it is erased. *)
Refused == Outcome(FALSE, 0, <<Reply("SWDFAULT", <<>>)>>) \cup Outcome(FALSE, 0, <<>>)

ExchangeMemory(words) == IF secure THEN Refused ELSE Exchange(words)
ExchangeFlash(words)  == IF secure \/ erasing THEN Refused ELSE Exchange(words)

Take(r) == late' = r.late /\ faults' = r.faults /\ losses' = r.losses

-----------------------------------------------------------------------------
(* The script.                                                             *)
Go(p) == pc' = p /\ retries' = 0 /\ UNCHANGED <<stage, idx, image, ragged, result>>

GoStage(s, p) ==
    /\ stage' = s /\ pc' = p /\ retries' = 0 /\ idx' = 0
    /\ UNCHANGED <<image, ragged, result>>

Retry ==
    /\ retries' = retries + 1
    /\ UNCHANGED <<pc, stage, idx, image, ragged, result>>

Finish(r) ==
    /\ pc' = "done" /\ result' = r
    /\ UNCHANGED <<stage, retries, idx, image, ragged>>

(* Faulty: one attempt too many.                                           *)
ConnectByOne ==
    /\ pc = "connect"
    /\ \E r \in Exchange(<<IDCODE>>) :
           /\ UNCHANGED targetVars /\ Take(r)
           /\ IF r.status # "OK" /\ retries < ConnectRetries THEN Retry
              ELSE IF stage = 0 THEN GoStage(1, "release") ELSE Go("power")

(* connect(), called with its result ignored.                              *)
Connect ==
    /\ pc = "connect"
    /\ \E r \in Exchange(<<IDCODE>>) :
           /\ UNCHANGED targetVars /\ Take(r)
           /\ IF r.status # "OK" /\ retries + 1 < ConnectRetries THEN Retry
              ELSE IF stage = 0 THEN GoStage(1, "release") ELSE Go("power")

(* setReset(1): an erase that still runs is aborted, with any outcome.     *)
AssertReset ==
    /\ pc = "assert"
    /\ \E r \in Exchange(<<>>) :
           /\ erasing' = (erasing /\ ~r.performed)
           /\ \/ UNCHANGED flash
              \/ erasing /\ r.performed /\ flash' \in [DOMAIN image -> {Blank, {}}]
           /\ UNCHANGED <<fcfg, secure>> /\ Take(r)
           /\ Go("release")

(* setReset(0).                                                            *)
ReleaseReset ==
    /\ pc = "release"
    /\ \E r \in Exchange(<<>>) :
           /\ UNCHANGED targetVars /\ Take(r)
           /\ CASE stage = 1 -> Go("power")
                [] stage = 2 -> Go("connect")
                [] stage = 3 -> Go("verify")

(* kinetis_mdm_halt: whatever becomes of it, kinetis_flasherase goes on.   *)
Halted == Go(IF stage = 1 THEN "clock" ELSE "program")

PowerUp ==
    /\ pc = "power"
    /\ \E r \in Exchange(<<>>) :
           /\ UNCHANGED targetVars /\ Take(r)
           /\ Go("powered")

PollPower ==
    /\ pc = "powered"
    /\ \E w \in {{}, {POWERUP}} :
        \E r \in Exchange(<<w>>) :
            /\ UNCHANGED targetVars /\ Take(r)
            /\ IF r.status = "OK" /\ POWERUP \in PopWord(r, 1) THEN Go("debug")
               ELSE IF retries + 1 < PowerRetries THEN Retry ELSE Halted

EnableDebug ==
    /\ pc = "debug"
    /\ \E r \in ExchangeMemory(<<>>) :
           /\ UNCHANGED targetVars /\ Take(r)
           /\ IF r.status = "OK" THEN Go("request") ELSE Halted

RequestDebug ==
    /\ pc = "request"
    /\ \E r \in Exchange(<<>>) :
           /\ UNCHANGED targetVars /\ Take(r)
           /\ IF r.status = "OK" THEN Go("halted") ELSE Halted

(* What may be read of MDM_AP_STAT.                                        *)
Security == IF secure THEN {SYSSECURITY} ELSE {}
Stat     == {w \cup Security : w \in SUBSET {FLASHREADY, COREHALTED}}

CheckHalted ==
    /\ pc = "halted"
    /\ \E w \in Stat :
        \E r \in Exchange(<<w>>) :
            /\ UNCHANGED targetVars /\ Take(r)
            /\ IF r.status = "OK" /\ COREHALTED \in PopWord(r, 1) THEN Go("registers") ELSE Halted

(* PC and MSP for the log: each is written to DCRSR and read from DCRDR.   *)
ReadRegisters ==
    /\ pc = "registers"
    /\ \E w \in CorePC :
        \E r \in ExchangeMemory(CASE retries = 1       -> <<w>>
                                [] retries = 3       -> <<MSP>>
                                [] retries \in {0, 2} -> <<>>) :
            /\ UNCHANGED targetVars /\ Take(r)
            /\ IF retries < 3 THEN Retry ELSE Halted

-----------------------------------------------------------------------------
(* kinetis_flasherase, between the two halts.                              *)
EnableClock ==
    /\ pc = "clock"
    /\ \E r \in ExchangeMemory(<<>>) :
           /\ UNCHANGED targetVars /\ Take(r)
           /\ IF r.status = "OK" THEN Go("ready") ELSE Finish(-1)

(* pollAP(MDM_AP_STAT, MDM_STAT_FLASHREADY).                               *)
PollReady ==
    /\ pc = "ready"
    /\ \E w \in Stat :
        \E r \in Exchange(<<w>>) :
            /\ UNCHANGED targetVars /\ Take(r)
            /\ IF r.status # "OK" THEN Finish(-1)
               ELSE IF FLASHREADY \in PopWord(r, 1) THEN Go("security")
               ELSE IF retries + 1 < MAX_RETRIES THEN Retry ELSE Finish(-1)

(* readAP and readMemory return 0 for an error.                            *)
ValueRead(r) == IF r.status = "OK" THEN PopWord(r, 1) ELSE {}

CheckSecurity ==
    /\ pc = "security"
    /\ \E w \in Stat :
        \E r \in Exchange(<<w>>) :
            /\ UNCHANGED targetVars /\ Take(r)
            /\ IF SYSSECURITY \in ValueRead(r) THEN Finish(-1) ELSE Go("size")

(* Faulty: an unknown size is let pass.                                    *)
CheckSizeLeniently ==
    /\ pc = "size"
    /\ \E r \in ExchangeMemory(<<fcfg>>) :
           /\ UNCHANGED targetVars /\ Take(r)
           /\ IF FLASHDIS \notin ValueRead(r) THEN Go("erase") ELSE Finish(-1)

CheckSize ==
    /\ pc = "size"
    /\ \E r \in ExchangeMemory(<<fcfg>>) :
           /\ UNCHANGED targetVars /\ Take(r)
           /\ IF SIZE32K \in ValueRead(r) /\ FLASHDIS \notin ValueRead(r)
                THEN Go("erase") ELSE Finish(-1)

Erase ==
    /\ pc = "erase"
    /\ \E r \in Exchange(<<>>) :
           /\ erasing' = (erasing \/ r.performed)
           /\ UNCHANGED <<flash, fcfg, secure>> /\ Take(r)
           /\ IF r.status = "OK" THEN Go("erasing") ELSE Finish(-1)

(* Faulty: a timeout is taken for success.                                 *)
PollErasedOnce ==
    /\ pc = "erasing"
    /\ \E r \in Exchange(<<IF erasing THEN {FLASHERASE} ELSE {}>>) :
           /\ UNCHANGED targetVars /\ Take(r)
           /\ IF r.status # "OK" THEN Finish(-1) ELSE GoStage(2, "assert")

(* pollAP_not(MDM_AP_CTRL, MDM_CTRL_FLASHERASE).                           *)
PollErased ==
    /\ pc = "erasing"
    /\ \E r \in Exchange(<<IF erasing THEN {FLASHERASE} ELSE {}>>) :
           /\ UNCHANGED targetVars /\ Take(r)
           /\ IF r.status # "OK" THEN Finish(-1)
              ELSE IF FLASHERASE \notin PopWord(r, 1) THEN GoStage(2, "assert")
              ELSE IF retries + 1 < MAX_RETRIES THEN Retry ELSE Finish(-1)

-----------------------------------------------------------------------------
(* flash_program: blank words are skipped; reading on past the last whole  *)
(* word throws, which initSystem catches.                                  *)
NextWord == pc' = pc /\ idx' = idx + 1 /\ UNCHANGED <<stage, retries, image, ragged, result>>

SkipBlank ==
    /\ pc = "program" /\ idx < Len(image) /\ image[idx + 1] = Blank
    /\ NextWord
    /\ UNCHANGED targetVars /\ UNCHANGED linkVars

ProgramEnd ==
    /\ pc = "program" /\ idx = Len(image)
    /\ IF ragged THEN Finish(1) ELSE GoStage(3, "assert")
    /\ UNCHANGED targetVars /\ UNCHANGED linkVars

(* A packet that failed after its flash command was started.               *)
StartedInVain ==
    IF secure \/ erasing THEN {} ELSE Outcome(TRUE, 1, <<Reply("TIMEOUT", <<>>)>>)

(* kinetis_flash_longword.  The flash clears bits; it may refuse, or, with *)
(* MGSTAT0, which the script logs and passes over, not get them cleared.   *)
ProgramLongword ==
    /\ pc = "program" /\ idx < Len(image) /\ image[idx + 1] # Blank
    /\ \E errors \in {{}, {MGSTAT0}, {RDCOLERR}, {ACCERR}, {FPVIOL}} :
       \E r \in ExchangeFlash(<<{CCIF} \cup errors>>) \cup StartedInVain :
           /\ flash' = IF r.performed /\ errors = {}
                       THEN [flash EXCEPT ![idx + 1] = @ \cap image[idx + 1]] ELSE flash
           /\ UNCHANGED <<fcfg, secure, erasing>> /\ Take(r)
           /\ IF r.status = "OK" /\ {RDCOLERR, ACCERR, FPVIOL} \cap PopWord(r, 1) = {}
                THEN NextWord ELSE Finish(-1)

(* verifyFlash and readMemoryWords, up to ChunkWords words at a time.      *)
ChunkEnd == IF idx + ChunkWords < Len(image) THEN idx + ChunkWords ELSE Len(image)
Chunk    == idx + 1 .. ChunkEnd

(* Faulty: only the first word of a packet is compared.                    *)
MatchesFirst(r) == r.status = "OK" /\ PopWord(r, 1) = image[idx + 1]

Matches(r) == r.status = "OK" /\ \A k \in Chunk : PopWord(r, k - idx) = image[k]

(* Faulty: the address stays where it is.                                  *)
VerifyInPlace ==
    /\ pc = "verify" /\ idx < Len(image)
    /\ \E r \in ExchangeFlash(SubSeq(flash, idx + 1, ChunkEnd)) :
           /\ UNCHANGED targetVars /\ Take(r)
           /\ IF Matches(r) THEN UNCHANGED scriptVars ELSE Finish(-1)

Verify ==
    /\ pc = "verify" /\ idx < Len(image)
    /\ \E r \in ExchangeFlash(SubSeq(flash, idx + 1, ChunkEnd)) :
           /\ UNCHANGED targetVars /\ Take(r)
           /\ IF Matches(r)
                THEN /\ idx' = ChunkEnd
                     /\ UNCHANGED <<pc, stage, retries, image, ragged, result>>
                ELSE Finish(-1)

VerifyEnd ==
    /\ pc = "verify" /\ idx = Len(image)
    /\ Finish(0)
    /\ UNCHANGED targetVars /\ UNCHANGED linkVars

-----------------------------------------------------------------------------
EraseFinishes ==
    /\ erasing
    /\ erasing' = FALSE /\ flash' = [k \in DOMAIN flash |-> Blank]
    /\ UNCHANGED <<fcfg, secure>> /\ UNCHANGED scriptVars /\ UNCHANGED linkVars

Init ==
    /\ pc = "connect" /\ stage = 0 /\ retries = 0 /\ idx = 0 /\ result = 1
    /\ image \in Images /\ ragged \in BOOLEAN
    /\ flash \in {[k \in DOMAIN image |-> w] : w \in {{}, Blank}}
    /\ fcfg \in {{}, {SIZE32K}, {SIZE32K, FLASHDIS}}
    /\ secure \in BOOLEAN /\ erasing = FALSE
    /\ late = <<>> /\ faults = 0 /\ losses = 0

Script ==
    \/ Connect \/ AssertReset \/ ReleaseReset
    \/ PowerUp \/ PollPower \/ EnableDebug \/ RequestDebug \/ CheckHalted \/ ReadRegisters
    \/ EnableClock \/ PollReady \/ CheckSecurity \/ CheckSize \/ Erase \/ PollErased
    \/ SkipBlank \/ ProgramLongword \/ ProgramEnd \/ Verify \/ VerifyEnd

Next == Script \/ EraseFinishes

(* The script is one thread and every packet returns (Session).            *)
Spec == Init /\ [][Next]_vars /\ WF_vars(Script)

-----------------------------------------------------------------------------
TypeOK ==
    /\ pc \in {"connect", "assert", "release", "power", "powered", "debug", "request", "halted",
               "registers", "clock", "ready", "security", "size", "erase", "erasing",
               "program", "verify", "done"}
    /\ stage \in 0 .. 3 /\ result \in {-1, 0, 1} /\ ragged \in BOOLEAN
    /\ image \in Images /\ idx \in 0 .. Len(image)
    /\ pc = "connect" => retries < ConnectRetries
    /\ pc = "powered" => retries < PowerRetries
    /\ pc \in {"ready", "erasing"} => retries < MAX_RETRIES
    /\ DOMAIN flash = DOMAIN image /\ \A k \in DOMAIN flash : flash[k] \in Word
    /\ fcfg \in Word /\ secure \in BOOLEAN /\ erasing \in BOOLEAN
    /\ Len(late) <= losses /\ faults + losses <= MaxTrouble

(* Every packet of words has one that is not zero after its first, so that *)
(* neither an empty reply nor that of a register access looks like it.     *)
Telling ==
    \A c \in 0 .. Len(image) - 1 :
        (\E j \in 0 .. c : c = j * ChunkWords) =>
            \E k \in c + 2 .. c + ChunkWords : k <= Len(image) /\ image[k] # {}

(* The program reports success only when the image is in the flash, even   *)
(* when erasing or programming has gone wrong without being noticed, and   *)
(* whatever replies were lost or read too late.                            *)
VerifiedImage == result = 0 /\ Telling => flash = image

(* As long as no reply is missing, programming begins on an erased flash:  *)
(* the end of the mass erase was seen, and failed commands were noticed.   *)
ErasedBeforeProgram ==
    losses = 0 /\ pc = "program" =>
        ~erasing /\ \A k \in DOMAIN flash : k > idx => flash[k] = Blank

(* A secured part is never erased, and one of another size not unless four *)
(* replies were lost or late, although the script takes a missing answer   *)
(* about security for "unsecured", and reads late answers to other         *)
(* questions as answers to its own.                                        *)
ErasesOnlySuitable ==
    [][ erasing' /\ ~erasing =>
            /\ ~secure
            /\ losses <= 3 => SIZE32K \in fcfg /\ FLASHDIS \notin fcfg ]_vars

(* The program ends: every loop of the script is bounded.                  *)
Ends == <>(pc = "done")
=============================================================================
