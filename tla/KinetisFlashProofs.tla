------------------------- MODULE KinetisFlashProofs -------------------------
(***************************************************************************)
(* Erase, program and verify, for every image, every number of retries and *)
(* any number of faults, lost and late replies.                            *)
(***************************************************************************)
EXTENDS KinetisFlash, TLAPS

Status  == {"OK", "SWDFAULT", "TIMEOUT"}
Replies == [status : Status, data : Seq(Word)]

(* Replies that may be read late: only those of verifyFlash are longer,    *)
(* and when one of them is missed, and the image tells, the script ends.   *)
Short == {p \in Replies : Len(p.data) <= 1}

LinkOK(S) ==
    /\ faults \in Nat /\ losses \in Nat /\ faults + losses <= MaxTrouble
    /\ late \in Seq(S) /\ Len(late) <= losses

(* Which function is called from where.                                    *)
StageOK ==
    /\ pc = "connect" => stage \in {0, 2}
    /\ pc = "release" => stage \in {1, 2, 3}
    /\ pc = "assert" => stage \in {2, 3}
    /\ pc \in {"power", "powered", "debug", "request", "halted", "registers"} => stage \in {1, 2}
    /\ pc \in {"clock", "ready", "security", "size", "erase", "erasing"} => stage = 1
    /\ pc = "program" => stage = 2
    /\ pc = "verify" => stage = 3
    /\ stage = 3 /\ pc # "done" /\ pc # "verify" => idx = 0

ScriptOK ==
    /\ stage \in 0 .. 3 /\ ragged \in BOOLEAN /\ retries \in Nat
    /\ result \in {-1, 0, 1} /\ (result = 0 => pc = "done")
    /\ image \in Images /\ idx \in 0 .. Len(image)
    /\ pc = "connect" => retries < ConnectRetries
    /\ pc = "powered" => retries < PowerRetries
    /\ pc \in {"ready", "erasing"} => retries < MAX_RETRIES
    /\ pc = "registers" => retries <= 3

PcOK ==
    pc \in {"connect", "assert", "release", "power", "powered", "debug", "request", "halted",
            "registers", "clock", "ready", "security", "size", "erase", "erasing",
            "program", "verify", "done"}

TargetOK ==
    /\ flash \in [1 .. Len(image) -> Word]
    /\ fcfg \in Word /\ secure \in BOOLEAN /\ erasing \in BOOLEAN

(* What has been verified is in the flash and stays there.                 *)
VerifiedSoFar ==
    Telling /\ pc = "verify" =>
        /\ idx < Len(image) => \E j \in 0 .. idx : idx = j * ChunkWords
        /\ idx > 0 => ~erasing /\ \A k \in 1 .. idx : flash[k] = image[k]

VerifiedAll == Telling /\ result = 0 => flash = image /\ (image = <<>> \/ ~erasing)

(* While no reply is missing, the end of the wait for the mass erase is    *)
(* the end of the mass erase.                                              *)
Erased(from) == \A k \in 1 .. Len(image) : k > from => flash[k] = Blank

ErasedInTime ==
    losses = 0 =>
        /\ pc = "erasing" => erasing \/ Erased(0)
        /\ stage = 2 /\ pc # "done" => ~erasing /\ Erased(idx)

Inv ==
    /\ PcOK /\ StageOK /\ ScriptOK /\ TargetOK /\ LinkOK(Replies)
    /\ pc # "done" /\ (pc = "verify" => Telling) => LinkOK(Short)
    /\ VerifiedSoFar /\ VerifiedAll /\ ErasedInTime

-----------------------------------------------------------------------------
LEMMA BitsFinite == Word \subseteq SUBSET Bits /\ Blank \in Word /\ {} \in Word
  BY DEF Word, Blank

(* What becomes of a packet, when the late replies and its own are in S.   *)
LinkStep(S) ==
    /\ faults' \in Nat /\ losses' \in Nat /\ faults' + losses' <= MaxTrouble
    /\ late' \in Seq(S) /\ Len(late') <= losses'
    /\ losses \in Nat /\ losses <= losses'

LEMMA AnyOutcome ==
    ASSUME NEW S, LinkOK(S), NEW b \in BOOLEAN, NEW f \in {0, 1}, NEW p \in S,
           NEW sent \in {<<>>, <<p>>}, NEW r \in Outcome(b, f, sent), Take(r)
    PROVE  /\ LinkStep(S) /\ r.performed = b
           /\ losses' = 0 => sent = <<p>> /\ r.status = p.status /\ r.data = p.data
           /\ \/ r.data = <<>>
              \/ late # <<>> /\ r.data = late[1].data
              \/ late = <<>> /\ late' = <<>> /\ sent = <<p>> /\ r.data = p.data
  <1> DEFINE waiting == late \o sent
             Reading(reply, left, loss) ==
                [status |-> reply.status, data |-> reply.data, performed |-> b,
                 late |-> left, faults |-> faults + f, losses |-> losses + loss]
  <1>0. sent \in Seq(S) /\ Len(sent) \in {0, 1} /\ late \in Seq(S)
    <2>1. CASE sent = <<>>
      BY <2>1 DEF LinkOK
    <2>2. CASE sent = <<p>>
      BY <2>2 DEF LinkOK
    <2> QED
      BY <2>1, <2>2
  <1>1. waiting \in Seq(S) /\ Len(waiting) = Len(late) + Len(sent) /\ Len(sent) \in {0, 1}
    BY <1>0
  <1>2. /\ r.faults + r.losses <= MaxTrouble
        /\ \/ waiting # <<>> /\ r = Reading(Head(waiting), Tail(waiting), 1 - Len(sent))
           \/ r = Reading(Nothing, waiting, 1)
    BY DEF Outcome
  <1>3. CASE waiting # <<>> /\ r = Reading(Head(waiting), Tail(waiting), 1 - Len(sent))
    <2>1. Tail(waiting) \in Seq(S) /\ Len(Tail(waiting)) = Len(waiting) - 1
      BY <1>1, <1>3
    <2>2. late' = Tail(waiting) /\ faults' = faults + f /\ losses' = losses + 1 - Len(sent)
      BY <1>1, <1>3 DEF Take, LinkOK
    <2>3. r.faults = faults + f /\ r.losses = losses + 1 - Len(sent) /\ r.performed = b
      BY <1>1, <1>3 DEF LinkOK
    <2>6. LinkStep(S)
      <3>1. faults' \in Nat /\ losses' \in Nat /\ losses \in Nat /\ losses <= losses'
        BY <1>0, <2>2 DEF LinkOK
      <3>2. faults' + losses' <= MaxTrouble
        BY <1>2, <2>2, <2>3 DEF Take
      <3>3. late' \in Seq(S) /\ Len(late') <= losses'
        <4>1. Len(Tail(waiting)) = Len(late) + Len(sent) - 1 /\ Len(late) \in Nat
          BY <1>0, <1>1, <2>1
        <4>3. losses' = losses + 1 - Len(sent) /\ losses \in Nat /\ Len(late) <= losses
          BY <2>2 DEF LinkOK
        <4>4. \A l, n \in Nat, m \in {0, 1} : l <= n => l + m - 1 <= n + 1 - m
          OBVIOUS
        <4>2. Len(Tail(waiting)) <= losses'
          BY <4>1, <4>3, <4>4, <1>0, Zenon
        <4> HIDE DEF waiting
        <4> QED
          BY <4>2, <2>1, <2>2, Zenon
      <3> QED
        BY <3>1, <3>2, <3>3 DEF LinkStep
    <2>4. ASSUME losses' = 0
          PROVE  sent = <<p>> /\ late = <<>>
      BY <2>2, <2>4, <1>1 DEF LinkOK
    <2>5. late = <<>> => sent = <<p>> /\ waiting = <<p>> /\ Head(waiting) = p /\ Tail(waiting) = <<>>
      <3> SUFFICES ASSUME late = <<>>
                   PROVE  sent = <<p>> /\ waiting = <<p>> /\ Head(waiting) = p /\ Tail(waiting) = <<>>
        OBVIOUS
      <3>1. waiting = sent
        BY <1>0
      <3>2. sent = <<p>>
        BY <1>3, <3>1
      <3> QED
        BY <3>1, <3>2
    <2>7. late # <<>> => Head(waiting) = late[1]
      BY <1>0
    <2>8. r.status = Head(waiting).status /\ r.data = Head(waiting).data
      BY <1>3
    <2> HIDE DEF waiting
    <2> QED
      BY <2>2, <2>3, <2>4, <2>5, <2>6, <2>7, <2>8, Zenon
  <1>4. CASE r = Reading(Nothing, waiting, 1)
    <2>2. /\ r.faults = faults + f /\ r.losses = losses + 1 /\ r.late = waiting
          /\ r.performed = b /\ r.data = <<>>
      BY <1>4 DEF Nothing, Reply
    <2>3. LinkStep(S)
      <3>1. faults' \in Nat /\ losses' \in Nat /\ losses \in Nat /\ losses <= losses'
        BY <2>2 DEF LinkOK, Take
      <3>2. faults' + losses' <= MaxTrouble
        BY <1>2 DEF Take
      <3>3. late' \in Seq(S) /\ Len(late') <= losses'
        <4>2. losses' = losses + 1 /\ losses \in Nat /\ Len(late) <= losses /\ late' = waiting
          BY <2>2 DEF LinkOK, Take
        <4>3. \A l, n \in Nat, m \in {0, 1} : l <= n => l + m <= n + 1
          OBVIOUS
        <4>1. Len(late) \in Nat /\ Len(waiting) = Len(late) + Len(sent) /\ waiting \in Seq(S)
          BY <1>0, <1>1
        <4> HIDE DEF waiting
        <4>4. Len(waiting) <= losses'
          BY <1>0, <4>1, <4>2, <4>3, Zenon
        <4> QED
          BY <4>1, <4>2, <4>4, Zenon
      <3> QED
        BY <3>1, <3>2, <3>3 DEF LinkStep
    <2>4. losses' # 0
      BY <2>2 DEF Take, LinkOK
    <2> QED
      BY <2>2, <2>3, <2>4, Zenon
  <1> QED
    BY <1>2, <1>3, <1>4

Own(r, w) ==
    /\ r.performed \in BOOLEAN
    /\ losses' = 0 => \/ r.performed /\ r.status = "OK" /\ r.data = w
                      \/ r.status # "OK"

LEMMA ShortExchange ==
    ASSUME LinkOK(Short), NEW w \in Seq(Word), Len(w) <= 1, NEW r, Take(r),
           \/ r \in Exchange(w)
           \/ r \in ExchangeMemory(w)
           \/ r \in ExchangeFlash(w)
           \/ r \in StartedInVain
    PROVE  LinkStep(Short) /\ Own(r, w) /\ (r \in ExchangeFlash(w) \cup StartedInVain /\ r.performed => ~erasing)
  <1>0. \A st \in Status, d \in Seq(Word) : Len(d) <= 1 => [status |-> st, data |-> d] \in Short
    BY DEF Short, Replies
  <1>1. /\ Reply("OK", w) \in Short /\ Reply("SWDFAULT", <<>>) \in Short
        /\ Reply("TIMEOUT", <<>>) \in Short
    <2>1. <<>> \in Seq(Word) /\ Len(<<>>) = 0
      OBVIOUS
    <2> QED
      BY <1>0, <2>1, 0 <= 1, Zenon DEF Reply, Status
  <1>6. /\ Reply("OK", w).status = "OK" /\ Reply("OK", w).data = w
        /\ Reply("SWDFAULT", <<>>).status # "OK" /\ Reply("TIMEOUT", <<>>).status # "OK"
    BY DEF Reply
  <1>2. <<>> # <<Reply("OK", w)>> /\ <<>> # <<Reply("SWDFAULT", <<>>)>>
    OBVIOUS
  <1>3. ASSUME r \in Performed(w)
        PROVE  LinkStep(Short) /\ Own(r, w)
    <2>1. CASE r \in Outcome(TRUE, 0, <<Reply("OK", w)>>)
      <3>1. /\ LinkStep(Short) /\ r.performed = TRUE
            /\ losses' = 0 => r.status = "OK" /\ r.data = w
        BY <1>1, <1>6, <2>1, AnyOutcome
      <3> QED
        BY <3>1, Zenon DEF Own
    <2>2. CASE r \in Outcome(TRUE, 0, <<>>)
      <3>1. LinkStep(Short) /\ r.performed = TRUE /\ losses' # 0
        BY <1>1, <1>2, <2>2, AnyOutcome
      <3> QED
        BY <3>1, Zenon DEF Own
    <2> QED
      BY <1>3, <2>1, <2>2 DEF Performed
  <1>4. ASSUME r \in NotPerformed \cup Refused
        PROVE  LinkStep(Short) /\ Own(r, w) /\ r.performed = FALSE
    <2>1. CASE \E f \in {0, 1} : r \in Outcome(FALSE, f, <<Reply("SWDFAULT", <<>>)>>)
      <3>1. /\ LinkStep(Short) /\ r.performed = FALSE
            /\ losses' = 0 => r.status # "OK"
        BY <1>1, <1>6, <2>1, AnyOutcome
      <3> QED
        BY <3>1, Zenon DEF Own
    <2>2. CASE r \in Outcome(FALSE, 0, <<>>)
      <3>1. LinkStep(Short) /\ r.performed = FALSE /\ losses' # 0
        BY <1>1, <1>2, <2>2, AnyOutcome
      <3> QED
        BY <3>1, Zenon DEF Own
    <2> QED
      BY <1>4, <2>1, <2>2 DEF NotPerformed, Refused
  <1>5. ASSUME r \in Outcome(TRUE, 1, <<Reply("TIMEOUT", <<>>)>>)
        PROVE  LinkStep(Short) /\ Own(r, w)
    <2> DEFINE T == Reply("TIMEOUT", <<>>)
    <2>0. T \in Short /\ <<T>> \in {<<>>, <<T>>} /\ \E f \in {0, 1} : r \in Outcome(TRUE, f, <<T>>)
      BY <1>1, <1>5
    <2>1. /\ LinkStep(Short) /\ r.performed = TRUE
          /\ losses' = 0 => r.status = T.status
      <3> HIDE DEF T
      <3> QED
        BY <2>0, AnyOutcome, ZenonT(60)
    <2> QED
      BY <2>1, <1>6, Zenon DEF Own
  <1> QED
    BY <1>3, <1>4, <1>5 DEF Exchange, ExchangeMemory, ExchangeFlash, StartedInVain

-----------------------------------------------------------------------------
(* What is left to show of a step outside of the verification.             *)
Control == (PcOK /\ StageOK /\ ScriptOK)'

LEMMA Unverified ==
    ASSUME Inv, pc # "done", pc # "verify", LinkStep(Short), TargetOK', image' = image,
           Control, result' # 0, pc' = "verify" => idx' = 0, ErasedInTime'
    PROVE  Inv'
  <1>1. LinkOK(Short)' /\ LinkOK(Replies)'
    <2>1. Short \subseteq Replies
      BY DEF Short
    <2>2. Seq(Short) \subseteq Seq(Replies)
      BY <2>1
    <2> QED
      BY <2>2 DEF LinkOK, LinkStep, Short, Replies
  <1>2. VerifiedSoFar'
    <2>1. idx' = 0 => \E j \in 0 .. idx' : idx' = j * ChunkWords
      BY LimitsAssumption
    <2> QED
      BY <2>1 DEF VerifiedSoFar
  <1> QED
    BY <1>1, <1>2 DEF Inv, Control, VerifiedAll

LEMMA Words ==
    /\ <<>> \in Seq(Word) /\ Len(<<>>) <= 1
    /\ \A w \in Word : <<w>> \in Seq(Word) /\ Len(<<w>>) <= 1
    /\ {} \in Word /\ \A b \in Bits : {b} \in Word
    /\ \A v, w \in Word : v \cup w \in Word
    /\ Stat \subseteq Word /\ CorePC \subseteq Word /\ IDCODE \in Word /\ MSP \in Word
    /\ POWERUP \in Bits /\ COREHALTED \in Bits /\ FLASHREADY \in Bits /\ FLASHERASE \in Bits
    /\ \A b \in {CCIF, MGSTAT0, RDCOLERR, ACCERR, FPVIOL} : b \in Bits
  <1>1. \A v, w \in Word : v \cup w \in Word
    BY DEF Word
  <1>2. Security \in Word /\ SUBSET {FLASHREADY, COREHALTED} \subseteq Word
    BY DEF Word, Bits, Security, SYSSECURITY, COREHALTED, FLASHREADY
  <1>3. Stat \subseteq Word
    BY <1>1, <1>2 DEF Stat
  <1> QED
    BY <1>1, <1>3
       DEF Word, Bits, CorePC, IDCODE, MSP, POWERUP, COREHALTED, FLASHREADY, FLASHERASE,
           CCIF, MGSTAT0, RDCOLERR, ACCERR, FPVIOL

(* The steps of the script that leave the target alone.                    *)
LEMMA Quiet ==
    ASSUME Inv, pc # "done", pc # "verify", NEW w \in Seq(Word), Len(w) <= 1, NEW r, Take(r),
           r \in Exchange(w) \cup ExchangeMemory(w), UNCHANGED targetVars, image' = image,
           Control, result' # 0, pc' = "verify" => idx' = 0,
           LinkStep(Short) /\ Own(r, w) => ErasedInTime'
    PROVE  Inv'
  <1>1. LinkStep(Short) /\ Own(r, w)
    BY ShortExchange DEF Inv
  <1>2. TargetOK'
    BY DEF Inv, TargetOK, targetVars
  <1> QED
    BY <1>1, <1>2, Unverified

(* A step that leaves the target alone, the stage too, and does not begin  *)
(* to wait for the mass erase.                                             *)
LEMMA StillErased ==
    ASSUME Inv, pc # "done", UNCHANGED targetVars, image' = image, LinkStep(Short), pc' # "erasing",
           stage' = 2 /\ pc' # "done" => stage = 2 /\ idx' = idx
    PROVE  ErasedInTime'
  <1> QED
    BY DEF Inv, ErasedInTime, Erased, LinkStep, LinkOK, targetVars

LEMMA ConnectOK == Inv /\ Connect => Inv'
  <1> SUFFICES ASSUME Inv, Connect
               PROVE  Inv'
    OBVIOUS
  <1>1. PICK r \in Exchange(<<IDCODE>>) :
            /\ UNCHANGED targetVars /\ Take(r)
            /\ IF r.status # "OK" /\ retries + 1 < ConnectRetries THEN Retry
               ELSE IF stage = 0 THEN GoStage(1, "release") ELSE Go("power")
    BY DEF Connect
  <1>2. pc = "connect" /\ image' = image /\ result' # 0 /\ pc' # "verify" /\ pc' # "erasing"
    BY <1>1 DEF Connect, Retry, GoStage, Go, Inv, ScriptOK
  <1>3. Control
    BY <1>1, <1>2 DEF Retry, GoStage, Go, Inv, ScriptOK, PcOK, StageOK, Control
  <1>4. LinkStep(Short) => ErasedInTime'
    BY <1>1, <1>2, StillErased DEF Retry, GoStage, Go, Inv, StageOK
  <1> QED
    BY <1>1, <1>2, <1>3, <1>4, Words, Quiet

LEMMA ReleaseResetOK == Inv /\ ReleaseReset => Inv'
  <1> SUFFICES ASSUME Inv, ReleaseReset
               PROVE  Inv'
    OBVIOUS
  <1>1. PICK r \in Exchange(<<>>) :
            /\ UNCHANGED targetVars /\ Take(r)
            /\ CASE stage = 1 -> Go("power")
                 [] stage = 2 -> Go("connect")
                 [] stage = 3 -> Go("verify")
    BY DEF ReleaseReset
  <1>2. <<>> \in Seq(Word) /\ Len(<<>>) <= 1
    BY Words
  <1>7. /\ pc = "release"
        /\ \/ stage = 1 /\ Go("power")
           \/ stage = 2 /\ Go("connect")
           \/ stage = 3 /\ Go("verify")
    BY <1>1 DEF ReleaseReset, Inv, StageOK
  <1>3. pc = "release" /\ image' = image /\ result' # 0
    BY <1>7 DEF Go, Inv, ScriptOK
  <1>4. Control
    BY <1>1, <1>7, <1>3, LimitsAssumption DEF Retry, GoStage, Go, Finish, Halted, Inv, ScriptOK, PcOK, StageOK, Control
  <1>5. pc' = "verify" => idx' = 0
    BY <1>1, <1>3 DEF Go, Inv, StageOK
  <1>6. LinkStep(Short) => ErasedInTime'
    BY <1>1, <1>3, StillErased DEF Retry, GoStage, Go, Finish, Halted, Inv, StageOK
  <1> QED
    BY <1>1, <1>2, <1>3, <1>4, <1>5, <1>6, Quiet

LEMMA PowerUpOK == Inv /\ PowerUp => Inv'
  <1> SUFFICES ASSUME Inv, PowerUp
               PROVE  Inv'
    OBVIOUS
  <1>1. PICK r \in Exchange(<<>>) :
            /\ UNCHANGED targetVars /\ Take(r)
            /\ Go("powered")
    BY DEF PowerUp
  <1>2. <<>> \in Seq(Word) /\ Len(<<>>) <= 1
    BY Words
  <1>3. pc = "power" /\ image' = image /\ result' # 0 /\ pc' # "verify"
    BY <1>1 DEF PowerUp, Retry, GoStage, Go, Finish, Halted, Inv, ScriptOK
  <1>4. Control
    BY <1>1, <1>3, LimitsAssumption DEF Retry, GoStage, Go, Finish, Halted, Inv, ScriptOK, PcOK, StageOK, Control
  <1>6. LinkStep(Short) => ErasedInTime'
    BY <1>1, <1>3, StillErased DEF Retry, GoStage, Go, Finish, Halted, Inv, StageOK
  <1> QED
    BY <1>1, <1>2, <1>3, <1>4, <1>6, Quiet

LEMMA PollPowerOK == Inv /\ PollPower => Inv'
  <1> SUFFICES ASSUME Inv, PollPower
               PROVE  Inv'
    OBVIOUS
  <1>0. PICK w \in {{}, {POWERUP}} :
            \E r \in Exchange(<<w>>) :
                /\ UNCHANGED targetVars /\ Take(r)
                /\ IF r.status = "OK" /\ POWERUP \in PopWord(r, 1) THEN Go("debug")
                   ELSE IF retries + 1 < PowerRetries THEN Retry ELSE Halted
    BY DEF PollPower
  <1>1. PICK r \in Exchange(<<w>>) :
            /\ UNCHANGED targetVars /\ Take(r)
            /\ IF r.status = "OK" /\ POWERUP \in PopWord(r, 1) THEN Go("debug")
               ELSE IF retries + 1 < PowerRetries THEN Retry ELSE Halted
    BY <1>0
  <1>2. <<w>> \in Seq(Word) /\ Len(<<w>>) <= 1
    BY Words
  <1>3. pc = "powered" /\ image' = image /\ result' # 0 /\ pc' # "verify"
    BY <1>1 DEF PollPower, Retry, GoStage, Go, Finish, Halted, Inv, ScriptOK
  <1>4. Control
    BY <1>1, <1>3, LimitsAssumption DEF Retry, GoStage, Go, Finish, Halted, Inv, ScriptOK, PcOK, StageOK, Control
  <1>6. LinkStep(Short) => ErasedInTime'
    BY <1>1, <1>3, StillErased DEF Retry, GoStage, Go, Finish, Halted, Inv, StageOK
  <1> QED
    BY <1>1, <1>2, <1>3, <1>4, <1>6, Quiet

LEMMA EnableDebugOK == Inv /\ EnableDebug => Inv'
  <1> SUFFICES ASSUME Inv, EnableDebug
               PROVE  Inv'
    OBVIOUS
  <1>1. PICK r \in ExchangeMemory(<<>>) :
            /\ UNCHANGED targetVars /\ Take(r)
            /\ IF r.status = "OK" THEN Go("request") ELSE Halted
    BY DEF EnableDebug
  <1>2. <<>> \in Seq(Word) /\ Len(<<>>) <= 1
    BY Words
  <1>3. pc = "debug" /\ image' = image /\ result' # 0 /\ pc' # "verify"
    BY <1>1 DEF EnableDebug, Retry, GoStage, Go, Finish, Halted, Inv, ScriptOK
  <1>4. Control
    BY <1>1, <1>3, LimitsAssumption DEF Retry, GoStage, Go, Finish, Halted, Inv, ScriptOK, PcOK, StageOK, Control
  <1>6. LinkStep(Short) => ErasedInTime'
    BY <1>1, <1>3, StillErased DEF Retry, GoStage, Go, Finish, Halted, Inv, StageOK
  <1> QED
    BY <1>1, <1>2, <1>3, <1>4, <1>6, Quiet

LEMMA RequestDebugOK == Inv /\ RequestDebug => Inv'
  <1> SUFFICES ASSUME Inv, RequestDebug
               PROVE  Inv'
    OBVIOUS
  <1>1. PICK r \in Exchange(<<>>) :
            /\ UNCHANGED targetVars /\ Take(r)
            /\ IF r.status = "OK" THEN Go("halted") ELSE Halted
    BY DEF RequestDebug
  <1>2. <<>> \in Seq(Word) /\ Len(<<>>) <= 1
    BY Words
  <1>3. pc = "request" /\ image' = image /\ result' # 0 /\ pc' # "verify"
    BY <1>1 DEF RequestDebug, Retry, GoStage, Go, Finish, Halted, Inv, ScriptOK
  <1>4. Control
    BY <1>1, <1>3, LimitsAssumption DEF Retry, GoStage, Go, Finish, Halted, Inv, ScriptOK, PcOK, StageOK, Control
  <1>6. LinkStep(Short) => ErasedInTime'
    BY <1>1, <1>3, StillErased DEF Retry, GoStage, Go, Finish, Halted, Inv, StageOK
  <1> QED
    BY <1>1, <1>2, <1>3, <1>4, <1>6, Quiet

LEMMA CheckHaltedOK == Inv /\ CheckHalted => Inv'
  <1> SUFFICES ASSUME Inv, CheckHalted
               PROVE  Inv'
    OBVIOUS
  <1>0. PICK w \in Stat :
            \E r \in Exchange(<<w>>) :
                /\ UNCHANGED targetVars /\ Take(r)
                /\ IF r.status = "OK" /\ COREHALTED \in PopWord(r, 1) THEN Go("registers") ELSE Halted
    BY DEF CheckHalted
  <1>1. PICK r \in Exchange(<<w>>) :
            /\ UNCHANGED targetVars /\ Take(r)
            /\ IF r.status = "OK" /\ COREHALTED \in PopWord(r, 1) THEN Go("registers") ELSE Halted
    BY <1>0
  <1>2. <<w>> \in Seq(Word) /\ Len(<<w>>) <= 1
    BY Words
  <1>3. pc = "halted" /\ image' = image /\ result' # 0 /\ pc' # "verify"
    BY <1>1 DEF CheckHalted, Retry, GoStage, Go, Finish, Halted, Inv, ScriptOK
  <1>4. Control
    BY <1>1, <1>3, LimitsAssumption DEF Retry, GoStage, Go, Finish, Halted, Inv, ScriptOK, PcOK, StageOK, Control
  <1>6. LinkStep(Short) => ErasedInTime'
    BY <1>1, <1>3, StillErased DEF Retry, GoStage, Go, Finish, Halted, Inv, StageOK
  <1> QED
    BY <1>1, <1>2, <1>3, <1>4, <1>6, Quiet

LEMMA EnableClockOK == Inv /\ EnableClock => Inv'
  <1> SUFFICES ASSUME Inv, EnableClock
               PROVE  Inv'
    OBVIOUS
  <1>1. PICK r \in ExchangeMemory(<<>>) :
            /\ UNCHANGED targetVars /\ Take(r)
            /\ IF r.status = "OK" THEN Go("ready") ELSE Finish(-1)
    BY DEF EnableClock
  <1>2. <<>> \in Seq(Word) /\ Len(<<>>) <= 1
    BY Words
  <1>3. pc = "clock" /\ image' = image /\ result' # 0 /\ pc' # "verify"
    BY <1>1 DEF EnableClock, Retry, GoStage, Go, Finish, Halted, Inv, ScriptOK
  <1>4. Control
    BY <1>1, <1>3, LimitsAssumption DEF Retry, GoStage, Go, Finish, Halted, Inv, ScriptOK, PcOK, StageOK, Control
  <1>6. LinkStep(Short) => ErasedInTime'
    BY <1>1, <1>3, StillErased DEF Retry, GoStage, Go, Finish, Halted, Inv, StageOK
  <1> QED
    BY <1>1, <1>2, <1>3, <1>4, <1>6, Quiet

LEMMA PollReadyOK == Inv /\ PollReady => Inv'
  <1> SUFFICES ASSUME Inv, PollReady
               PROVE  Inv'
    OBVIOUS
  <1>0. PICK w \in Stat :
            \E r \in Exchange(<<w>>) :
                /\ UNCHANGED targetVars /\ Take(r)
                /\ IF r.status # "OK" THEN Finish(-1)
                   ELSE IF FLASHREADY \in PopWord(r, 1) THEN Go("security")
                   ELSE IF retries + 1 < MAX_RETRIES THEN Retry ELSE Finish(-1)
    BY DEF PollReady
  <1>1. PICK r \in Exchange(<<w>>) :
            /\ UNCHANGED targetVars /\ Take(r)
            /\ IF r.status # "OK" THEN Finish(-1)
               ELSE IF FLASHREADY \in PopWord(r, 1) THEN Go("security")
               ELSE IF retries + 1 < MAX_RETRIES THEN Retry ELSE Finish(-1)
    BY <1>0
  <1>2. <<w>> \in Seq(Word) /\ Len(<<w>>) <= 1
    BY Words
  <1>3. pc = "ready" /\ image' = image /\ result' # 0 /\ pc' # "verify"
    BY <1>1 DEF PollReady, Retry, GoStage, Go, Finish, Halted, Inv, ScriptOK
  <1>4. Control
    BY <1>1, <1>3, LimitsAssumption DEF Retry, GoStage, Go, Finish, Halted, Inv, ScriptOK, PcOK, StageOK, Control
  <1>6. LinkStep(Short) => ErasedInTime'
    BY <1>1, <1>3, StillErased DEF Retry, GoStage, Go, Finish, Halted, Inv, StageOK
  <1> QED
    BY <1>1, <1>2, <1>3, <1>4, <1>6, Quiet

LEMMA CheckSecurityOK == Inv /\ CheckSecurity => Inv'
  <1> SUFFICES ASSUME Inv, CheckSecurity
               PROVE  Inv'
    OBVIOUS
  <1>0. PICK w \in Stat :
            \E r \in Exchange(<<w>>) :
                /\ UNCHANGED targetVars /\ Take(r)
                /\ IF SYSSECURITY \in ValueRead(r) THEN Finish(-1) ELSE Go("size")
    BY DEF CheckSecurity
  <1>1. PICK r \in Exchange(<<w>>) :
            /\ UNCHANGED targetVars /\ Take(r)
            /\ IF SYSSECURITY \in ValueRead(r) THEN Finish(-1) ELSE Go("size")
    BY <1>0
  <1>2. <<w>> \in Seq(Word) /\ Len(<<w>>) <= 1
    BY Words
  <1>3. pc = "security" /\ image' = image /\ result' # 0 /\ pc' # "verify"
    BY <1>1 DEF CheckSecurity, Retry, GoStage, Go, Finish, Halted, Inv, ScriptOK
  <1>4. Control
    BY <1>1, <1>3, LimitsAssumption DEF Retry, GoStage, Go, Finish, Halted, Inv, ScriptOK, PcOK, StageOK, Control
  <1>6. LinkStep(Short) => ErasedInTime'
    BY <1>1, <1>3, StillErased DEF Retry, GoStage, Go, Finish, Halted, Inv, StageOK
  <1> QED
    BY <1>1, <1>2, <1>3, <1>4, <1>6, Quiet

LEMMA CheckSizeOK == Inv /\ CheckSize => Inv'
  <1> SUFFICES ASSUME Inv, CheckSize
               PROVE  Inv'
    OBVIOUS
  <1>1. PICK r \in ExchangeMemory(<<fcfg>>) :
            /\ UNCHANGED targetVars /\ Take(r)
            /\ IF SIZE32K \in ValueRead(r) /\ FLASHDIS \notin ValueRead(r)
                 THEN Go("erase") ELSE Finish(-1)
    BY DEF CheckSize
  <1>2. <<fcfg>> \in Seq(Word) /\ Len(<<fcfg>>) <= 1
    BY Words DEF Inv, TargetOK
  <1>3. pc = "size" /\ image' = image /\ result' # 0 /\ pc' # "verify"
    BY <1>1 DEF CheckSize, Retry, GoStage, Go, Finish, Halted, Inv, ScriptOK
  <1>4. Control
    BY <1>1, <1>3, LimitsAssumption DEF Retry, GoStage, Go, Finish, Halted, Inv, ScriptOK, PcOK, StageOK, Control
  <1>6. LinkStep(Short) => ErasedInTime'
    BY <1>1, <1>3, StillErased DEF Retry, GoStage, Go, Finish, Halted, Inv, StageOK
  <1> QED
    BY <1>1, <1>2, <1>3, <1>4, <1>6, Quiet

LEMMA ReadRegistersOK == Inv /\ ReadRegisters => Inv'
  <1> SUFFICES ASSUME Inv, ReadRegisters
               PROVE  Inv'
    OBVIOUS
  <1>0. PICK v \in CorePC :
            \E r \in ExchangeMemory(CASE retries = 1       -> <<v>>
                                    [] retries = 3       -> <<MSP>>
                                    [] retries \in {0, 2} -> <<>>) :
                /\ UNCHANGED targetVars /\ Take(r)
                /\ IF retries < 3 THEN Retry ELSE Halted
    BY DEF ReadRegisters
  <1> DEFINE w == CASE retries = 1       -> <<v>>
                    [] retries = 3       -> <<MSP>>
                    [] retries \in {0, 2} -> <<>>
  <1>1. PICK r \in ExchangeMemory(w) :
            /\ UNCHANGED targetVars /\ Take(r)
            /\ IF retries < 3 THEN Retry ELSE Halted
    BY <1>0
  <1>2. w \in Seq(Word) /\ Len(w) <= 1
    <2>1. retries \in {0, 1, 2, 3}
      BY DEF ReadRegisters, Inv, ScriptOK
    <2>2. w \in {<<>>, <<v>>, <<MSP>>}
      BY <2>1
    <2> HIDE DEF w
    <2> QED
      BY <2>2, Words
  <1>3. pc = "registers" /\ image' = image /\ result' # 0 /\ pc' # "verify"
    BY <1>1 DEF ReadRegisters, Retry, Go, Halted, Inv, ScriptOK
  <1>4. Control
    BY <1>1, <1>3, LimitsAssumption DEF Retry, Go, Halted, Inv, ScriptOK, PcOK, StageOK, Control
  <1>6. LinkStep(Short) => ErasedInTime'
    BY <1>1, <1>3, StillErased DEF Retry, Go, Halted, Inv, StageOK
  <1> HIDE DEF w
  <1> QED
    BY <1>1, <1>2, <1>3, <1>4, <1>6, Quiet

(* The wait ends with the erase, when the answer was that of its question. *)
LEMMA PollErasedOK == Inv /\ PollErased => Inv'
  <1> SUFFICES ASSUME Inv, PollErased
               PROVE  Inv'
    OBVIOUS
  <1> DEFINE w == <<IF erasing THEN {FLASHERASE} ELSE {}>>
  <1>1. PICK r \in Exchange(w) :
            /\ UNCHANGED targetVars /\ Take(r)
            /\ IF r.status # "OK" THEN Finish(-1)
               ELSE IF FLASHERASE \notin PopWord(r, 1) THEN GoStage(2, "assert")
               ELSE IF retries + 1 < MAX_RETRIES THEN Retry ELSE Finish(-1)
    BY DEF PollErased
  <1>2. w \in Seq(Word) /\ Len(w) <= 1
    BY Words
  <1>3. pc = "erasing" /\ stage = 1 /\ image' = image /\ result' # 0 /\ pc' # "verify"
    BY <1>1 DEF PollErased, Retry, GoStage, Finish, Inv, ScriptOK, StageOK
  <1>4. Control
    BY <1>1, <1>3, LimitsAssumption
       DEF Retry, GoStage, Finish, Inv, ScriptOK, PcOK, StageOK, Control
  <1>5. r.data = w => (FLASHERASE \in PopWord(r, 1) <=> erasing)
    BY DEF PopWord
  <1>6. ASSUME LinkStep(Short), Own(r, w)
        PROVE  ErasedInTime'
    <2>1. SUFFICES ASSUME losses' = 0
                   PROVE  /\ pc' = "erasing" => erasing' \/ Erased(0)'
                          /\ stage' = 2 /\ pc' # "done" => ~erasing' /\ Erased(idx)'
      BY DEF ErasedInTime
    <2>2. losses = 0 /\ (erasing \/ Erased(0))
      BY <1>3, <1>6, <2>1 DEF Inv, ErasedInTime, LinkStep
    <2>3. r.status # "OK" \/ r.data = w
      BY <1>6, <2>1 DEF Own
    <2>4. erasing' = erasing /\ Erased(0)' = Erased(0)
      BY <1>1, <1>3 DEF targetVars, Erased
    <2>5. CASE Finish(-1)
      BY <2>5, <1>3 DEF Finish
    <2>6. CASE Retry
      BY <2>6, <2>2, <2>4, <1>3 DEF Retry
    <2>7. CASE r.status = "OK" /\ FLASHERASE \notin PopWord(r, 1) /\ GoStage(2, "assert")
      BY <2>7, <1>5, <2>2, <2>3, <2>4 DEF GoStage, Erased
    <2> QED
      BY <1>1, <2>5, <2>6, <2>7
  <1> HIDE DEF w
  <1> QED
    BY <1>1, <1>2, <1>3, <1>4, <1>6, Quiet

LEMMA AssertResetOK == Inv /\ AssertReset => Inv'
  <1> SUFFICES ASSUME Inv, AssertReset
               PROVE  Inv'
    OBVIOUS
  <1>1. PICK r \in Exchange(<<>>) :
            /\ erasing' = (erasing /\ ~r.performed)
            /\ \/ UNCHANGED flash
               \/ erasing /\ r.performed /\ flash' \in [DOMAIN image -> {Blank, {}}]
            /\ UNCHANGED <<fcfg, secure>> /\ Take(r)
            /\ Go("release")
    BY DEF AssertReset
  <1>2. pc = "assert" /\ image' = image /\ result' # 0 /\ pc' = "release" /\ stage' = stage /\ idx' = idx
    BY <1>1 DEF AssertReset, Go, Inv, ScriptOK
  <1>3. Control
    BY <1>1, <1>2 DEF Go, Inv, ScriptOK, PcOK, StageOK, Control
  <1>4. LinkStep(Short)
    BY <1>1, <1>2, Words, ShortExchange DEF Inv
  <1>5. DOMAIN image = 1 .. Len(image)
    BY ImagesAssumption DEF Inv, ScriptOK
  <1>6. TargetOK'
    BY <1>1, <1>2, <1>5, BitsFinite DEF Inv, TargetOK
  <1>7. ErasedInTime'
    <2>1. ASSUME losses' = 0, stage' = 2
          PROVE  ~erasing' /\ Erased(idx)'
      <3>1. ~erasing /\ Erased(idx)
        BY <1>2, <1>4, <2>1 DEF Inv, ErasedInTime, LinkStep
      <3>2. flash' = flash /\ ~erasing'
        BY <1>1, <3>1
      <3> QED
        BY <1>2, <3>1, <3>2 DEF Erased
    <2> QED
      BY <1>2, <2>1 DEF ErasedInTime
  <1> QED
    BY <1>2, <1>3, <1>4, <1>6, <1>7, Unverified

LEMMA EraseOK == Inv /\ Erase => Inv'
  <1> SUFFICES ASSUME Inv, Erase
               PROVE  Inv'
    OBVIOUS
  <1>1. PICK r \in Exchange(<<>>) :
            /\ erasing' = (erasing \/ r.performed)
            /\ UNCHANGED <<flash, fcfg, secure>> /\ Take(r)
            /\ IF r.status = "OK" THEN Go("erasing") ELSE Finish(-1)
    BY DEF Erase
  <1>2. pc = "erase" /\ stage = 1 /\ image' = image /\ result' # 0 /\ pc' # "verify" /\ stage' = stage
    BY <1>1 DEF Erase, Go, Finish, Inv, ScriptOK, StageOK
  <1>3. Control
    BY <1>1, <1>2, LimitsAssumption DEF Go, Finish, Inv, ScriptOK, PcOK, StageOK, Control
  <1>4. LinkStep(Short) /\ Own(r, <<>>)
    BY <1>1, <1>2, Words, ShortExchange DEF Inv
  <1>6. TargetOK'
    BY <1>1, <1>2, <1>4 DEF Inv, TargetOK
  <1>7. ErasedInTime'
    <2>1. pc' = "erasing" => r.status = "OK"
      BY <1>1 DEF Finish
    <2>2. losses' = 0 /\ r.status = "OK" => erasing'
      BY <1>1, <1>4, Zenon DEF Own
    <2>3. pc' = "done" \/ pc' = "erasing"
      BY <1>1 DEF Go, Finish
    <2>4. stage' # 2
      BY <1>2
    <2> QED
      BY <2>1, <2>2, <2>4 DEF ErasedInTime
  <1> QED
    BY <1>2, <1>3, <1>4, <1>6, <1>7, Unverified

LEMMA ProgramLongwordOK == Inv /\ ProgramLongword => Inv'
  <1> SUFFICES ASSUME Inv, ProgramLongword
               PROVE  Inv'
    OBVIOUS
  <1>1. PICK errors \in {{}, {MGSTAT0}, {RDCOLERR}, {ACCERR}, {FPVIOL}} :
        \E r \in ExchangeFlash(<<{CCIF} \cup errors>>) \cup StartedInVain :
            /\ flash' = IF r.performed /\ errors = {}
                        THEN [flash EXCEPT ![idx + 1] = @ \cap image[idx + 1]] ELSE flash
            /\ UNCHANGED <<fcfg, secure, erasing>> /\ Take(r)
            /\ IF r.status = "OK" /\ {RDCOLERR, ACCERR, FPVIOL} \cap PopWord(r, 1) = {}
                 THEN NextWord ELSE Finish(-1)
    BY DEF ProgramLongword
  <1> DEFINE w == <<{CCIF} \cup errors>>
  <1>2. PICK r \in ExchangeFlash(w) \cup StartedInVain :
            /\ flash' = IF r.performed /\ errors = {}
                        THEN [flash EXCEPT ![idx + 1] = @ \cap image[idx + 1]] ELSE flash
            /\ UNCHANGED <<fcfg, secure, erasing>> /\ Take(r)
            /\ NextWord \/ Finish(-1)
    BY <1>1
  <1>3. w \in Seq(Word) /\ Len(w) <= 1
    <2>1. {CCIF} \cup errors \in Word
      BY <1>1 DEF Word, Bits, CCIF, MGSTAT0, RDCOLERR, ACCERR, FPVIOL
    <2> QED
      BY <2>1, Words
  <1>4. /\ pc = "program" /\ stage = 2 /\ idx \in 0 .. Len(image) - 1
        /\ image' = image /\ image \in Seq(Word) /\ result' # 0
    BY <1>2, ImagesAssumption DEF ProgramLongword, NextWord, Finish, Inv, ScriptOK, StageOK
  <1>5. Control /\ pc' # "verify"
    BY <1>2, <1>4 DEF NextWord, Finish, Inv, ScriptOK, PcOK, StageOK, Control
  <1>6. LinkStep(Short)
    <2> HIDE DEF w
    <2> QED
      BY <1>2, <1>3, <1>4, ShortExchange DEF Inv
  <1>7. TargetOK' /\ \A k \in 1 .. Len(image) : k # idx + 1 => flash'[k] = flash[k]
    <2>1. flash \in [1 .. Len(image) -> Word] /\ image[idx + 1] \in Word
      BY <1>4 DEF Inv, TargetOK
    <2>2. flash[idx + 1] \cap image[idx + 1] \in Word
      BY <2>1, <1>4 DEF Word
    <2> QED
      BY <1>2, <1>4, <2>1, <2>2 DEF Inv, TargetOK
  <1>8. ErasedInTime'
    <2>1. ASSUME losses' = 0, pc' # "done"
          PROVE  ~erasing' /\ Erased(idx)'
      <3>1. ~erasing /\ Erased(idx)
        BY <1>4, <1>6, <2>1 DEF Inv, ErasedInTime, LinkStep
      <3>2. idx' = idx + 1
        BY <1>2, <2>1 DEF NextWord, Finish
      <3> QED
        BY <1>2, <1>4, <1>7, <3>1, <3>2 DEF Erased
    <2>2. pc' # "erasing"
      BY <1>2, <1>4 DEF NextWord, Finish
    <2> QED
      BY <2>1, <2>2 DEF ErasedInTime
  <1> QED
    BY <1>4, <1>5, <1>6, <1>7, <1>8, Unverified

(* A packet of verifyFlash that matches is its own answer, and is about    *)
(* the flash as it is.                                                     *)
LEMMA VerifyOK == Inv /\ Verify => Inv'
  <1> SUFFICES ASSUME Inv, Verify
               PROVE  Inv'
    OBVIOUS
  <1> DEFINE w == SubSeq(flash, idx + 1, ChunkEnd)
  <1>1. PICK r \in ExchangeFlash(w) :
            /\ UNCHANGED targetVars /\ Take(r)
            /\ IF Matches(r)
                 THEN /\ idx' = ChunkEnd
                      /\ UNCHANGED <<pc, stage, retries, image, ragged, result>>
                 ELSE Finish(-1)
    BY DEF Verify
  <1>2. /\ pc = "verify" /\ stage = 3 /\ idx \in 0 .. Len(image) - 1
        /\ image' = image /\ image \in Seq(Word) /\ result # 0 /\ result' # 0
    BY <1>1, ImagesAssumption DEF Verify, Finish, Inv, ScriptOK, StageOK
  <1>3. ChunkEnd \in idx + 1 .. Len(image) /\ ChunkEnd <= idx + ChunkWords
    BY <1>2, LimitsAssumption DEF ChunkEnd
  <1>4. flash \in Seq(Word) /\ Len(flash) = Len(image)
    BY <1>2 DEF Inv, TargetOK
  <1>5. /\ w \in Seq(Word) /\ Len(w) = ChunkEnd - idx
        /\ \A k \in 1 .. ChunkEnd - idx : w[k] = flash[idx + k]
    BY <1>2, <1>3, <1>4
  <1>6. Control
    BY <1>1, <1>2, <1>3 DEF Finish, Inv, ScriptOK, PcOK, StageOK, Control
  <1>7. TargetOK'
    BY <1>1, <1>2 DEF Inv, TargetOK, targetVars
  <1>8. /\ LinkStep(Replies)
        /\ \/ r.data = <<>>
           \/ late # <<>> /\ r.data = late[1].data
           \/ late = <<>> /\ late' = <<>> /\ r.data = w /\ ~erasing
    <2>0. LinkOK(Replies)
      BY DEF Inv
    <2>1. Reply("OK", w) \in Replies /\ Reply("SWDFAULT", <<>>) \in Replies
      BY <1>5, Words, Zenon DEF Replies, Reply, Status
    <2>2. Reply("OK", w).data = w /\ Reply("SWDFAULT", <<>>).data = <<>>
      BY DEF Reply
    <2>3. <<>> # <<Reply("OK", w)>> /\ <<>> # <<Reply("SWDFAULT", <<>>)>>
      OBVIOUS
    <2> HIDE DEF w
    <2>4. ASSUME r \in Performed(w)
          PROVE  /\ LinkStep(Replies)
                 /\ \/ r.data = <<>>
                    \/ late # <<>> /\ r.data = late[1].data
                    \/ late = <<>> /\ late' = <<>> /\ r.data = w
      <3>1. CASE r \in Outcome(TRUE, 0, <<Reply("OK", w)>>)
        <4>1. PICK p \in Replies : p = Reply("OK", w)
          BY <2>1
        <4>2. p.data = w /\ \E b \in BOOLEAN, f \in {0, 1} : r \in Outcome(b, f, <<p>>)
          BY <2>2, <3>1, <4>1
        <4>3. /\ LinkStep(Replies)
              /\ \/ r.data = <<>>
                 \/ late # <<>> /\ r.data = late[1].data
                 \/ late = <<>> /\ late' = <<>> /\ r.data = p.data
          BY <1>1, <4>2, <2>0, AnyOutcome
        <4> QED
          BY <4>2, <4>3
      <3>2. CASE r \in Outcome(TRUE, 0, <<>>)
        BY <1>1, <2>0, <2>1, <2>3, <3>2, AnyOutcome
      <3> QED
        BY <2>4, <3>1, <3>2 DEF Performed
    <2>5. ASSUME r \in NotPerformed \cup Refused
          PROVE  /\ LinkStep(Replies)
                 /\ r.data = <<>> \/ (late # <<>> /\ r.data = late[1].data)
      <3>1. CASE \E f \in {0, 1} : r \in Outcome(FALSE, f, <<Reply("SWDFAULT", <<>>)>>)
        <4> DEFINE p == Reply("SWDFAULT", <<>>)
        <4>1. p \in Replies /\ p.data = <<>> /\ FALSE \in BOOLEAN
              /\ \E f \in {0, 1} : r \in Outcome(FALSE, f, <<p>>)
          BY <2>1, <2>2, <3>1
        <4>2. Take(r)
          BY <1>1
        <4> HIDE DEF p
        <4>3. LinkStep(Replies)
          BY <4>1, <4>2, <2>0, AnyOutcome, ZenonT(60)
        <4>4. \/ r.data = <<>>
              \/ late # <<>> /\ r.data = late[1].data
              \/ late = <<>> /\ late' = <<>> /\ r.data = p.data
          BY <4>1, <4>2, <2>0, AnyOutcome, ZenonT(60)
        <4> QED
          BY <4>1, <4>3, <4>4
      <3>2. CASE r \in Outcome(FALSE, 0, <<>>)
        BY <1>1, <2>0, <2>1, <2>3, <3>2, AnyOutcome
      <3> QED
        BY <2>5, <3>1, <3>2 DEF NotPerformed, Refused
    <2> QED
      BY <1>1, <2>4, <2>5 DEF ExchangeFlash, Exchange
  <1>9. ErasedInTime'
    BY <1>1, <1>2 DEF ErasedInTime, Finish
  <1>10. ASSUME Telling, Matches(r)
         PROVE  late' = <<>> /\ ~erasing /\ \A k \in idx + 1 .. ChunkEnd : flash[k] = image[k]
    <2>1. \A k \in idx + 1 .. ChunkEnd : PopWord(r, k - idx) = image[k]
      BY <1>10 DEF Matches, Chunk
    <2>2. PICK k \in idx + 2 .. idx + ChunkWords : k <= Len(image) /\ image[k] # {}
      <3>1. \E j \in 0 .. idx : idx = j * ChunkWords
        BY <1>2, <1>10 DEF Inv, VerifiedSoFar
      <3> QED
        BY <1>2, <1>10, <3>1 DEF Telling
    <2>3. k \in idx + 1 .. ChunkEnd /\ k - idx > 1
      BY <1>2, <2>2, LimitsAssumption DEF ChunkEnd
    <2>4. PopWord(r, k - idx) # {}
      BY <2>1, <2>2, <2>3
    <2>5. ASSUME late # <<>>
          PROVE  Len(late[1].data) <= 1 /\ late[1].data \in Seq(Word)
      <3>1. late \in Seq(Short)
        BY <1>2, <1>10 DEF Inv, LinkOK
      <3>2. late[1] \in Short
        BY <2>5, <3>1
      <3> QED
        BY <3>2 DEF Short, Replies
    <2>6. late = <<>> /\ late' = <<>> /\ r.data = w /\ ~erasing
      BY <1>2, <1>8, <2>3, <2>4, <2>5 DEF PopWord
    <2>7. ASSUME NEW m \in idx + 1 .. ChunkEnd
          PROVE  flash[m] = image[m]
      <3>1. m - idx \in 1 .. ChunkEnd - idx /\ idx + (m - idx) = m
        BY <1>2, <1>3
      <3>2. w[m - idx] = flash[m]
        BY <1>5, <3>1
      <3>3. PopWord(r, m - idx) = w[m - idx]
        BY <1>5, <2>6, <3>1 DEF PopWord
      <3> QED
        BY <2>1, <3>2, <3>3
    <2> QED
      BY <2>6, <2>7
  <1>11. VerifiedSoFar'
    <2>1. SUFFICES ASSUME Telling, pc' = "verify"
                   PROVE  /\ idx' < Len(image) => \E j \in 0 .. idx' : idx' = j * ChunkWords
                          /\ idx' > 0 => ~erasing' /\ \A k \in 1 .. idx' : flash'[k] = image[k]
      BY <1>2 DEF VerifiedSoFar, Telling
    <2>2. Matches(r) /\ idx' = ChunkEnd /\ flash' = flash /\ erasing' = erasing
      BY <1>1, <2>1 DEF Finish, targetVars
    <2>3. ASSUME idx' < Len(image)
          PROVE  \E j \in 0 .. idx' : idx' = j * ChunkWords
      <3>1. idx' = idx + ChunkWords
        BY <1>2, <2>2, <2>3 DEF ChunkEnd
      <3>2. PICK j \in 0 .. idx : idx = j * ChunkWords
        BY <1>2, <2>1 DEF Inv, VerifiedSoFar
      <3>3. idx' = (j + 1) * ChunkWords /\ j + 1 \in 0 .. idx'
        BY <1>2, <3>1, <3>2, LimitsAssumption
      <3> QED
        BY <3>3
    <2>4. idx > 0 => \A k \in 1 .. idx : flash[k] = image[k]
      BY <1>2, <2>1 DEF Inv, VerifiedSoFar
    <2> QED
      BY <1>2, <1>3, <1>10, <2>1, <2>2, <2>3, <2>4
  <1>12. VerifiedAll'
    BY <1>2 DEF VerifiedAll
  <1>13. LinkOK(Replies)'
    BY <1>8 DEF LinkStep, LinkOK, Replies
  <1>14. pc' # "done" /\ (pc' = "verify" => Telling') => LinkOK(Short)'
    <2>1. Telling' = Telling
      BY <1>2 DEF Telling
    <2>2. pc' # "done" => Matches(r) /\ pc' = "verify"
      BY <1>1, <1>2 DEF Finish
    <2>3. late' = <<>> => LinkOK(Short)'
      BY <1>8 DEF LinkStep, LinkOK
    <2> QED
      BY <1>10, <2>1, <2>2, <2>3
  <1> QED
    BY <1>6, <1>7, <1>9, <1>11, <1>12, <1>13, <1>14 DEF Inv, Control

-----------------------------------------------------------------------------
LEMMA SkipBlankOK == Inv /\ SkipBlank => Inv'
  <1> SUFFICES ASSUME Inv, SkipBlank
               PROVE  Inv'
    OBVIOUS
  <1>1. /\ pc = "program" /\ pc' = "program" /\ stage = 2 /\ stage' = 2
        /\ image' = image /\ idx' = idx + 1 /\ idx \in 0 .. Len(image) - 1 /\ result' # 0
    BY DEF SkipBlank, NextWord, Inv, ScriptOK, StageOK
  <1>2. Control
    BY <1>1 DEF SkipBlank, NextWord, Inv, ScriptOK, PcOK, StageOK, Control
  <1>3. LinkStep(Short)
    BY <1>1 DEF SkipBlank, linkVars, Inv, LinkOK, LinkStep
  <1>4. TargetOK'
    BY <1>1 DEF SkipBlank, targetVars, Inv, TargetOK
  <1>5. ErasedInTime'
    BY <1>1 DEF SkipBlank, linkVars, targetVars, Inv, ErasedInTime, Erased
  <1> QED
    BY <1>1, <1>2, <1>3, <1>4, <1>5, Unverified

LEMMA ProgramEndOK == Inv /\ ProgramEnd => Inv'
  <1> SUFFICES ASSUME Inv, ProgramEnd
               PROVE  Inv'
    OBVIOUS
  <1>1. /\ pc = "program" /\ pc' \in {"assert", "done"} /\ stage' \in {2, 3}
        /\ pc' = "assert" => stage' = 3 /\ idx' = 0
        /\ image' = image /\ result' # 0
    BY DEF ProgramEnd, GoStage, Finish, Inv, ScriptOK, StageOK
  <1>2. Control
    BY <1>1 DEF ProgramEnd, GoStage, Finish, Inv, ScriptOK, PcOK, StageOK, Control
  <1>3. LinkStep(Short)
    BY <1>1 DEF ProgramEnd, linkVars, Inv, LinkOK, LinkStep
  <1>4. TargetOK'
    BY <1>1 DEF ProgramEnd, targetVars, Inv, TargetOK
  <1>5. ErasedInTime'
    BY <1>1 DEF ErasedInTime
  <1> QED
    BY <1>1, <1>2, <1>3, <1>4, <1>5, Unverified

LEMMA VerifyEndOK == Inv /\ VerifyEnd => Inv'
  <1> SUFFICES ASSUME Inv, VerifyEnd
               PROVE  Inv'
    OBVIOUS
  <1>1. /\ pc = "verify" /\ pc' = "done" /\ image' = image /\ idx = Len(image) /\ stage' = 3
        /\ UNCHANGED targetVars /\ UNCHANGED linkVars
    BY DEF VerifyEnd, Finish, Inv, StageOK
  <1>2. Control
    BY <1>1 DEF VerifyEnd, Finish, Inv, ScriptOK, PcOK, StageOK, Control
  <1>3. LinkOK(Replies)' /\ TargetOK'
    BY <1>1 DEF linkVars, targetVars, Inv, LinkOK, TargetOK, Replies
  <1>4. VerifiedAll'
    <2>1. SUFFICES ASSUME Telling
                   PROVE  flash = image /\ (image = <<>> \/ ~erasing)
      BY <1>1 DEF VerifiedAll, Telling, targetVars
    <2>2. image \in Seq(Word) /\ flash \in Seq(Word) /\ Len(flash) = Len(image)
      BY ImagesAssumption DEF Inv, ScriptOK, TargetOK
    <2>3. idx > 0 => ~erasing /\ \A k \in 1 .. idx : flash[k] = image[k]
      BY <1>1, <2>1 DEF Inv, VerifiedSoFar
    <2>4. \A k \in 1 .. Len(image) : flash[k] = image[k]
      BY <1>1, <2>2, <2>3
    <2>5. flash = image
      BY <2>2, <2>4
    <2>6. Len(image) = 0 => image = <<>>
      BY <2>2
    <2> QED
      BY <1>1, <2>2, <2>3, <2>5, <2>6
  <1> QED
    BY <1>1, <1>2, <1>3, <1>4 DEF Inv, Control, VerifiedSoFar, ErasedInTime

LEMMA EraseFinishesOK == Inv /\ EraseFinishes => Inv'
  <1> SUFFICES ASSUME Inv, EraseFinishes
               PROVE  Inv'
    OBVIOUS
  <1>1. /\ erasing /\ erasing' = FALSE /\ flash' = [k \in DOMAIN flash |-> Blank]
        /\ fcfg' = fcfg /\ secure' = secure
        /\ UNCHANGED scriptVars /\ UNCHANGED linkVars
    BY DEF EraseFinishes
  <1>2. Control
    BY <1>1 DEF scriptVars, Inv, ScriptOK, PcOK, StageOK, Control
  <1>3. LinkOK(Replies)'
    BY <1>1 DEF linkVars, Inv, LinkOK, Replies
  <1>4. TargetOK' /\ Erased(0)'
    BY <1>1, BitsFinite DEF scriptVars, Inv, TargetOK, Erased
  <1>5. pc' # "done" /\ (pc' = "verify" => Telling') => LinkOK(Short)'
    BY <1>1 DEF scriptVars, linkVars, Inv, LinkOK, Telling
  <1>6. VerifiedSoFar'
    BY <1>1 DEF scriptVars, Inv, VerifiedSoFar, Telling
  <1>7. VerifiedAll'
    <2>1. ASSUME Telling, result = 0
          PROVE  flash' = image
      <3>1. flash = image /\ image = <<>>
        BY <1>1, <2>1 DEF Inv, VerifiedAll
      <3> QED
        BY <1>1, <3>1
    <2> QED
      BY <1>1, <2>1 DEF VerifiedAll, scriptVars, Telling
  <1>8. ErasedInTime'
    BY <1>1, <1>4 DEF scriptVars, linkVars, Inv, ErasedInTime, Erased, ScriptOK
  <1> QED
    BY <1>2, <1>3, <1>4, <1>5, <1>6, <1>7, <1>8 DEF Inv, Control

-----------------------------------------------------------------------------
LEMMA InitOK == Init => Inv
  <1> SUFFICES ASSUME Init
               PROVE  Inv
    OBVIOUS
  <1>1. /\ pc = "connect" /\ stage = 0 /\ retries = 0 /\ idx = 0 /\ result = 1
        /\ image \in Images /\ image \in Seq(Word) /\ ragged \in BOOLEAN
        /\ late = <<>> /\ faults = 0 /\ losses = 0
    BY ImagesAssumption DEF Init
  <1>2. PcOK /\ StageOK /\ ScriptOK
    BY <1>1, LimitsAssumption DEF PcOK, StageOK, ScriptOK
  <1>3. TargetOK
    <2>1. PICK w \in {{}, Blank} : flash = [k \in DOMAIN image |-> w]
      BY DEF Init
    <2>2. w \in Word
      BY BitsFinite
    <2>4. DOMAIN image = 1 .. Len(image)
      BY <1>1
    <2>3. fcfg \in Word /\ secure \in BOOLEAN /\ erasing \in BOOLEAN
      BY DEF Init, Word, Bits, SIZE32K, FLASHDIS
    <2> QED
      BY <2>1, <2>2, <2>3, <2>4 DEF TargetOK
  <1>4. LinkOK(Replies) /\ LinkOK(Short)
    BY <1>1, LimitsAssumption DEF LinkOK
  <1> QED
    BY <1>1, <1>2, <1>3, <1>4 DEF Inv, VerifiedSoFar, VerifiedAll, ErasedInTime

LEMMA NextOK == Inv /\ [Next]_vars => Inv'
  <1> SUFFICES ASSUME Inv, [Next]_vars
               PROVE  Inv'
    OBVIOUS
  <1>1. CASE UNCHANGED vars
    <2>1. UNCHANGED scriptVars /\ UNCHANGED targetVars /\ UNCHANGED linkVars
      BY <1>1 DEF vars
    <2>2. (PcOK /\ StageOK /\ ScriptOK)'
      BY <2>1 DEF scriptVars, Inv, PcOK, StageOK, ScriptOK
    <2>3. TargetOK' /\ LinkOK(Replies)'
      BY <2>1 DEF scriptVars, targetVars, linkVars, Inv, TargetOK, LinkOK, Replies
    <2>4. pc' # "done" /\ (pc' = "verify" => Telling') => LinkOK(Short)'
      BY <2>1 DEF scriptVars, linkVars, Inv, LinkOK, Telling
    <2>5. VerifiedSoFar' /\ VerifiedAll'
      BY <2>1 DEF scriptVars, targetVars, Inv, VerifiedSoFar, VerifiedAll, Telling
    <2>6. ErasedInTime'
      BY <2>1 DEF scriptVars, targetVars, linkVars, Inv, ErasedInTime, Erased
    <2> QED
      BY <2>2, <2>3, <2>4, <2>5, <2>6 DEF Inv
  <1> QED
    BY <1>1, ConnectOK, AssertResetOK, ReleaseResetOK, PowerUpOK, PollPowerOK, EnableDebugOK,
       RequestDebugOK, CheckHaltedOK, ReadRegistersOK, EnableClockOK, PollReadyOK, CheckSecurityOK,
       CheckSizeOK, EraseOK, PollErasedOK, SkipBlankOK, ProgramLongwordOK, ProgramEndOK, VerifyOK,
       VerifyEndOK, EraseFinishesOK
       DEF Next, Script

THEOREM InvHolds == Spec => []Inv
  BY InitOK, NextOK, PTL DEF Spec

(* The program's variables keep their types, its loops their bounds.       *)
THEOREM TypesHold == Spec => []TypeOK
  <1>1. Inv => TypeOK
    <2> SUFFICES ASSUME Inv
                 PROVE  TypeOK
      OBVIOUS
    <2>1. DOMAIN image = 1 .. Len(image)
      BY ImagesAssumption DEF Inv, ScriptOK
    <2> QED
      BY <2>1 DEF Inv, PcOK, ScriptOK, TargetOK, LinkOK, TypeOK
  <1> QED
    BY <1>1, InvHolds, PTL

(* Success is reported only when the image is in the flash.                *)
THEOREM SuccessMeansVerified == Spec => []VerifiedImage
  <1>1. Inv => VerifiedImage
    BY DEF Inv, VerifiedAll, VerifiedImage
  <1> QED
    BY <1>1, InvHolds, PTL

(* Without a lost reply, programming begins on an erased flash.            *)
THEOREM ProgramsErasedFlash == Spec => []ErasedBeforeProgram
  <1>1. Inv => ErasedBeforeProgram
    BY DEF Inv, StageOK, TargetOK, ErasedInTime, Erased, ErasedBeforeProgram
  <1> QED
    BY <1>1, InvHolds, PTL
-----------------------------------------------------------------------------
(* What is asked before an erase: the replies that are late by then.       *)
Lead(w) == IF w = <<>> THEN {} ELSE w[1]

LacksIn(q, b) == \A j \in 1 .. Len(q) : b \notin Lead(q[j].data)

(* A value read for the log that looks like the size of a suitable part is *)
(* one of as many late replies as are before it.  With each packet since,  *)
(* either it came nearer, or one more reply was lost or late.              *)
Behind(n) ==
    \A j \in 1 .. Len(late) : SIZE32K \in Lead(late[j].data) => j + n <= losses

LateOK ==
    /\ secure /\ stage <= 1 /\ pc \notin {"erasing", "done"} =>
           LacksIn(late, SIZE32K) /\ pc # "erase"
    /\ pc = "ready" => Behind(1)
    /\ pc = "security" => Behind(2)
    /\ pc = "size" => Behind(3)
    /\ pc = "erase" /\ losses <= 3 => SIZE32K \in fcfg /\ FLASHDIS \notin fcfg

(* The unread replies q, and the one that is read of them, or none.        *)
Reading(r, q) ==
    \/ r.data = <<>> /\ late' = q /\ losses' = losses + 1
    \/ q # <<>> /\ r.data = q[1].data /\ late' = Tail(q) /\ losses' \in Nat /\ losses' >= losses

(* The reply to a packet with the results w, if there is one, is the last. *)
Answers(p, w) == p \in Replies /\ p.data \in {<<>>, w}

Arrived(q, w) ==
    \/ q = late
    \/ \E p : q = Append(late, p) /\ Answers(p, w)

LEMMA Lines ==
    ASSUME late \in Seq(Replies), losses \in Nat, NEW b, NEW f, NEW p, NEW w, Answers(p, w),
           NEW sent \in {<<>>, <<p>>}, NEW r \in Outcome(b, f, sent), Take(r)
    PROVE  \E q \in Seq(Replies) : Arrived(q, w) /\ Reading(r, q)
  <1> DEFINE q == late \o sent
  <1>1. q \in Seq(Replies) /\ Arrived(q, w)
    <2> USE DEF Answers
    <2>1. CASE sent = <<>>
      BY <2>1 DEF Arrived
    <2>2. CASE sent = <<p>>
      <3>1. q = Append(late, p)
        BY <2>2
      <3> QED
        BY <3>1 DEF Arrived
    <2> QED
      BY <2>1, <2>2
  <1>5. Len(sent) \in {0, 1}
    OBVIOUS
  <1>2. \/ q # <<>> /\ r.data = Head(q).data /\ r.late = Tail(q)
           /\ r.losses \in Nat /\ r.losses >= losses
        \/ r.data = <<>> /\ r.late = q /\ r.losses = losses + 1
    <2>1. \/ q # <<>> /\ r.data = Head(q).data /\ r.late = Tail(q) /\ r.losses = losses + (1 - Len(sent))
          \/ r.data = <<>> /\ r.late = q /\ r.losses = losses + 1
      BY DEF Outcome, Nothing, Reply
    <2>2. \A n \in Nat, m \in {0, 1} : n + (1 - m) >= n /\ n + (1 - m) \in Nat
      OBVIOUS
    <2> QED
      BY <1>5, <2>1, <2>2, Zenon
  <1>3. q # <<>> => Head(q) = q[1]
    BY <1>1
  <1>4. Reading(r, q)
    BY <1>2, <1>3, Zenon DEF Reading, Take
  <1> QED
    BY <1>1, <1>4

(* Of a secured part no words come.                                        *)
LEMMA Line ==
    ASSUME late \in Seq(Replies), losses \in Nat, NEW w \in Seq(Word), NEW r, Take(r),
           r \in Exchange(w) \/ r \in ExchangeMemory(w)
    PROVE  \E q \in Seq(Replies) :
               /\ Arrived(q, w) /\ Reading(r, q)
               /\ secure /\ r \in ExchangeMemory(w) => Arrived(q, <<>>)
  <1>1. <<>> \in Seq(Word)
    OBVIOUS
  <1>2. PICK ok \in Replies : ok = Reply("OK", w) /\ ok.data = w
    <2>1. Reply("OK", w) \in Replies /\ Reply("OK", w).data = w
      BY <1>1 DEF Replies, Reply, Status
    <2> QED
      BY <2>1
  <1>3. PICK fault \in Replies : fault = Reply("SWDFAULT", <<>>) /\ fault.data = <<>>
    <2>1. Reply("SWDFAULT", <<>>) \in Replies /\ Reply("SWDFAULT", <<>>).data = <<>>
      BY <1>1 DEF Replies, Reply, Status
    <2> QED
      BY <2>1
  <1>4. ASSUME r \in Performed(w)
        PROVE  \E q \in Seq(Replies) : Arrived(q, w) /\ Reading(r, q)
    <2>1. PICK b \in BOOLEAN, f \in {0, 1}, sent \in {<<>>, <<ok>>} : r \in Outcome(b, f, sent)
      BY <1>2, <1>4 DEF Performed
    <2>2. Answers(ok, w)
      BY <1>2 DEF Answers
    <2> QED
      BY <2>1, <2>2, Lines, Zenon
  <1>5. ASSUME r \in NotPerformed \cup Refused
        PROVE  \E q \in Seq(Replies) : Arrived(q, <<>>) /\ Reading(r, q)
    <2>1. PICK b \in BOOLEAN, f \in {0, 1}, sent \in {<<>>, <<fault>>} : r \in Outcome(b, f, sent)
      BY <1>3, <1>5 DEF NotPerformed, Refused
    <2>2. Answers(fault, <<>>)
      BY <1>3 DEF Answers
    <2> QED
      BY <2>1, <2>2, Lines, Zenon
  <1>6. \A q : Arrived(q, <<>>) => Arrived(q, w)
    BY DEF Arrived, Answers
  <1> QED
    BY <1>4, <1>5, <1>6 DEF Exchange, ExchangeMemory

LEMMA ReadFirst ==
    ASSUME NEW r, r.data \in Seq(Word)
    PROVE  PopWord(r, 1) = Lead(r.data)
  BY DEF PopWord, Lead
-----------------------------------------------------------------------------
(* A packet whose results have not the bit b first.                        *)
LEMMA Lacking ==
    ASSUME late \in Seq(Replies), NEW w \in Seq(Word), NEW b, b \notin Lead(w),
           LacksIn(late, b), NEW r, NEW q \in Seq(Replies), Arrived(q, w), Reading(r, q)
    PROVE  LacksIn(late', b) /\ b \notin Lead(r.data)
  <1>1. b \notin Lead(<<>>)
    BY DEF Lead
  <1>2. LacksIn(q, b)
    <2>1. ASSUME NEW p, q = Append(late, p), Answers(p, w)
          PROVE  LacksIn(q, b)
      <3>1. b \notin Lead(p.data)
        BY <1>1, <2>1 DEF Answers
      <3>2. \A j \in 1 .. Len(q) : (j \in 1 .. Len(late) /\ q[j] = late[j]) \/ q[j] = p
        BY <2>1 DEF Answers
      <3> QED
        BY <3>1, <3>2 DEF LacksIn
    <2> QED
      BY <2>1 DEF Arrived
  <1>3. CASE r.data = <<>> /\ late' = q
    BY <1>1, <1>2, <1>3
  <1>4. CASE q # <<>> /\ r.data = q[1].data /\ late' = Tail(q)
    <2>1. 1 \in 1 .. Len(q)
      BY <1>4
    <2>2. \A j \in 1 .. Len(Tail(q)) : Tail(q)[j] = q[j + 1] /\ j + 1 \in 1 .. Len(q)
      BY <1>4
    <2> QED
      BY <1>2, <1>4, <2>1, <2>2 DEF LacksIn
  <1> QED
    BY <1>3, <1>4 DEF Reading

LEMMA Nearer ==
    ASSUME late \in Seq(Replies), losses \in Nat, NEW n \in Nat, Behind(n),
           NEW w \in Seq(Word), SIZE32K \notin Lead(w),
           NEW r, NEW q \in Seq(Replies), Arrived(q, w), Reading(r, q)
    PROVE  Behind(n + 1)'
  <1>1. \A j \in 1 .. Len(q) : SIZE32K \in Lead(q[j].data) => j + n <= losses
    <2>1. ASSUME NEW p, q = Append(late, p), Answers(p, w), NEW j \in 1 .. Len(q),
                 SIZE32K \in Lead(q[j].data)
          PROVE  j + n <= losses
      <3>1. SIZE32K \notin Lead(p.data)
        BY <2>1 DEF Answers, Lead
      <3>2. (j \in 1 .. Len(late) /\ q[j] = late[j]) \/ q[j] = p
        BY <2>1
      <3> QED
        BY <2>1, <3>1, <3>2 DEF Behind
    <2> QED
      BY <2>1 DEF Arrived, Behind
  <1>2. CASE late' = q /\ losses' = losses + 1
    BY <1>1, <1>2 DEF Behind
  <1>3. CASE q # <<>> /\ late' = Tail(q) /\ losses' \in Nat /\ losses' >= losses
    <2>1. \A j \in 1 .. Len(Tail(q)) : Tail(q)[j] = q[j + 1] /\ j + 1 \in 1 .. Len(q)
      BY <1>3
    <2>2. ASSUME NEW j \in 1 .. Len(late'), SIZE32K \in Lead(late'[j].data)
          PROVE  j + (n + 1) <= losses'
      <3>1. j + 1 \in 1 .. Len(q) /\ SIZE32K \in Lead(q[j + 1].data)
        BY <1>3, <2>1, <2>2
      <3>2. j + 1 + n <= losses
        BY <1>1, <3>1
      <3> QED
        BY <1>3, <3>2
    <2> QED
      BY <2>2 DEF Behind
  <1> QED
    BY <1>2, <1>3 DEF Reading

(* What is read, when nothing late looks like it, is the answer.           *)
LEMMA Answered ==
    ASSUME late \in Seq(Replies), NEW w \in Seq(Word), NEW b,
           LacksIn(late, b), NEW r, NEW q \in Seq(Replies), Arrived(q, w), Reading(r, q),
           b \in Lead(r.data)
    PROVE  r.data = w
  <1>1. b \notin Lead(<<>>)
    BY DEF Lead
  <1>2. q # <<>> /\ r.data = q[1].data
    BY <1>1 DEF Reading
  <1>3. ASSUME late # <<>>
        PROVE  FALSE
    <2>1. q[1] = late[1] /\ 1 \in 1 .. Len(late)
      BY <1>3 DEF Arrived
    <2> QED
      BY <1>2, <2>1 DEF LacksIn
  <1>4. PICK p : q = Append(late, p) /\ p.data \in {<<>>, w}
    BY <1>2, <1>3 DEF Arrived, Answers
  <1>5. q[1] = p
    BY <1>3, <1>4
  <1> QED
    BY <1>1, <1>2, <1>4, <1>5
LEMMA Asked ==
    ASSUME Inv, NEW w \in Seq(Word), NEW r, Take(r), r \in Exchange(w) \/ r \in ExchangeMemory(w)
    PROVE  /\ PopWord(r, 1) = Lead(r.data)
           /\ SIZE32K \notin Lead(w) /\ LacksIn(late, SIZE32K) => LacksIn(late', SIZE32K)
           /\ \A n \in Nat : SIZE32K \notin Lead(w) /\ Behind(n) => Behind(n + 1)'
           /\ LacksIn(late, SIZE32K) /\ SIZE32K \in Lead(r.data) =>
                  r.data = w /\ ~(secure /\ r \in ExchangeMemory(w))
           /\ LacksIn(late, SIZE32K) /\ secure /\ r \in ExchangeMemory(w) => LacksIn(late', SIZE32K)
  <1>1. late \in Seq(Replies) /\ losses \in Nat
    BY DEF Inv, LinkOK
  <1>2. PICK q \in Seq(Replies) :
            /\ Arrived(q, w) /\ Reading(r, q)
            /\ secure /\ r \in ExchangeMemory(w) => Arrived(q, <<>>)
    BY <1>1, Line
  <1>3. r.data \in Seq(Word)
    <2>1. q # <<>> => q[1] \in Replies
      OBVIOUS
    <2>2. \A p \in Replies : p.data \in Seq(Word)
      BY DEF Replies
    <2>3. <<>> \in Seq(Word)
      OBVIOUS
    <2> QED
      BY <1>2, <2>1, <2>2, <2>3 DEF Reading
  <1>4. ASSUME LacksIn(late, SIZE32K), secure, r \in ExchangeMemory(w)
        PROVE  LacksIn(late', SIZE32K) /\ SIZE32K \notin Lead(r.data)
    <2>1. <<>> \in Seq(Word) /\ SIZE32K \notin Lead(<<>>)
      BY DEF Lead
    <2> QED
      BY <1>1, <1>2, <1>4, <2>1, Lacking
  <1>5. SIZE32K \notin Lead(w) /\ LacksIn(late, SIZE32K) => LacksIn(late', SIZE32K)
    BY <1>1, <1>2, Lacking
  <1>6. ASSUME NEW n \in Nat, SIZE32K \notin Lead(w), Behind(n)
        PROVE  Behind(n + 1)'
    BY <1>1, <1>2, <1>6, Nearer
  <1>7. LacksIn(late, SIZE32K) /\ SIZE32K \in Lead(r.data) => r.data = w
    BY <1>1, <1>2, Answered
  <1> QED
    BY <1>3, <1>4, <1>5, <1>6, <1>7, ReadFirst

LEMMA Signs ==
    /\ Lead(<<>>) = {} /\ \A v : Lead(<<v>>) = v
    /\ SIZE32K \notin IDCODE
    /\ \A v \in {{}, {POWERUP}} : SIZE32K \notin v
    /\ \A v \in Stat : SIZE32K \notin v
  BY DEF POWERUP, SIZE32K, IDCODE, FLASHREADY, COREHALTED, Stat, Security, SYSSECURITY, Lead

-----------------------------------------------------------------------------
(* The packets before the size is asked for, with the results w.  Memory   *)
(* is not read of a secured part.                                          *)
Ask(w) ==
    /\ w \in Seq(Word) /\ UNCHANGED targetVars
    /\ \E r : Take(r) /\ (\/ r \in Exchange(w) /\ SIZE32K \notin Lead(w)
                          \/ r \in ExchangeMemory(w))

LEMMA AskedSecured ==
    ASSUME Inv, NEW w, Ask(w), secure, LacksIn(late, SIZE32K)
    PROVE  LacksIn(late', SIZE32K)
  <1>1. w \in Seq(Word)
    BY DEF Ask
  <1> QED
    BY <1>1, Asked DEF Ask

(* The packets before the first check.                                     *)
LEMMA EarlyAsk ==
    ASSUME Inv, Connect \/ ReleaseReset \/ PowerUp \/ PollPower \/ EnableDebug \/ RequestDebug
                \/ CheckHalted \/ ReadRegisters
    PROVE  /\ \E w : Ask(w)
           /\ stage' <= 1 => stage <= 1
           /\ pc' \notin {"ready", "security", "size", "erase"} /\ pc \notin {"erasing", "done"}
  <1>1. /\ <<>> \in Seq(Word) /\ <<IDCODE>> \in Seq(Word) /\ <<MSP>> \in Seq(Word)
        /\ \A v \in Word : <<v>> \in Seq(Word)
        /\ \A v \in Stat \cup CorePC \cup {{}, {POWERUP}} : v \in Word
    BY Words
  <1>2. CASE Connect
    <2>1. Ask(<<IDCODE>>)
      BY <1>1, <1>2, Signs DEF Ask, Connect
    <2> QED
      BY <1>2, <2>1 DEF Connect, Retry, Go, GoStage, Inv, StageOK
  <1>3. CASE ReleaseReset \/ PowerUp \/ RequestDebug \/ EnableDebug
    <2>1. Ask(<<>>)
      BY <1>1, <1>3, Signs DEF Ask, ReleaseReset, PowerUp, RequestDebug, EnableDebug
    <2>2. pc \in {"release", "power", "request", "debug"} /\ stage' = stage
      BY <1>3 DEF ReleaseReset, PowerUp, RequestDebug, EnableDebug, Go, Halted, Inv, StageOK
    <2> QED
      BY <1>3, <2>1, <2>2
         DEF ReleaseReset, PowerUp, RequestDebug, EnableDebug, Go, Halted, Inv, StageOK
  <1>4. CASE PollPower
    <2>1. PICK v \in {{}, {POWERUP}} : \E r \in Exchange(<<v>>) : UNCHANGED targetVars /\ Take(r)
      BY <1>4 DEF PollPower
    <2>2. Ask(<<v>>)
      BY <1>1, <2>1, Signs DEF Ask
    <2> QED
      BY <1>4, <2>2 DEF PollPower, Retry, Go, Halted
  <1>5. CASE CheckHalted
    <2>1. PICK v \in Stat : \E r \in Exchange(<<v>>) : UNCHANGED targetVars /\ Take(r)
      BY <1>5 DEF CheckHalted
    <2>2. Ask(<<v>>)
      BY <1>1, <2>1, Signs DEF Ask
    <2> QED
      BY <1>5, <2>2 DEF CheckHalted, Go, Halted
  <1>6. CASE ReadRegisters
    <2>1. retries \in {0, 1, 2, 3}
      BY <1>6 DEF ReadRegisters, Inv, ScriptOK
    <2>2. PICK v \in CorePC :
              \E r \in ExchangeMemory(CASE retries = 1       -> <<v>>
                                      [] retries = 3       -> <<MSP>>
                                      [] retries \in {0, 2} -> <<>>) :
                  UNCHANGED targetVars /\ Take(r)
      BY <1>6 DEF ReadRegisters
    <2>3. PICK w \in {<<>>, <<v>>, <<MSP>>} :
              \E r \in ExchangeMemory(w) : UNCHANGED targetVars /\ Take(r)
      BY <2>1, <2>2
    <2>4. w \in Seq(Word)
      BY <1>1, <2>3
    <2>5. Ask(w)
      BY <2>3, <2>4 DEF Ask
    <2> QED
      BY <1>6, <2>5 DEF ReadRegisters, Retry, Go, Halted
  <1> QED
    BY <1>2, <1>3, <1>4, <1>5, <1>6

LEMMA EarlyLate ==
    ASSUME Inv, Inv', LateOK,
           Connect \/ ReleaseReset \/ PowerUp \/ PollPower \/ EnableDebug \/ RequestDebug
               \/ CheckHalted \/ ReadRegisters
    PROVE  LateOK'
  <1>1. PICK w : Ask(w)
    BY EarlyAsk
  <1>2. /\ stage' <= 1 => stage <= 1
        /\ pc' \notin {"ready", "security", "size", "erase"} /\ pc \notin {"erasing", "done"}
    BY EarlyAsk
  <1>3. secure' = secure
    BY <1>1 DEF Ask, targetVars
  <1>4. secure /\ stage' <= 1 => LacksIn(late', SIZE32K)
    BY <1>1, <1>2, AskedSecured DEF LateOK
  <1> QED
    BY <1>2, <1>3, <1>4 DEF LateOK

(* Three questions, each of whose replies is no size.                      *)
LEMMA ChecksLate ==
    ASSUME Inv, Inv', LateOK, EnableClock \/ PollReady \/ CheckSecurity
    PROVE  LateOK'
  <1>1. /\ stage = 1 /\ stage' = 1 /\ UNCHANGED targetVars /\ pc \notin {"erasing", "done"}
        /\ \/ pc = "clock" /\ pc' \in {"ready", "done"}
           \/ pc = "ready" /\ pc' \in {"ready", "security", "done"}
           \/ pc = "security" /\ pc' \in {"size", "done"}
    BY DEF EnableClock, PollReady, CheckSecurity, Go, Retry, Finish, Inv, StageOK
  <1>2. PICK w \in Seq(Word) : SIZE32K \notin Lead(w) /\ \E r :
            Take(r) /\ (r \in Exchange(w) \/ r \in ExchangeMemory(w))
    <2>1. CASE EnableClock
      <3>1. <<>> \in Seq(Word) /\ SIZE32K \notin Lead(<<>>)
        BY Words, Signs
      <3>2. \E r \in ExchangeMemory(<<>>) : Take(r)
        BY <2>1 DEF EnableClock
      <3> QED
        BY <3>1, <3>2
    <2>2. CASE PollReady \/ CheckSecurity
      <3>1. PICK v \in Stat : \E r \in Exchange(<<v>>) : Take(r)
        BY <2>2 DEF PollReady, CheckSecurity
      <3>2. <<v>> \in Seq(Word) /\ SIZE32K \notin Lead(<<v>>)
        BY Words, Signs
      <3> QED
        BY <3>1, <3>2
    <2> QED
      BY <2>1, <2>2
  <1>3. PICK r : Take(r) /\ (r \in Exchange(w) \/ r \in ExchangeMemory(w))
    BY <1>2
  <1>4. secure => LacksIn(late', SIZE32K)
    BY <1>1, <1>2, <1>3, Asked DEF LateOK
  <1>5. Behind(0)
    <2>1. late \in Seq(Replies) /\ Len(late) <= losses /\ losses \in Nat
      BY DEF Inv, LinkOK
    <2> QED
      BY <2>1 DEF Behind
  <1>6. /\ Behind(1)'
        /\ pc = "ready" => Behind(2)'
        /\ pc = "security" => Behind(3)'
    <2>1. \A n \in Nat : Behind(n) => Behind(n + 1)'
      BY <1>2, <1>3, Asked
    <2>2. 0 \in Nat /\ 1 \in Nat /\ 2 \in Nat /\ 0 + 1 = 1 /\ 1 + 1 = 2 /\ 2 + 1 = 3
      OBVIOUS
    <2> QED
      BY <1>5, <2>1, <2>2 DEF LateOK
  <1> QED
    BY <1>1, <1>4, <1>6 DEF LateOK, targetVars

(* The size that is accepted is the size of this part, and memory can be   *)
(* read of it.                                                             *)
LEMMA CheckSizeLate == Inv /\ Inv' /\ LateOK /\ CheckSize => LateOK'
  <1> SUFFICES ASSUME Inv, Inv', LateOK, CheckSize
               PROVE  LateOK'
    OBVIOUS
  <1>1. /\ pc = "size" /\ stage = 1 /\ pc' \in {"erase", "done"} /\ Behind(3)
        /\ UNCHANGED targetVars /\ secure => LacksIn(late, SIZE32K)
    BY DEF CheckSize, Go, Finish, Inv, StageOK, LateOK
  <1>2. PICK r \in ExchangeMemory(<<fcfg>>) :
            /\ UNCHANGED targetVars /\ Take(r)
            /\ IF SIZE32K \in ValueRead(r) /\ FLASHDIS \notin ValueRead(r)
                 THEN Go("erase") ELSE Finish(-1)
    BY DEF CheckSize
  <1>3. <<fcfg>> \in Seq(Word)
    BY Words DEF Inv, TargetOK
  <1>4. ASSUME pc' = "erase", LacksIn(late, SIZE32K)
        PROVE  ~secure /\ SIZE32K \in fcfg /\ FLASHDIS \notin fcfg
    <2>1. SIZE32K \in PopWord(r, 1) /\ FLASHDIS \notin PopWord(r, 1)
      BY <1>2, <1>4 DEF Finish, ValueRead
    <2>2. PopWord(r, 1) = Lead(r.data)
      BY <1>2, <1>3, Asked
    <2>3. r.data = <<fcfg>> /\ ~secure
      BY <1>2, <1>3, <1>4, <2>1, <2>2, Asked
    <2> QED
      BY <2>1, <2>2, <2>3, Signs
  <1>5. losses' <= 3 => LacksIn(late, SIZE32K)
    <2>1. losses \in Nat /\ losses' \in Nat /\ losses <= losses'
      <3>1. LinkStep(Short)
        <4>1. Len(<<fcfg>>) <= 1
          OBVIOUS
        <4> QED
          BY <1>1, <1>2, <1>3, <4>1, ShortExchange DEF Inv
      <3> QED
        BY <3>1 DEF LinkStep
    <2> QED
      BY <1>1, <2>1 DEF Behind, LacksIn
  <1>6. secure' = secure /\ fcfg' = fcfg
    BY <1>2 DEF targetVars
  <1>7. secure => pc' # "erase"
    BY <1>1, <1>2, <1>4
  <1> QED
    BY <1>1, <1>4, <1>5, <1>6, <1>7 DEF LateOK

LEMMA RestLate ==
    ASSUME Inv, Inv', LateOK,
           \/ AssertReset \/ Erase \/ PollErased \/ SkipBlank \/ ProgramLongword \/ ProgramEnd
           \/ Verify \/ VerifyEnd
    PROVE  LateOK'
  <1>1. stage' \in {2, 3} \/ pc' \in {"erasing", "done"}
    BY DEF AssertReset, Erase, PollErased, SkipBlank, ProgramLongword, ProgramEnd, Verify, VerifyEnd,
           Go, GoStage, Retry, Finish, NextWord, Inv, StageOK
  <1>2. StageOK'
    BY DEF Inv
  <1> QED
    BY <1>1, <1>2 DEF LateOK, StageOK

LEMMA LateStep == Inv /\ Inv' /\ LateOK /\ [Next]_vars => LateOK'
  <1> SUFFICES ASSUME Inv, Inv', LateOK, [Next]_vars
               PROVE  LateOK'
    OBVIOUS
  <1>1. CASE UNCHANGED vars \/ EraseFinishes
    <2>1. /\ UNCHANGED scriptVars /\ UNCHANGED linkVars
          /\ secure' = secure /\ fcfg' = fcfg
      BY <1>1 DEF EraseFinishes, vars, targetVars
    <2>2. stage' = stage /\ pc' = pc /\ late' = late /\ losses' = losses
      BY <2>1 DEF scriptVars, linkVars
    <2> QED
      BY <2>1, <2>2 DEF LateOK, Behind
  <1> QED
    BY <1>1, EarlyLate, ChecksLate, CheckSizeLate, RestLate DEF Next, Script

LEMMA LateHolds == Spec => []LateOK
  <1>1. Init => LateOK
    BY DEF Init, LateOK, LacksIn
  <1> QED
    BY <1>1, LateStep, InvHolds, PTL DEF Spec

(* A secured part is never erased, however many replies are lost or late,  *)
(* and one of another size, or without its flash, not before the fourth.   *)
THEOREM ErasesOnlySuitableHolds == Spec => ErasesOnlySuitable
  <1>1. Inv /\ LateOK /\ [Next]_vars =>
            [erasing' /\ ~erasing =>
                /\ ~secure
                /\ losses <= 3 => SIZE32K \in fcfg /\ FLASHDIS \notin fcfg]_vars
    <2> SUFFICES ASSUME Inv, LateOK, Next, erasing', ~erasing
                 PROVE  /\ ~secure
                        /\ losses <= 3 => SIZE32K \in fcfg /\ FLASHDIS \notin fcfg
      OBVIOUS
    <2>1. Erase
      BY DEF Next, Script, Connect, AssertReset, ReleaseReset, PowerUp, PollPower, EnableDebug,
             RequestDebug, CheckHalted, ReadRegisters, EnableClock, PollReady, CheckSecurity,
             CheckSize, PollErased, SkipBlank, ProgramLongword, ProgramEnd, Verify, VerifyEnd,
             EraseFinishes, targetVars
    <2>2. pc = "erase" /\ stage = 1
      BY <2>1 DEF Erase, Inv, StageOK
    <2> QED
      BY <2>2 DEF LateOK
  <1> QED
    BY <1>1, LateHolds, InvHolds, PTL DEF Spec, ErasesOnlySuitable
=============================================================================
