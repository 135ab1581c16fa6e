--------------------------- MODULE SwdPortProofs ---------------------------
(***************************************************************************)
(* The driver's type invariant, the coherence of its access-port cache     *)
(* and, as long as the host leaves SELECT to it, the implementation of     *)
(* MemoryPort: for every number of words, banks and retries, every set of  *)
(* calls and any target.                                                   *)
(***************************************************************************)
EXTENDS SwdPort, TLAPS

Access == [dir : {"read", "write"}, bank : Banks, reg : 0 .. 3, data : Word]

USE NumWordsAssumption, MaxRetriesAssumption, BanksAssumption, WordsAssumption,
    HostCallsAssumption

-----------------------------------------------------------------------------
(* A call is a sequence of one or four accesses to registers of its bank.  *)
LEMMA AccessesType ==
    ASSUME NEW c \in Call
    PROVE  /\ Len(Accesses(c)) \in {1, 4}
           /\ c.kind \in MemKinds <=> Len(Accesses(c)) = 4
           /\ \A k \in 1 .. Len(Accesses(c)) : Accesses(c)[k] \in Access
  <1>0. 0 \in Word
    BY DEF Word
  <1>1. /\ c.kind \in MemKinds \cup ApKinds \cup DpKinds /\ c.bank \in Banks
        /\ c.reg \in 0 .. 3 /\ c.addr \in Word /\ c.data \in Word
    BY DEF Call
  <1>2. CASE c.kind = "readMemory"
    <2>1. Accesses(c) = << Write(MemBank, CSW, CswConfig), Read(MemBank, CSW),
                           Write(MemBank, TAR, c.addr),    Read(MemBank, DRW) >>
      BY <1>2 DEF Accesses
    <2>2. /\ Write(MemBank, CSW, CswConfig) \in Access /\ Read(MemBank, CSW) \in Access
          /\ Write(MemBank, TAR, c.addr) \in Access    /\ Read(MemBank, DRW) \in Access
      BY <1>0, <1>1 DEF Write, Read, Access, CSW, TAR, DRW
    <2> QED
      BY <1>2, <2>1, <2>2 DEF MemKinds
  <1>3. CASE c.kind = "writeMemory"
    <2>1. Accesses(c) = << Write(MemBank, CSW, CswConfig), Read(MemBank, CSW),
                           Write(MemBank, TAR, c.addr),    Write(MemBank, DRW, c.data) >>
      BY <1>3 DEF Accesses
    <2>2. /\ Write(MemBank, CSW, CswConfig) \in Access /\ Read(MemBank, CSW) \in Access
          /\ Write(MemBank, TAR, c.addr) \in Access    /\ Write(MemBank, DRW, c.data) \in Access
      BY <1>0, <1>1 DEF Write, Read, Access, CSW, TAR, DRW
    <2> QED
      BY <1>3, <2>1, <2>2 DEF MemKinds
  <1>4. CASE c.kind \in {"writeAP", "writeDP"}
    <2>1. Accesses(c) = << Write(c.bank, c.reg, c.data) >>
      BY <1>4 DEF Accesses
    <2>2. Write(c.bank, c.reg, c.data) \in Access
      BY <1>1 DEF Write, Access
    <2> QED
      BY <1>4, <2>1, <2>2 DEF MemKinds
  <1>5. CASE c.kind \in {"readAP", "readDP", "connect"}
    <2>1. Accesses(c) = << Read(c.bank, c.reg) >>
      BY <1>5 DEF Accesses
    <2>2. Read(c.bank, c.reg) \in Access
      BY <1>0, <1>1 DEF Read, Access
    <2> QED
      BY <1>5, <2>1, <2>2 DEF MemKinds
  <1> QED
    BY <1>1, <1>2, <1>3, <1>4, <1>5 DEF MemKinds, ApKinds, DpKinds

(* The call that stands for none is a call.                                *)
LEMMA NoCallType == NoCall \in Call
  BY DEF NoCall, Call, DpKinds, Word

(* The current access of a call in progress.                               *)
LEMMA AccessType == TypeOK => access \in Access
  BY AccessesType DEF TypeOK, access

-----------------------------------------------------------------------------
(* The values the code starts from, and those of a line left high.         *)
LEMMA ConstantsType ==
    0 \in Word /\ CswConfig \in Word /\ Ones \in Word /\ MemBank \in Banks /\ OnesBank \in Banks
  <1>1. 0 \in Word
    BY DEF Word
  <1>2. CswConfig \in Word /\ Ones \in Word
    BY WordsAssumption
  <1>3. MemBank \in Banks /\ OnesBank \in Banks
    BY BanksAssumption
  <1> QED
    BY <1>1, <1>2, <1>3

(* The types of the variables that only the control flow touches, and of   *)
(* those that only the target touches.                                     *)
ControlOK ==
    /\ phase \in {"idle", "connect", "select", "access", "rdbuff", "dp", "return"}
    /\ step \in 1 .. Len(Accesses(call))
    /\ retries \in 0 .. MaxRetries - 1
    /\ polls \in 0 .. MaxRetries
    /\ status \in Statuses /\ data \in Word

TargetOK ==
    /\ live \in BOOLEAN /\ sticky \in BOOLEAN
    /\ sel \in Banks /\ csw \in Word /\ tar \in Word /\ rdbuff \in Word
    /\ mem \in [Word -> Word]

(* The type invariant is the types of the driver and those of the target.  *)
LEMMA TypeSplit ==
    TypeOK <=> /\ m_APcache \in Banks \cup {NoBank} /\ call \in Call
               /\ result \in [status : Statuses, data : Word] /\ trusted \in BOOLEAN
               /\ ControlOK /\ TargetOK
  BY DEF TypeOK, ControlOK, TargetOK

(* A WAIT or a fault keeps the counters of the retry loops below           *)
(* MAX_RETRIES.                                                            *)
LEMMA RefusedType ==
    ASSUME TypeOK, call' = call, NEW ack, Refused(ack)
    PROVE  ControlOK'
  BY AccessesType DEF TypeOK, ControlOK, Refused, Leave, Statuses

(* Leaving a call with a status keeps the types of the driver.             *)
LEMMA LeaveType ==
    ASSUME TypeOK, call' = call, NEW s \in Statuses, Leave(s)
    PROVE  ControlOK'
  BY AccessesType DEF TypeOK, ControlOK, Leave

(* Going on to the next transaction keeps the types of the driver.         *)
LEMMA GoToType ==
    ASSUME TypeOK, call' = call, NEW p \in {"access", "rdbuff"}, GoTo(p)
    PROVE  ControlOK'
  BY AccessesType DEF TypeOK, ControlOK, GoTo

(* A successful access leads to the next one, to another poll or to the    *)
(* return.                                                                 *)
LEMMA SucceededType ==
    ASSUME TypeOK, call' = call, NEW d \in Word, Succeeded(d)
    PROVE  ControlOK'
  <1>1. Len(Accesses(call)) \in {1, 4}
    BY AccessesType DEF TypeOK
  <1> QED
    BY <1>1 DEF TypeOK, ControlOK, Succeeded, Statuses

(* The auto-increment of TAR stays within the words.                       *)
LEMMA NextWord == \A w \in Word : (w + 1) % NumWords \in Word
  BY DEF Word

(* An accepted AP write leaves the registers of the target words.          *)
LEMMA ApWriteType ==
    ASSUME TypeOK, NEW r, NEW d \in Word, TargetApWrite(r, d)
    PROVE  TargetOK'
  <1>1. /\ UNCHANGED <<live, sel, rdbuff>>
        /\ live \in BOOLEAN /\ sel \in Banks /\ rdbuff \in Word
        /\ csw \in Word /\ tar \in Word /\ sticky \in BOOLEAN /\ mem \in [Word -> Word]
    BY DEF TypeOK, TargetApWrite
  <1>2. csw' \in {csw, d} /\ sticky' \in {sticky, TRUE}
    BY DEF TargetApWrite
  <1>3. tar' \in {tar, d, (tar + 1) % NumWords} \/ tar' \in Word
    BY DEF TargetApWrite
  <1>4. mem' = [mem EXCEPT ![tar] = d] \/ mem' = mem \/ mem' \in [Word -> Word]
    BY DEF TargetApWrite
  <1>5. csw' \in Word /\ sticky' \in BOOLEAN
    BY <1>1, <1>2
  <1>6. tar' \in Word
    BY <1>1, <1>3, NextWord
  <1>7. mem' \in [Word -> Word]
    BY <1>1, <1>4
  <1> QED
    BY <1>1, <1>5, <1>6, <1>7 DEF TargetOK

(* An accepted DP write leaves a bank selected.                            *)
LEMMA DpWriteType ==
    ASSUME TypeOK, NEW r, NEW b \in Banks, TargetDpWrite(r, b)
    PROVE  TargetOK'
  BY DEF TypeOK, TargetOK, TargetDpWrite

(* A word the target discards changes no register.                         *)
LEMMA DiscardsType ==
    ASSUME TypeOK, Discards
    PROVE  TargetOK'
  BY DEF TypeOK, TargetOK, Discards

(* An executed AP read leaves the registers of the target words.           *)
LEMMA ApReadType ==
    ASSUME TypeOK, NEW r, TargetApRead(r)
    PROVE  TargetOK'
  BY NextWord DEF TypeOK, TargetOK, TargetApRead

(* The types of the target do not depend on the driver.                    *)
LEMMA TargetUnchanged ==
    ASSUME TypeOK, UNCHANGED targetVars
    PROVE  TargetOK'
  BY DEF TypeOK, TargetOK, targetVars

-----------------------------------------------------------------------------
(* Every call in progress is one the host may make.                        *)
TypeInv == TypeOK /\ call \in HostCalls \cup {NoCall}

(* What each phase says of the call in progress.  While one connects, no   *)
(* port is cached.                                                         *)
PhaseOK ==
    /\ phase = "dp" => call.kind \in {"readDP", "writeDP"} /\ step = 1
    /\ phase \in {"select", "access", "rdbuff"} => call.kind \in MemKinds \cup ApKinds
    /\ phase = "connect" => call.kind = "connect"
    /\ call.kind = "connect" /\ phase # "idle" => m_APcache = NoBank

Inv == TypeInv /\ CacheCoherent /\ PhaseOK

(* No host command writes SELECT behind the driver's back.                 *)
HostNeverSelects == \A c \in HostCalls : c.kind = "writeDP" => c.reg # SELECT

(* The driver starts without a cached access port and outside any call.    *)
LEMMA InvInit == Init => Inv
  <1> SUFFICES ASSUME Init PROVE Inv
    OBVIOUS
  <1>1. Accesses(NoCall) = << Read(MemBank, 0) >>
    BY DEF Accesses, NoCall
  <1>2. ControlOK
    BY <1>1 DEF Init, ControlOK, Statuses, Word
  <1>3. TargetOK
    BY ConstantsType DEF Init, TargetOK
  <1>4. result \in [status : Statuses, data : Word]
    BY DEF Init, Statuses, Word
  <1>5. /\ m_APcache \in Banks \cup {NoBank} /\ call = NoCall /\ trusted \in BOOLEAN
        /\ CacheCoherent
    BY DEF Init, CacheCoherent
  <1>6. PhaseOK
    BY DEF Init, PhaseOK
  <1> QED
    BY <1>2, <1>3, <1>4, <1>5, <1>6, TypeSplit, NoCallType DEF Inv, TypeInv

(* Every transaction, return and loss of power keeps the types.            *)
LEMMA TypeStep == TypeInv /\ [Next]_vars => TypeInv'
  <1> SUFFICES ASSUME TypeInv, [Next]_vars
               PROVE  TypeOK' /\ call' \in HostCalls \cup {NoCall}
    BY DEF TypeInv
  <1>t. /\ TypeOK /\ call \in HostCalls \cup {NoCall} /\ call \in Call
        /\ m_APcache \in Banks \cup {NoBank}
        /\ result \in [status : Statuses, data : Word] /\ trusted \in BOOLEAN
        /\ ControlOK /\ TargetOK
    BY TypeSplit DEF TypeInv
  <1>s. TypeOK' <=> /\ m_APcache' \in Banks \cup {NoBank} /\ call' \in Call
                    /\ result' \in [status : Statuses, data : Word] /\ trusted' \in BOOLEAN
                    /\ ControlOK' /\ TargetOK'
    BY DEF TypeOK, ControlOK, TargetOK
  <1>a. /\ access.bank \in Banks /\ access.data \in Word
    BY <1>t, AccessType DEF Access
  <1>w. data \in Word /\ rdbuff \in Word /\ mem \in [Word -> Word]
    BY <1>t DEF TypeOK
  <1>1. ASSUME NEW c \in HostCalls, Begin(c)
        PROVE  TypeOK' /\ call' \in HostCalls \cup {NoCall}
    <2>1. c \in Call /\ Len(Accesses(c)) \in {1, 4}
      BY AccessesType
    <2>2. ControlOK'
      <3>1. phase' \in {"select", "connect", "dp"}
        BY <1>1 DEF Begin
      <3>2. /\ call' = c /\ step' = 1 /\ retries' = 0 /\ polls' = 0
            /\ status' = status /\ data' = data
        BY <1>1 DEF Begin
      <3>3. 1 \in 1 .. Len(Accesses(c)) /\ 0 \in 0 .. MaxRetries - 1 /\ 0 \in 0 .. MaxRetries
        BY <2>1
      <3> QED
        BY <1>t, <3>1, <3>2, <3>3 DEF ControlOK
    <2>3. TargetOK'
      BY <1>1, <1>t, TargetUnchanged DEF Begin
    <2>4. /\ m_APcache' \in Banks \cup {NoBank} /\ call' = c
          /\ UNCHANGED <<result, trusted>>
      BY <1>1, <1>t DEF Begin
    <2> QED
      BY <1>t, <2>1, <2>2, <2>3, <2>4, <1>s
  <1>2. CASE Connect
    <2>1. UNCHANGED <<call, m_APcache, result, trusted>>
      BY <1>2 DEF Connect
    <2>2. ControlOK'
      BY <1>2, <1>t, <2>1, SucceededType, LeaveType DEF Connect, Statuses
    <2>3. TargetOK'
      BY <1>2, <1>t DEF Connect, TargetOK
    <2> QED
      BY <1>t, <2>1, <2>2, <2>3, <1>s
  <1>3. CASE SelectCached
    <2>1. UNCHANGED <<call, m_APcache, result, trusted>>
      BY <1>3 DEF SelectCached
    <2>2. ControlOK'
      BY <1>3, <1>t, <2>1, GoToType DEF SelectCached
    <2>3. TargetOK'
      BY <1>3, <1>t, TargetUnchanged DEF SelectCached
    <2> QED
      BY <1>t, <2>1, <2>2, <2>3, <1>s
  <1>4. CASE SelectWrite
    <2>1. UNCHANGED <<call, result, trusted>> /\ m_APcache' \in Banks \cup {NoBank}
      BY <1>4, <1>t, <1>a DEF SelectWrite
    <2>2. ControlOK'
      BY <1>4, <1>t, <2>1, GoToType, RefusedType DEF SelectWrite
    <2>3. TargetOK'
      BY <1>4, <1>t, <1>a, DpWriteType, DiscardsType, TargetUnchanged, ConstantsType
      DEF SelectWrite
    <2> QED
      BY <1>t, <2>1, <2>2, <2>3, <1>s
  <1>5. CASE ApWrite
    <2>1. UNCHANGED <<call, m_APcache, result, trusted>>
      BY <1>5 DEF ApWrite
    <2>2. ControlOK'
      BY <1>5, <1>t, <1>w, <2>1, SucceededType, RefusedType DEF ApWrite
    <2>3. TargetOK'
      BY <1>5, <1>t, <1>a, ApWriteType, DiscardsType, TargetUnchanged, ConstantsType
      DEF ApWrite
    <2> QED
      BY <1>t, <2>1, <2>2, <2>3, <1>s
  <1>6. CASE ApRead
    <2>1. UNCHANGED <<call, m_APcache, result, trusted>>
      BY <1>6 DEF ApRead
    <2>2. ControlOK'
      BY <1>6, <1>t, <2>1, GoToType, RefusedType DEF ApRead
    <2>3. TargetOK'
      BY <1>6, <1>t, ApReadType, TargetUnchanged DEF ApRead
    <2> QED
      BY <1>t, <2>1, <2>2, <2>3, <1>s
  <1>7. CASE ReadRdBuff
    <2>1. UNCHANGED <<call, m_APcache, result, trusted>>
      BY <1>7 DEF ReadRdBuff
    <2>2. ControlOK'
      BY <1>7, <1>t, <1>w, <2>1, SucceededType, RefusedType DEF ReadRdBuff
    <2>3. TargetOK'
      BY <1>7, <1>t, TargetUnchanged DEF ReadRdBuff
    <2> QED
      BY <1>t, <2>1, <2>2, <2>3, <1>s
  <1>8. CASE DpRead
    <2>1. UNCHANGED <<call, m_APcache, result, trusted>>
      BY <1>8 DEF DpRead
    <2>2. ControlOK'
      BY <1>8, <1>t, <2>1, SucceededType, RefusedType DEF DpRead
    <2>3. TargetOK'
      BY <1>8, <1>t, TargetUnchanged DEF DpRead
    <2> QED
      BY <1>t, <2>1, <2>2, <2>3, <1>s
  <1>9. CASE DpWrite
    <2>1. UNCHANGED <<call, m_APcache, result, trusted>>
      BY <1>9 DEF DpWrite
    <2>2. ControlOK'
      BY <1>9, <1>t, <1>w, <2>1, SucceededType, RefusedType DEF DpWrite
    <2>3. TargetOK'
      BY <1>9, <1>t, <1>a, DpWriteType, DiscardsType, TargetUnchanged, ConstantsType
      DEF DpWrite
    <2> QED
      BY <1>t, <2>1, <2>2, <2>3, <1>s
  <1>10. CASE Return
    <2>1. /\ call' = NoCall /\ m_APcache' = m_APcache
          /\ result' \in [status : Statuses, data : Word] /\ trusted' \in BOOLEAN
      BY <1>10, <1>t DEF Return, ControlOK
    <2>2. Accesses(NoCall) = << Read(MemBank, 0) >>
      BY DEF Accesses, NoCall
    <2>3. ControlOK'
      BY <1>10, <2>1, <2>2 DEF Return, ControlOK, Statuses, Word
    <2>4. TargetOK'
      BY <1>10, <1>t, TargetUnchanged DEF Return
    <2> QED
      BY <1>t, <2>1, <2>3, <2>4, <1>s, NoCallType
  <1>11. CASE PowerLoss
    <2>1. UNCHANGED <<call, m_APcache, result, trusted>>
      BY <1>11 DEF PowerLoss
    <2>2. ControlOK'
      BY <1>11, <1>t DEF PowerLoss, ControlOK
    <2>3. TargetOK'
      BY <1>11, <1>t, ConstantsType DEF PowerLoss, TargetOK
    <2> QED
      BY <1>t, <2>1, <2>2, <2>3, <1>s
  <1>12. CASE UNCHANGED vars
    BY <1>12, <1>t DEF vars, TypeOK
  <1> QED
    BY <1>1, <1>2, <1>3, <1>4, <1>5, <1>6, <1>7, <1>8, <1>9, <1>10, <1>11, <1>12
    DEF Next, Driver

(* A refused access is retried as it is or ends the call without OK; it is *)
(* not retried when its ack was none at all.                               *)
LEMMA RefusedWhere ==
    ASSUME NEW ack, Refused(ack)
    PROVE  /\ step' = step /\ data' = data
           /\ \/ phase' = phase /\ status' = status /\ ack = "WAIT"
              \/ phase' = "return" /\ status' \in {"TIMEOUT", "SWDFAULT"}
  BY DEF Refused, Leave

(* Within a call trust is only lost, and it is when the call fails.        *)
LEMMA TrustStep ==
    ASSUME UNCHANGED trusted
    PROVE  /\ Trusted' /\ phase # "return" => Trusted
           /\ phase' = "return" /\ status' # "OK" => ~Trusted'
  BY DEF Trusted

(* While trusted, an access that the target accepts goes to a bank that    *)
(* the cache knows.                                                        *)
LEMMA CacheWhenAccepted ==
    ASSUME CacheCoherent, Trusted, live, m_APcache # NoBank,
           ~sticky \/ phase # "access"
    PROVE  sel = m_APcache
  BY DEF CacheCoherent

(* Only the writes, PowerLoss and Connect touch what the cache is compared *)
(* with; a write that reaches SELECT under another name fails its call.    *)
LEMMA CacheStep ==
    ASSUME HostNeverSelects
    PROVE  Inv /\ [Next]_vars => CacheCoherent'
  <1> SUFFICES ASSUME Inv, [Next]_vars PROVE CacheCoherent'
    OBVIOUS
  <1>t. /\ TypeOK /\ CacheCoherent /\ PhaseOK
        /\ call \in HostCalls \cup {NoCall} /\ call \in Call
    BY DEF Inv, TypeInv, TypeOK
  <1>r. ASSUME UNCHANGED <<trusted, m_APcache>>, UNCHANGED targetVars,
               NEW ack, Refused(ack), phase # "return"
        PROVE  CacheCoherent'
    <2>1. \/ phase' = phase
          \/ phase' = "return" /\ status' # "OK"
      BY <1>r, RefusedWhere
    <2> QED
      BY <1>t, <1>r, <2>1, TrustStep DEF CacheCoherent, targetVars
  <1>f. ASSUME UNCHANGED trusted, NEW ack, Refused(ack), ack # "WAIT"
        PROVE  CacheCoherent'
    <2>1. phase' = "return" /\ status' # "OK"
      BY <1>f, RefusedWhere
    <2> QED
      BY <1>f, <2>1, TrustStep DEF CacheCoherent
  <1>k. ASSUME UNCHANGED <<trusted, m_APcache, live, sel>>, phase # "return",
               ~sticky \/ phase # "access"
        PROVE  CacheCoherent'
    BY <1>t, <1>k, TrustStep, CacheWhenAccepted DEF CacheCoherent
  <1>1. ASSUME NEW c \in HostCalls, Begin(c) PROVE CacheCoherent'
    BY <1>1, <1>t DEF Begin, CacheCoherent, Trusted, targetVars
  <1>2. CASE Connect
    BY <1>2, <1>t DEF Connect, CacheCoherent, PhaseOK
  <1>3. CASE SelectCached
    BY <1>3, <1>k DEF SelectCached, targetVars
  <1>4. CASE SelectWrite
    <2>1. PICK ack \in Acks :
            \/ /\ ack = "OK" /\ m_APcache' = access.bank /\ GoTo("access")
               /\ TargetDpWrite(SELECT, access.bank) \/ Discards
            \/ /\ ack # "OK" /\ Refused(ack) /\ UNCHANGED m_APcache
               /\ UNCHANGED targetVars \/ TakesOnes(ack, FALSE)
      BY <1>4 DEF SelectWrite
    <2>2. CASE ack = "OK"
      BY <2>1, <2>2 DEF GoTo, TargetDpWrite, Discards, CacheCoherent
    <2>3. CASE ack # "OK"
      <3>1. phase # "return" /\ UNCHANGED trusted
        BY <1>4 DEF SelectWrite
      <3> QED
        BY <2>1, <2>3, <3>1, <1>r, <1>f DEF TakesOnes
    <2> QED
      BY <2>2, <2>3
  <1>5. CASE ApWrite
    <2>0. phase = "access" /\ UNCHANGED <<trusted, m_APcache>>
      BY <1>5 DEF ApWrite
    <2>1. PICK ack \in Acks :
            /\ CanAck(ack, FALSE)
            /\ \/ ack = "OK" /\ (TargetApWrite(access.reg, access.data) \/ Discards)
               \/ /\ ack # "OK" /\ Refused(ack)
                  /\ UNCHANGED targetVars \/ TakesOnes(ack, FALSE)
      BY <1>5 DEF ApWrite
    <2>2. CASE ack = "OK"
      <3>1. ~sticky /\ UNCHANGED <<live, sel>>
        BY <2>1, <2>2 DEF CanAck, TargetApWrite, Discards
      <3> QED
        BY <2>0, <3>1, <1>k
    <2>3. CASE ack # "OK"
      BY <2>0, <2>1, <2>3, <1>r, <1>f DEF TakesOnes
    <2> QED
      BY <2>2, <2>3
  <1>6. CASE ApRead
    <2>0. phase = "access" /\ UNCHANGED <<trusted, m_APcache>>
      BY <1>6 DEF ApRead
    <2>1. PICK ack \in Acks :
            /\ CanAck(ack, FALSE)
            /\ \/ ack = "OK" /\ TargetApRead(access.reg)
               \/ ack # "OK" /\ Refused(ack) /\ UNCHANGED targetVars
               \/ ack \in {"FAIL", "NONE"} /\ Refused(ack)
      BY <1>6 DEF ApRead
    <2>2. CASE ack = "OK"
      <3>1. ~sticky /\ UNCHANGED <<live, sel>>
        BY <2>1, <2>2 DEF CanAck, TargetApRead
      <3> QED
        BY <2>0, <3>1, <1>k
    <2>3. CASE ack # "OK"
      BY <2>0, <2>1, <2>3, <1>r, <1>f
    <2> QED
      BY <2>2, <2>3
  <1>7. CASE ReadRdBuff
    BY <1>7, <1>k DEF ReadRdBuff, targetVars
  <1>8. CASE DpRead
    BY <1>8, <1>k DEF DpRead, targetVars
  <1>9. CASE DpWrite
    (* the access is that of a WRITEDP call, which does not name SELECT      *)
    <2>1. call.kind \in {"readDP", "writeDP"} /\ step = 1 /\ access.dir = "write"
      BY <1>9, <1>t DEF PhaseOK, DpWrite
    <2>2. call.kind = "writeDP" /\ access.reg = call.reg
      <3>1. CASE call.kind = "readDP"
        <4>1. access = Read(call.bank, call.reg)
          BY <2>1, <3>1 DEF access, Accesses
        <4> QED
          BY <2>1, <4>1 DEF Read
      <3>2. CASE call.kind = "writeDP"
        <4>1. access = Write(call.bank, call.reg, call.data)
          BY <2>1, <3>2 DEF access, Accesses
        <4> QED
          BY <3>2, <4>1 DEF Write
      <3> QED
        BY <2>1, <3>1, <3>2
    <2>3. call.reg # SELECT
      BY <1>t, <2>2, HostNeverSelects DEF HostNeverSelects, NoCall
    <2>4. UNCHANGED <<sel, live>>
      BY <1>9, <2>2, <2>3 DEF DpWrite, TargetDpWrite, Discards, targetVars
    <2> QED
      BY <1>9, <2>4, <1>k DEF DpWrite
  <1>10. CASE Return
    BY <1>10, <1>t DEF Return, CacheCoherent, Trusted, PhaseOK, targetVars
  <1>11. CASE PowerLoss
    BY <1>11, <1>t DEF PowerLoss, CacheCoherent
  <1>12. CASE UNCHANGED vars
    BY <1>12, <1>t DEF vars, CacheCoherent, Trusted
  <1> QED
    BY <1>1, <1>2, <1>3, <1>4, <1>5, <1>6, <1>7, <1>8, <1>9, <1>10, <1>11, <1>12
    DEF Next, Driver

(* A call starts its DP transaction or its line reset first, and leaves    *)
(* that phase when it succeeds or gives up.                                *)
LEMMA PhaseStep == Inv /\ [Next]_vars => PhaseOK'
  <1> SUFFICES ASSUME Inv, [Next]_vars PROVE PhaseOK'
    OBVIOUS
  <1>t. TypeOK /\ PhaseOK
    BY DEF Inv, TypeInv
  <1>1. ASSUME NEW c \in HostCalls, Begin(c) PROVE PhaseOK'
    <2>1. c.kind \in MemKinds \cup ApKinds \cup DpKinds
      BY DEF Call
    <2> QED
      BY <1>1, <2>1 DEF Begin, PhaseOK, MemKinds, ApKinds, DpKinds
  <1>2. ASSUME NEW d, Succeeded(d) PROVE phase' \in {"return", "select"}
    BY <1>2 DEF Succeeded
  <1>3. ASSUME NEW ack, Refused(ack) PROVE phase' = "return" \/ (phase' = phase /\ step' = step)
    BY <1>3, RefusedWhere
  <1>4. CASE Connect
    <2>1. call.kind = "connect" /\ m_APcache = NoBank
      BY <1>4, <1>t DEF Connect, PhaseOK
    <2>2. call.kind \notin MemKinds
      BY <2>1 DEF MemKinds
    <2>3. step = 1 /\ Len(Accesses(call)) = 1
      <3>1. Len(Accesses(call)) = 1
        BY <1>t, <2>2, AccessesType DEF TypeOK
      <3> QED
        BY <1>t, <3>1 DEF TypeOK
    <2>4. phase' = "return"
      <3>1. ASSUME NEW d, Succeeded(d) PROVE phase' = "return"
        BY <2>2, <2>3, <3>1 DEF Succeeded, InWaitForMemory
      <3> QED
        BY <1>4, <3>1 DEF Connect, Leave
    <2> QED
      BY <1>4, <2>1, <2>4 DEF Connect, PhaseOK
  <1>5. CASE SelectCached \/ SelectWrite \/ ApWrite \/ ApRead \/ ReadRdBuff
    <2>1. phase \in {"select", "access", "rdbuff"} /\ call' = call
      BY <1>5 DEF SelectCached, SelectWrite, ApWrite, ApRead, ReadRdBuff
    <2>2. phase' \notin {"dp", "connect"}
      BY <1>5, <2>1, <1>2, <1>3
      DEF SelectCached, SelectWrite, ApWrite, ApRead, ReadRdBuff, GoTo
    <2>3. call.kind \in MemKinds \cup ApKinds /\ call.kind # "connect"
      BY <1>t, <2>1 DEF PhaseOK, MemKinds, ApKinds
    <2> QED
      BY <2>1, <2>2, <2>3 DEF PhaseOK
  <1>6. CASE DpRead \/ DpWrite
    <2>1. /\ phase = "dp" /\ step = 1 /\ call' = call
          /\ call.kind \in {"readDP", "writeDP"}
      BY <1>6, <1>t DEF DpRead, DpWrite, PhaseOK
    <2>2. call.kind \notin MemKinds
      BY <2>1 DEF MemKinds
    <2>3. Len(Accesses(call)) = 1
      BY <1>t, <2>2, AccessesType DEF TypeOK
    <2>4. ASSUME NEW d, Succeeded(d) PROVE phase' = "return"
      BY <2>1, <2>2, <2>3, <2>4 DEF Succeeded, InWaitForMemory
    <2>5. phase' = "return" \/ (phase' = "dp" /\ step' = step)
      BY <1>6, <1>3, <2>1, <2>4 DEF DpRead, DpWrite
    <2> QED
      BY <2>1, <2>5 DEF PhaseOK
  <1>8. CASE Return
    BY <1>8 DEF Return, PhaseOK
  <1>9. CASE PowerLoss
    BY <1>9, <1>t DEF PowerLoss, PhaseOK
  <1>10. CASE UNCHANGED vars
    BY <1>10, <1>t DEF vars, PhaseOK
  <1> QED
    BY <1>1, <1>4, <1>5, <1>6, <1>8, <1>9, <1>10 DEF Next, Driver

-----------------------------------------------------------------------------
(* The driver's variables keep their types for any host and any target.    *)
THEOREM SwdPortTypeOK == Spec => []TypeOK
  <1>1. Init => TypeInv
    BY InvInit DEF Inv
  <1>2. TypeInv => TypeOK
    BY DEF TypeInv
  <1> QED
    BY <1>1, <1>2, TypeStep, PTL DEF Spec

(* Until a call fails, m_APcache is what the target holds in SELECT        *)
(* wherever selectAP relies on it: through WAITs, SELECT writes damaged on *)
(* the wire, bus errors and power losses, and afresh after every connect,  *)
(* provided no WRITEDP names SELECT.                                       *)
THEOREM CacheIsCoherent ==
    ASSUME HostNeverSelects
    PROVE  Spec => []CacheCoherent
  <1>1. Inv /\ [Next]_vars => Inv'
    BY TypeStep, CacheStep, PhaseStep DEF Inv
  <1>2. Inv => CacheCoherent
    BY DEF Inv
  <1> QED
    BY <1>1, <1>2, InvInit, PTL DEF Spec

-----------------------------------------------------------------------------
(* What the code relies on between the accesses of a call that has not     *)
(* failed: the port an access goes to has been selected, and, as long as   *)
(* the target has power and has noted no error, what earlier accesses of a *)
(* memory call configured is still there and what the last one fetched is  *)
(* the word asked for.                                                     *)
Selected == phase = "access" => m_APcache = access.bank

Phases == phase = "rdbuff" => access.dir = "read"

Configured ==
    call.kind \in MemKinds /\ step > 1 /\ live /\ Trusted => sticky \/ csw = CswConfig

Addressed ==
    call.kind \in MemKinds /\ step = 4 /\ live /\ phase \in {"select", "access"} /\ Trusted
        => sticky \/ tar = call.addr

Fetched ==
    call.kind = "readMemory" /\ step = 4 /\ Trusted =>
        /\ phase = "rdbuff" /\ live => sticky \/ rdbuff = mem[call.addr]
        /\ phase = "return" => data = mem[call.addr]

Driven == Selected /\ Phases /\ Configured /\ Addressed /\ Fetched

(* A memory call that returns OK has made its last access.                 *)
Complete == call.kind \in MemKinds /\ phase = "return" /\ status = "OK" => step = 4

RefInv == Inv /\ Driven /\ Complete

-----------------------------------------------------------------------------
(* The four accesses of a memory call.                                     *)
LEMMA MemAccess ==
    ASSUME TypeOK, call.kind \in MemKinds
    PROVE  /\ step \in 1 .. 4 /\ Len(Accesses(call)) = 4
           /\ access.bank = MemBank
           /\ step = 1 => access.dir = "write" /\ access.reg = CSW /\ access.data = CswConfig
           /\ step = 2 => access.dir = "read" /\ access.reg = CSW
           /\ step = 3 => access.dir = "write" /\ access.reg = TAR /\ access.data = call.addr
           /\ step = 4 /\ call.kind = "readMemory" => access.dir = "read" /\ access.reg = DRW
           /\ step = 4 /\ call.kind = "writeMemory" =>
                  access.dir = "write" /\ access.reg = DRW /\ access.data = call.data
  <1>1. CASE call.kind = "readMemory"
    <2>1. Accesses(call) = << Write(MemBank, CSW, CswConfig), Read(MemBank, CSW),
                              Write(MemBank, TAR, call.addr), Read(MemBank, DRW) >>
      BY <1>1 DEF Accesses
    <2>2. step \in 1 .. 4 /\ Len(Accesses(call)) = 4
      BY <2>1 DEF TypeOK
    <2> QED
      BY <1>1, <2>1, <2>2 DEF access, Write, Read
  <1>2. CASE call.kind = "writeMemory"
    <2>1. Accesses(call) = << Write(MemBank, CSW, CswConfig), Read(MemBank, CSW),
                              Write(MemBank, TAR, call.addr),
                              Write(MemBank, DRW, call.data) >>
      BY <1>2 DEF Accesses
    <2>2. step \in 1 .. 4 /\ Len(Accesses(call)) = 4
      BY <2>1 DEF TypeOK
    <2> QED
      BY <1>2, <2>1, <2>2 DEF access, Write, Read
  <1> QED
    BY <1>1, <1>2 DEF MemKinds

(* Every other call is a single access.                                    *)
LEMMA OtherAccess ==
    ASSUME TypeOK, call.kind \notin MemKinds
    PROVE  /\ step = 1 /\ Len(Accesses(call)) = 1
           /\ (access.dir = "write") <=> (call.kind \in {"writeAP", "writeDP"})
  <1>0. call.kind \in ApKinds \cup DpKinds
    BY DEF TypeOK, Call
  <1>1. CASE call.kind \in {"writeAP", "writeDP"}
    <2>1. Accesses(call) = << Write(call.bank, call.reg, call.data) >>
      BY <1>1 DEF Accesses
    <2>2. step = 1 /\ Len(Accesses(call)) = 1
      BY <2>1 DEF TypeOK
    <2> QED
      BY <1>1, <2>1, <2>2 DEF access, Write
  <1>2. CASE call.kind \in {"readAP", "readDP", "connect"}
    <2>1. Accesses(call) = << Read(call.bank, call.reg) >>
      BY <1>2 DEF Accesses
    <2>2. step = 1 /\ Len(Accesses(call)) = 1
      BY <2>1 DEF TypeOK
    <2> QED
      BY <1>2, <2>1, <2>2 DEF access, Read
  <1> QED
    BY <1>0, <1>1, <1>2 DEF ApKinds, DpKinds

(* Where a successful access may lead: only from the last access to OK,    *)
(* and only from the poll of waitForMemory back to the same access.        *)
LEMMA SucceededWhere ==
    ASSUME NEW d, Succeeded(d)
    PROVE  /\ data' = d
           /\ \/ phase' = "return" /\ step' = step
              \/ phase' = "select" /\ step' = step + 1 /\ step < Len(Accesses(call))
              \/ phase' = "select" /\ step' = step /\ InWaitForMemory
           /\ phase' = "return" /\ status' = "OK" => step = Len(Accesses(call))
  BY DEF Succeeded

-----------------------------------------------------------------------------
(* A call that fails leaves nothing to rely on.                            *)
LEMMA DrivenFailed ==
    ASSUME UNCHANGED trusted, phase' = "return", status' # "OK"
    PROVE  Driven' /\ Complete'
  BY TrustStep DEF Driven, Complete, Selected, Phases, Configured, Addressed, Fetched

(* A refused access leaves the target as it was, or the call fails.        *)
LEMMA DrivenRefused ==
    ASSUME RefInv, phase # "return", UNCHANGED <<trusted, call, m_APcache>>,
           NEW ack, Refused(ack), UNCHANGED targetVars \/ ack # "WAIT"
    PROVE  Driven' /\ Complete'
  <1>1. CASE phase' = "return" /\ status' # "OK"
    BY <1>1, DrivenFailed
  <1>2. CASE phase' = phase /\ UNCHANGED targetVars
    <2>1. step' = step /\ access' = access
      BY RefusedWhere DEF access
    <2>2. Trusted' => Trusted
      BY TrustStep
    <2> QED
      BY <1>2, <2>1, <2>2
      DEF RefInv, Driven, Complete, Selected, Phases, Configured, Addressed, Fetched, targetVars
  <1> QED
    BY <1>1, <1>2, RefusedWhere

(* A call begins with nothing configured, addressed or fetched.            *)
LEMMA DrivenBegin ==
    ASSUME RefInv, NEW c \in HostCalls, Begin(c)
    PROVE  Driven' /\ Complete'
  <1>1. step' = 1 /\ call' = c /\ phase' \in {"select", "connect", "dp"}
    BY DEF Begin
  <1> QED
    BY <1>1 DEF Driven, Complete, Selected, Phases, Configured, Addressed, Fetched

(* Selecting a port keeps what the target holds, or damages it and fails,  *)
(* and ends with the cache naming the port.                                *)
LEMMA DrivenSelect ==
    ASSUME RefInv, SelectCached \/ SelectWrite
    PROVE  Driven' /\ Complete'
  <1>t. /\ TypeOK /\ Driven /\ Complete /\ phase = "select"
        /\ UNCHANGED <<call, trusted>>
    BY DEF RefInv, Inv, TypeInv, SelectCached, SelectWrite
  <1>g. ASSUME GoTo("access"), m_APcache' = access.bank, sticky' \/ UNCHANGED sticky,
               UNCHANGED <<live, csw, tar, rdbuff, mem>>
        PROVE  Driven' /\ Complete'
    <2>1. phase' = "access" /\ step' = step /\ access' = access
      BY <1>t, <1>g DEF GoTo, access
    <2>2. Trusted' => Trusted
      BY <1>t, TrustStep
    <2> QED
      BY <1>t, <1>g, <2>1, <2>2
      DEF Driven, Complete, Selected, Phases, Configured, Addressed, Fetched
  <1>1. CASE SelectCached
    BY <1>1, <1>g DEF SelectCached, targetVars
  <1>2. CASE SelectWrite
    <2>1. PICK ack \in Acks :
            \/ /\ ack = "OK" /\ m_APcache' = access.bank /\ GoTo("access")
               /\ TargetDpWrite(SELECT, access.bank) \/ Discards
            \/ /\ ack # "OK" /\ Refused(ack) /\ UNCHANGED m_APcache
               /\ UNCHANGED targetVars \/ TakesOnes(ack, FALSE)
      BY <1>2 DEF SelectWrite
    <2>2. CASE ack = "OK"
      <3>1. /\ sticky' \/ UNCHANGED sticky
            /\ UNCHANGED <<live, csw, tar, rdbuff, mem>>
        BY <2>1, <2>2 DEF TargetDpWrite, Discards, SELECT, ABORT
      <3> QED
        BY <2>1, <2>2, <3>1, <1>g
    <2>3. CASE ack # "OK"
      BY <1>t, <2>1, <2>3, DrivenRefused DEF TakesOnes
    <2> QED
      BY <2>2, <2>3
  <1> QED
    BY <1>1, <1>2

(* An accepted AP write leaves the configuration or the address it was     *)
(* meant to leave, or an error.                                            *)
LEMMA DrivenApWrite ==
    ASSUME RefInv, ApWrite
    PROVE  Driven' /\ Complete'
  <1>t. TypeOK /\ Driven /\ Complete /\ phase = "access" /\ access.dir = "write"
    BY DEF RefInv, Inv, TypeInv, ApWrite
  <1>c. UNCHANGED <<call, m_APcache, trusted>> /\ (Trusted' => Trusted)
    BY <1>t, TrustStep DEF ApWrite
  <1>1. PICK ack \in Acks :
            /\ CanAck(ack, FALSE)
            /\ \/ /\ ack = "OK" /\ Succeeded(data)
                  /\ TargetApWrite(access.reg, access.data) \/ Discards
               \/ /\ ack # "OK" /\ Refused(ack)
                  /\ UNCHANGED targetVars \/ TakesOnes(ack, FALSE)
    BY DEF ApWrite
  <1>2. CASE ack = "OK"
    <2>1. /\ TargetApWrite(access.reg, access.data) \/ Discards
          /\ Succeeded(data) /\ live /\ ~sticky
      BY <1>1, <1>2, <1>t DEF CanAck, TypeOK
    <2>s. /\ \/ phase' = "return" /\ step' = step
             \/ phase' = "select" /\ step' = step + 1 /\ step < Len(Accesses(call))
             \/ phase' = "select" /\ step' = step /\ InWaitForMemory
          /\ phase' = "return" /\ status' = "OK" => step = Len(Accesses(call))
      BY <2>1, SucceededWhere
    <2>2. live' = live /\ phase' \in {"return", "select"}
      BY <2>1, <2>s DEF TargetApWrite, Discards
    <2>3. CASE call.kind \notin MemKinds
      <3>1. call'.kind \notin MemKinds
        BY <1>c, <2>3
      <3>2. "readMemory" \in MemKinds
        BY DEF MemKinds
      <3> QED
        BY <1>c, <1>t, <2>2, <3>1, <3>2
        DEF Driven, Complete, Selected, Phases, Configured, Addressed, Fetched
    <2>4. CASE call.kind \in MemKinds
      <3>m. /\ step \in 1 .. 4 /\ Len(Accesses(call)) = 4
            /\ access.bank = MemBank
            /\ step = 1 => access.reg = CSW /\ access.data = CswConfig
            /\ step = 2 => access.dir = "read"
            /\ step = 3 => access.reg = TAR /\ access.data = call.addr
            /\ step = 4 => call.kind = "writeMemory" /\ access.reg = DRW
        BY <1>t, <2>4, MemAccess DEF MemKinds
      <3>0. Complete' /\ Selected' /\ Phases' /\ Fetched'
        <4>1. phase' = "return" /\ status' = "OK" => step' = 4 /\ call.kind = "writeMemory"
          BY <2>s, <3>m
        <4> QED
          BY <1>c, <2>2, <4>1 DEF Complete, Selected, Phases, Fetched, Trusted
      <3>1. Trusted => sel = MemBank
        BY <1>t, <2>1, <2>4, <3>m, BanksAssumption
        DEF RefInv, Inv, CacheCoherent, Driven, Selected, TypeOK
      <3>d. CASE Discards
        BY <3>0, <3>d DEF Driven, Discards, Configured, Addressed
      <3>2. CASE step = 1 /\ TargetApWrite(access.reg, access.data)
        <4>1. Trusted => csw' = CswConfig
          BY <2>1, <3>m, <3>1, <3>2 DEF TargetApWrite, CSW, TAR, DRW
        <4>2. step' \in {1, 2}
          BY <2>s, <3>m, <3>2 DEF InWaitForMemory
        <4> QED
          BY <1>c, <3>0, <4>1, <4>2 DEF Driven, Configured, Addressed
      <3>3. CASE step = 3 /\ TargetApWrite(access.reg, access.data)
        <4>1. Trusted => csw' = CswConfig /\ tar' = call.addr
          <5>1. Trusted => csw = CswConfig
            BY <1>t, <2>1, <2>4, <3>3 DEF Driven, Configured
          <5> QED
            BY <2>1, <3>m, <3>1, <3>3, <5>1 DEF TargetApWrite, CSW, TAR, DRW
        <4> QED
          BY <1>c, <3>0, <4>1 DEF Driven, Configured, Addressed
      <3>4. CASE step = 4 /\ TargetApWrite(access.reg, access.data)
        <4>1. Trusted => csw = CswConfig
          BY <1>t, <2>1, <2>4, <3>4 DEF Driven, Configured
        <4>2. Trusted => csw' = CswConfig
          BY <2>1, <3>m, <3>1, <3>4, <4>1 DEF TargetApWrite, CSW, TAR, DRW
        <4>3. phase' = "return"
          BY <2>s, <3>m, <3>4 DEF InWaitForMemory
        <4> QED
          BY <1>c, <3>0, <4>2, <4>3 DEF Driven, Configured, Addressed
      <3> QED
        BY <1>t, <2>1, <3>m, <3>d, <3>2, <3>3, <3>4
    <2> QED
      BY <2>3, <2>4
  <1>3. CASE ack # "OK"
    BY <1>1, <1>3, <1>c, <1>t, DrivenRefused DEF TakesOnes
  <1> QED
    BY <1>2, <1>3

(* An executed AP read disturbs the configuration of the memory port no    *)
(* more than its address, and leaves the word it found in RDBUFF.          *)
LEMMA DrivenApRead ==
    ASSUME RefInv, ApRead
    PROVE  Driven' /\ Complete'
  <1>t. TypeOK /\ Driven /\ Complete /\ phase = "access" /\ access.dir = "read"
    BY DEF RefInv, Inv, TypeInv, ApRead
  <1>c. UNCHANGED <<call, m_APcache, trusted>> /\ (Trusted' => Trusted)
    BY <1>t, TrustStep DEF ApRead
  <1>1. PICK ack \in Acks :
            /\ CanAck(ack, FALSE)
            /\ \/ ack = "OK" /\ TargetApRead(access.reg) /\ GoTo("rdbuff")
               \/ /\ ack # "OK" /\ Refused(ack)
                  /\ UNCHANGED targetVars \/ ack # "WAIT"
    BY DEF ApRead
  <1>4. CASE ack = "OK"
    <2>1. /\ TargetApRead(access.reg) /\ phase' = "rdbuff" /\ live /\ ~sticky
          /\ step' = step /\ access' = access
          /\ live' = live /\ csw' = csw /\ mem' = mem
      BY <1>1, <1>4, <1>t, <1>c DEF CanAck, TypeOK, GoTo, access, TargetApRead
    <2>3. ASSUME call.kind = "readMemory", step = 4, Trusted
          PROVE  sticky' \/ rdbuff' = mem'[call.addr]
      <3>1. call.kind \in MemKinds
        BY <2>3 DEF MemKinds
      <3>2. access.reg = DRW /\ access.bank = MemBank
        BY <1>t, <2>3, <3>1, MemAccess
      <3>3. sel = MemBank
        BY <1>t, <2>1, <2>3, <3>2, BanksAssumption
        DEF RefInv, Inv, CacheCoherent, Driven, Selected
      <3>4. csw = CswConfig /\ tar = call.addr
        BY <1>t, <2>1, <2>3, <3>1 DEF Driven, Configured, Addressed
      <3> QED
        BY <2>1, <3>2, <3>3, <3>4 DEF TargetApRead
    <2> QED
      BY <1>c, <1>t, <2>1, <2>3
      DEF Driven, Complete, Selected, Phases, Configured, Addressed, Fetched
  <1>5. CASE ack # "OK"
    BY <1>1, <1>5, <1>c, <1>t, DrivenRefused
  <1> QED
    BY <1>4, <1>5

(* Reading RDBUFF ends a read of the memory with the word fetched.         *)
LEMMA DrivenReadRdBuff ==
    ASSUME RefInv, ReadRdBuff
    PROVE  Driven' /\ Complete'
  <1>t. /\ TypeOK /\ Driven /\ Complete /\ phase = "rdbuff" /\ access.dir = "read"
        /\ call.kind \in MemKinds \cup ApKinds
    BY DEF RefInv, Inv, TypeInv, ReadRdBuff, Driven, Phases, PhaseOK
  <1>c. /\ UNCHANGED <<call, m_APcache, trusted>> /\ UNCHANGED targetVars
        /\ Trusted' => Trusted
    BY <1>t, TrustStep DEF ReadRdBuff
  <1>1. PICK ack \in Acks :
            /\ CanAck(ack, FALSE)
            /\ \/ ack = "OK" /\ Succeeded(rdbuff)
               \/ ack # "OK" /\ Refused(ack)
    BY DEF ReadRdBuff
  <1>m. call.kind \in MemKinds =>
            step \in {2, 4} /\ Len(Accesses(call)) = 4 /\ (step = 4 => call.kind = "readMemory")
    BY <1>t, MemAccess DEF MemKinds
  <1>2. CASE ack = "OK"
    <2>1. /\ \/ phase' = "return" /\ step' = step
             \/ phase' = "select" /\ step' = step + 1 /\ step < Len(Accesses(call))
             \/ phase' = "select" /\ step' = step /\ InWaitForMemory
          /\ phase' = "return" /\ status' = "OK" => step = Len(Accesses(call))
          /\ data' = rdbuff /\ live /\ ~sticky
      BY <1>1, <1>2, <1>t, SucceededWhere DEF CanAck, TypeOK
    <2>2. call.kind \in MemKinds => step' \in {2, 3, 4} /\ (step' = 4 => step = 4 /\ phase' = "return")
      <3>1. ASSUME call.kind \in MemKinds, step = 2 PROVE step' \in {2, 3}
        BY <2>1, <3>1
      <3>2. ASSUME call.kind \in MemKinds, step = 4 PROVE step' = 4 /\ phase' = "return"
        <4>1. Len(Accesses(call)) = 4
          BY <1>m, <3>2
        <4>2. ~(step < Len(Accesses(call))) /\ ~InWaitForMemory
          BY <3>2, <4>1 DEF InWaitForMemory
        <4> QED
          BY <2>1, <3>2, <4>2
      <3> QED
        BY <1>m, <3>1, <3>2
    <2>3. call.kind = "readMemory" /\ step' = 4 /\ Trusted' => data' = mem[call.addr]
      BY <1>t, <1>c, <2>1, <2>2 DEF Driven, Fetched, MemKinds
    <2>4. call.kind \in MemKinds => step > 1
      BY <1>m
    <2>5. call.kind \in MemKinds /\ phase' = "return" /\ status' = "OK" => step' = 4
      BY <1>m, <2>1
    <2> QED
      BY <1>c, <1>t, <2>1, <2>2, <2>3, <2>4, <2>5
      DEF Driven, Complete, Selected, Phases, Configured, Addressed, Fetched, targetVars
  <1>3. CASE ack # "OK"
    BY <1>1, <1>3, <1>c, <1>t, DrivenRefused
  <1> QED
    BY <1>2, <1>3

(* Calls on the debug port and connections are no memory calls; a target   *)
(* without power holds nothing that Driven speaks of.                      *)
LEMMA DrivenElse ==
    ASSUME RefInv, Connect \/ DpRead \/ DpWrite \/ Return \/ PowerLoss \/ UNCHANGED vars
    PROVE  Driven' /\ Complete'
  <1>t. TypeOK /\ Driven /\ Complete /\ PhaseOK
    BY DEF RefInv, Inv, TypeInv
  <1>1. CASE Connect \/ DpRead \/ DpWrite
    <2>1. call' = call /\ call.kind \in DpKinds
      BY <1>t, <1>1 DEF Connect, DpRead, DpWrite, PhaseOK, DpKinds
    <2>2. call.kind \notin MemKinds /\ "readMemory" \in MemKinds
      BY <2>1 DEF DpKinds, MemKinds
    <2>3. step = 1 /\ Len(Accesses(call)) = 1 /\ ~InWaitForMemory
      BY <1>t, <2>2, OtherAccess DEF InWaitForMemory
    <2>4. phase' \in {"return", "dp"}
      <3>1. ASSUME NEW d, Succeeded(d) PROVE phase' = "return"
        BY <2>3, <3>1, SucceededWhere
      <3>2. ASSUME NEW ack, phase = "dp", Refused(ack) PROVE phase' \in {"return", "dp"}
        BY <3>2, RefusedWhere
      <3>3. CASE Connect
        BY <3>1, <3>3 DEF Connect, Leave
      <3>4. CASE DpRead
        BY <3>1, <3>2, <3>4 DEF DpRead
      <3>5. CASE DpWrite
        BY <3>1, <3>2, <3>5 DEF DpWrite
      <3> QED
        BY <1>1, <3>3, <3>4, <3>5
    <2> QED
      BY <2>1, <2>2, <2>4
      DEF Driven, Complete, Selected, Phases, Configured, Addressed, Fetched
  <1>2. CASE Return
    <2>1. call' = NoCall /\ phase' = "idle" /\ NoCall.kind \notin MemKinds
          /\ "readMemory" \in MemKinds
      BY <1>2 DEF Return, NoCall, MemKinds
    <2> QED
      BY <2>1 DEF Driven, Complete, Selected, Phases, Configured, Addressed, Fetched
  <1>3. CASE PowerLoss
    <2>1. /\ UNCHANGED <<m_APcache, call, trusted, phase, step, status, data, mem>>
          /\ live' = FALSE /\ access' = access /\ (Trusted' => Trusted)
      BY <1>3 DEF PowerLoss, access, Trusted
    <2> QED
      BY <1>t, <2>1
      DEF Driven, Complete, Selected, Phases, Configured, Addressed, Fetched
  <1>4. CASE UNCHANGED vars
    BY <1>t, <1>4
    DEF vars, access, Trusted, Driven, Complete, Selected, Phases, Configured, Addressed, Fetched
  <1> QED
    BY <1>1, <1>2, <1>3, <1>4

(* The strengthened invariant is inductive.                                *)
LEMMA RefInvInit == Init => RefInv
  <1> SUFFICES ASSUME Init PROVE RefInv
    OBVIOUS
  <1>1. call.kind = "connect" /\ phase = "idle"
    BY DEF Init, NoCall
  <1> QED
    BY <1>1, InvInit
    DEF RefInv, Driven, Complete, Selected, Phases, Configured, Addressed, Fetched, MemKinds

(* ... for a host that leaves SELECT to the driver.                        *)
LEMMA RefInvStep ==
    ASSUME HostNeverSelects
    PROVE  RefInv /\ [Next]_vars => RefInv'
  <1> SUFFICES ASSUME RefInv, [Next]_vars PROVE RefInv'
    OBVIOUS
  <1>1. Inv'
    BY TypeStep, CacheStep, PhaseStep DEF RefInv, Inv
  <1>2. Driven' /\ Complete'
    BY DrivenBegin, DrivenSelect, DrivenApWrite, DrivenApRead, DrivenReadRdBuff, DrivenElse
    DEF Next, Driver
  <1> QED
    BY <1>1, <1>2 DEF RefInv

-----------------------------------------------------------------------------
(* The step of a call that is not its return, in either direction.         *)
Transaction ==
    \/ Connect \/ SelectCached \/ SelectWrite \/ ApWrite
    \/ ApRead \/ ReadRdBuff \/ DpRead \/ DpWrite

Within ==
    /\ phase \notin {"idle", "return"} /\ phase' # "idle"
    /\ UNCHANGED <<call, result, trusted>>

(* A transaction begins and ends within a call.                            *)
LEMMA TransactionWithin == Transaction => Within
  <1> SUFFICES ASSUME Transaction PROVE Within
    OBVIOUS
  <1>1. /\ phase \in {"connect", "select", "access", "rdbuff", "dp"}
        /\ UNCHANGED <<call, result, trusted>>
    BY DEF Transaction, Connect, SelectCached, SelectWrite, ApWrite, ApRead, ReadRdBuff,
           DpRead, DpWrite
  <1>2. ASSUME NEW d, Succeeded(d) PROVE phase' # "idle"
    BY <1>2, SucceededWhere
  <1>3. ASSUME NEW ack, Refused(ack) PROVE phase' # "idle"
    BY <1>1, <1>3, RefusedWhere
  <1>4. phase' # "idle"
    BY <1>2, <1>3
    DEF Transaction, Connect, SelectCached, SelectWrite, ApWrite, ApRead, ReadRdBuff,
        DpRead, DpWrite, GoTo, Leave
  <1> QED
    BY <1>1, <1>4 DEF Within

(* The kinds of call MemoryPort knows.                                     *)
LEMMA KindType ==
    ASSUME TypeOK
    PROVE  /\ AbstractKind \in Abstract!Kinds
           /\ call.addr \in Word /\ call.data \in Word
           /\ [kind |-> AbstractKind, addr |-> call.addr, data |-> call.data] # NoBank
  <1>1. AbstractKind \in {"read", "write", "raw", "control", "connect"}
    BY DEF AbstractKind
  <1>2. call.addr \in Word /\ call.data \in Word
    BY DEF TypeOK, Call
  <1> QED
    BY <1>1, <1>2, IdleAssumption DEF Abstract!Kinds

(* What a step within a call keeps of MemoryPort's state.                  *)
LEMMA WithinAbstract ==
    ASSUME TypeOK, Within
    PROVE  /\ AbstractKind' = AbstractKind /\ AbstractOutcome = "none"
           /\ call.kind # "writeMemory" => AbstractOutcome' = "none"
           /\ call.kind = "writeMemory" /\ phase' # "return" => AbstractOutcome' = "none"
           /\ call.kind = "writeMemory" /\ phase' = "return" /\ status' = "OK"
                  => AbstractOutcome' = "taken"
           /\ call.kind = "writeMemory" /\ phase' = "return" /\ status' # "OK"
                  => AbstractOutcome' = "failed"
           /\ AbstractKind = "write" <=> call.kind = "writeMemory"
           /\ AbstractKind = "raw" <=> call.kind = "writeAP"
           /\ AbstractKind = "connect" <=> call.kind = "connect"
  BY DEF Within, AbstractKind, AbstractOutcome

(* The call in progress, as MemoryPort sees it.                            *)
LEMMA CallAbstract ==
    ASSUME TypeOK, Within
    PROVE  LET c == [kind |-> AbstractKind, addr |-> call.addr, data |-> call.data]
           IN  /\ (IF phase = "idle" THEN NoBank ELSE c) = c /\ c # NoBank
               /\ (IF phase = "idle" THEN NoBank
                   ELSE [kind |-> AbstractKind, addr |-> call.addr, data |-> call.data])' = c
  BY KindType, WithinAbstract DEF Within

(* After a failed call nothing is promised of the next ones.               *)
LEMMA StrayAbstract ==
    ASSUME TypeOK, TypeOK', Within, ~trusted
    PROVE  Abstract!Stray
  <1>1. mem' \in [Word -> Word] /\ sticky' \in BOOLEAN
    BY DEF TypeOK
  <1>2. AbstractOutcome' \in Abstract!Outcomes
    BY DEF AbstractOutcome, Abstract!Outcomes
  <1> QED
    BY <1>1, <1>2, CallAbstract DEF Within, Abstract!Stray

(* A step that changes neither memory nor error is none for MemoryPort,    *)
(* unless it is the one with which a write gives up.                       *)
LEMMA QuietAbstract ==
    ASSUME TypeOK, Within, UNCHANGED <<mem, sticky>>,
           call.kind = "writeMemory" /\ phase' = "return" => status' # "OK"
    PROVE  [Abstract!Fail]_(Abstract!memVars)
  <1>1. CASE call.kind = "writeMemory" /\ phase' = "return"
    <2>1. AbstractKind = "write" /\ AbstractOutcome = "none" /\ AbstractOutcome' = "failed"
      BY <1>1, WithinAbstract
    <2> QED
      BY <2>1, CallAbstract DEF Within, Abstract!Fail
  <1>2. CASE ~(call.kind = "writeMemory" /\ phase' = "return")
    <2>1. AbstractOutcome' = AbstractOutcome
      BY <1>2, WithinAbstract
    <2> QED
      BY <2>1, CallAbstract DEF Within, Abstract!memVars
  <1> QED
    BY <1>1, <1>2

(* An error may be noted in any call but a connect.                        *)
LEMMA FaultAbstract ==
    ASSUME TypeOK, Within, UNCHANGED mem, sticky' = TRUE, call.kind # "connect",
           call.kind = "writeMemory" /\ phase' = "return" => status' # "OK"
    PROVE  Abstract!Fail \/ Abstract!LatchFault \/ Abstract!RawAccess
  <1>1. CASE call.kind = "writeMemory" /\ phase' = "return"
    <2>1. AbstractKind = "write" /\ AbstractOutcome = "none" /\ AbstractOutcome' = "failed"
      BY <1>1, WithinAbstract
    <2> QED
      BY <2>1, CallAbstract DEF Within, Abstract!Fail
  <1>2. CASE call.kind = "writeAP"
    <2>1. /\ AbstractKind = "raw" /\ AbstractOutcome' = AbstractOutcome
          /\ mem \in [Word -> Word]
      BY <1>2, WithinAbstract DEF TypeOK
    <2> QED
      BY <2>1, CallAbstract DEF Within, Abstract!RawAccess
  <1>3. CASE call.kind # "writeAP" /\ ~(call.kind = "writeMemory" /\ phase' = "return")
    <2>1. AbstractOutcome = "none" /\ AbstractOutcome' = "none"
      BY <1>3, WithinAbstract
    <2>2. AbstractKind \in {"read", "write", "control"}
      BY <1>3, KindType, WithinAbstract DEF Abstract!Kinds
    <2> QED
      BY <2>1, <2>2, CallAbstract DEF Within, Abstract!LatchFault
  <1> QED
    BY <1>1, <1>2, <1>3

(* What the host asks for is a call of MemoryPort.                         *)
LEMMA BeginAbstract ==
    ASSUME NEW c \in HostCalls, Begin(c)
    PROVE  Abstract!Begin
  <1>1. c \in Call /\ call' = c /\ phase = "idle" /\ phase' \in {"select", "connect", "dp"}
    BY HostCallsAssumption DEF Begin
  <1>2. /\ AbstractKind' \in Abstract!Kinds
        /\ c.addr \in Word /\ c.data \in Word
    BY <1>1 DEF AbstractKind, Abstract!Kinds, Call
  <1>3. UNCHANGED <<mem, sticky, trusted, result>> /\ AbstractOutcome' = "none"
    BY <1>1 DEF Begin, targetVars, AbstractOutcome
  <1> QED
    BY <1>1, <1>2, <1>3 DEF Abstract!Begin

(* The driver's preparations: selecting, connecting and reading back.      *)
LEMMA PrepareAbstract ==
    ASSUME RefInv, SelectCached \/ SelectWrite \/ Connect \/ DpRead \/ ReadRdBuff
    PROVE  [Abstract!Fail \/ Abstract!LatchFault \/ Abstract!RawAccess]_(Abstract!memVars)
  <1>t. TypeOK /\ Phases /\ PhaseOK /\ Within
    BY TransactionWithin DEF RefInv, Inv, TypeInv, Driven, Transaction
  <1>1. call.kind = "writeMemory" /\ phase' = "return" => status' # "OK"
    <2> SUFFICES ASSUME call.kind = "writeMemory" PROVE ~(phase' = "return" /\ status' = "OK")
      OBVIOUS
    <2>m. call.kind \in MemKinds /\ call.kind \notin DpKinds
      BY DEF MemKinds, DpKinds
    <2>1. Len(Accesses(call)) = 4 /\ (step = 4 => access.dir = "write")
      BY <1>t, <2>m, MemAccess
    <2>2. phase \notin {"connect", "dp", "return"}
      BY <1>t, <2>m DEF PhaseOK, DpKinds, Within
    <2>3. phase = "rdbuff" => step # 4
      BY <1>t, <2>1 DEF Phases
    <2>5. ASSUME NEW ack, Refused(ack)
          PROVE ~(phase' = "return" /\ status' = "OK")
      BY <2>2, <2>5, RefusedWhere
    <2>6. CASE SelectCached \/ SelectWrite
      <3>1. GoTo("access") \/ \E ack \in Acks : Refused(ack)
        BY <2>6 DEF SelectCached, SelectWrite
      <3> QED
        BY <2>5, <3>1 DEF GoTo
    <2>7. CASE ReadRdBuff
      <3>1. phase = "rdbuff"
        BY <2>7 DEF ReadRdBuff
      <3>2. Succeeded(rdbuff) \/ \E ack \in Acks : Refused(ack)
        BY <2>7 DEF ReadRdBuff
      <3>3. ASSUME NEW d, Succeeded(d) PROVE ~(phase' = "return" /\ status' = "OK")
        BY <2>1, <2>3, <3>1, <3>3, SucceededWhere
      <3> QED
        BY <2>5, <3>2, <3>3
    <2>8. ~Connect /\ ~DpRead
      BY <2>2 DEF Connect, DpRead
    <2> QED
      BY <2>6, <2>7, <2>8
  <1>2. /\ UNCHANGED mem
        /\ UNCHANGED sticky \/ (sticky' = TRUE /\ phase = "select")
    <2>1. CASE SelectWrite
      <3>1. phase = "select"
        BY <2>1 DEF SelectWrite
      <3>2. UNCHANGED targetVars \/ Discards \/ \E b : TargetDpWrite(SELECT, b)
        BY <2>1 DEF SelectWrite
      <3> QED
        BY <3>1, <3>2 DEF TargetDpWrite, Discards, targetVars, SELECT, ABORT
    <2>2. CASE ~SelectWrite
      BY <2>2 DEF SelectCached, Connect, DpRead, ReadRdBuff, targetVars
    <2> QED
      BY <2>1, <2>2
  <1>3. CASE UNCHANGED sticky
    BY <1>t, <1>1, <1>2, <1>3, QuietAbstract
  <1>4. CASE sticky' = TRUE /\ phase = "select"
    <2>1. call.kind # "connect"
      BY <1>t, <1>4 DEF PhaseOK, MemKinds, ApKinds
    <2> QED
      BY <1>t, <1>1, <1>2, <1>4, <2>1, FaultAbstract
  <1> QED
    BY <1>2, <1>3, <1>4

(* The access that takes effect: the target takes the word, or 0xFFFFFFFF  *)
(* in its place when the ack is damaged, or notes an error; or it is the   *)
(* raw write of the host.  The accesses before it change no memory.        *)
LEMMA ApWriteAbstract ==
    ASSUME RefInv, RefInv', ApWrite, trusted
    PROVE  [\/ Abstract!Take \/ Abstract!Fail
            \/ Abstract!LatchFault \/ Abstract!RawAccess]_(Abstract!memVars)
  <1>t. /\ TypeOK /\ TypeOK' /\ Driven /\ CacheCoherent /\ PhaseOK /\ Within
        /\ phase = "access" /\ access.dir = "write" /\ Trusted
    BY TransactionWithin DEF RefInv, Inv, TypeInv, ApWrite, Transaction, Trusted
  <1>1. PICK ack \in Acks :
            /\ CanAck(ack, FALSE)
            /\ \/ /\ ack = "OK" /\ Succeeded(data)
                  /\ TargetApWrite(access.reg, access.data) \/ Discards
               \/ /\ ack # "OK" /\ Refused(ack)
                  /\ \/ UNCHANGED targetVars
                     \/ TakesOnes(ack, FALSE) /\ TargetApWrite(access.reg, Ones)
    BY DEF ApWrite
  <1>r. ack # "OK" => ~(phase' = "return" /\ status' = "OK")
    BY <1>1, <1>t, RefusedWhere
  <1>k. call.kind # "connect" /\ call.kind \in MemKinds \cup ApKinds
    BY <1>t DEF PhaseOK, MemKinds, ApKinds
  <1>o. ack = "OK" => live /\ ~sticky
    BY <1>1, <1>t DEF CanAck, TypeOK
  <1>c. [kind |-> AbstractKind, addr |-> call.addr, data |-> call.data] # NoBank
    BY <1>t, KindType
  <1>2. CASE call.kind = "writeMemory" /\ step = 4
    <2>m. /\ call.kind \in MemKinds /\ Len(Accesses(call)) = 4
          /\ access.bank = MemBank /\ access.reg = DRW /\ access.data = call.data
      BY <1>t, <1>2, MemAccess DEF MemKinds
    <2>1. live /\ ~sticky => sel = MemBank /\ csw = CswConfig /\ tar = call.addr
      BY <1>t, <1>2, <2>m, BanksAssumption
      DEF Driven, Selected, Configured, Addressed, CacheCoherent
    <2>2. ASSUME NEW d, TargetApWrite(DRW, d), live, ~sticky
          PROVE  \/ mem' = [mem EXCEPT ![call.addr] = d] /\ UNCHANGED sticky
                 \/ sticky' = TRUE /\ UNCHANGED mem
      BY <2>1, <2>2 DEF TargetApWrite, CSW, TAR, DRW
    <2>3. CASE ack = "OK"
      <3>1. phase' = "return" /\ status' = "OK"
        BY <1>1, <1>2, <2>m, <2>3 DEF Succeeded, InWaitForMemory
      <3>2. AbstractKind = "write" /\ AbstractOutcome = "none" /\ AbstractOutcome' = "taken"
        BY <1>t, <1>2, <3>1, WithinAbstract
      <3>3. \/ mem' = [mem EXCEPT ![call.addr] = call.data] /\ UNCHANGED sticky
            \/ sticky' = TRUE /\ UNCHANGED mem
        BY <1>1, <1>o, <2>m, <2>2, <2>3 DEF Discards
      <3> QED
        BY <1>t, <1>o, <2>3, <3>2, <3>3, CallAbstract DEF Within, Abstract!Take
    <2>4. CASE ack # "OK" /\ UNCHANGED targetVars
      BY <1>t, <1>r, <2>4, QuietAbstract DEF targetVars
    <2>5. CASE TakesOnes(ack, FALSE) /\ TargetApWrite(access.reg, Ones)
      <3>1. ack = "NONE" /\ live /\ ~sticky
        BY <1>t, <2>5 DEF TakesOnes, TypeOK
      <3>2. phase' = "return" /\ status' # "OK"
        BY <1>1, <3>1, RefusedWhere
      <3>3. AbstractKind = "write" /\ AbstractOutcome = "none" /\ AbstractOutcome' = "failed"
        BY <1>t, <1>2, <3>2, WithinAbstract
      <3>4. \/ mem' = [mem EXCEPT ![call.addr] = Ones] /\ UNCHANGED sticky
            \/ sticky' = TRUE /\ UNCHANGED mem
        BY <2>m, <2>2, <2>5, <3>1
      <3> QED
        BY <1>t, <3>1, <3>3, <3>4, CallAbstract DEF Within, Abstract!Fail
    <2> QED
      BY <1>1, <2>3, <2>4, <2>5
  <1>3. CASE call.kind \in MemKinds /\ ~(call.kind = "writeMemory" /\ step = 4)
    <2>1. /\ access.reg \in {CSW, TAR} /\ Len(Accesses(call)) = 4
          /\ call.kind = "writeMemory" => step # 4
      BY <1>t, <1>3, MemAccess DEF MemKinds
    <2>2. call.kind = "writeMemory" /\ phase' = "return" => status' # "OK"
      BY <1>1, <1>r, <2>1, SucceededWhere
    <2>3. ASSUME NEW d, TargetApWrite(access.reg, d) PROVE UNCHANGED <<mem, sticky>>
      BY <2>1, <2>3 DEF TargetApWrite, CSW, TAR, DRW
    <2>4. CASE UNCHANGED <<mem, sticky>>
      BY <1>t, <2>2, <2>4, QuietAbstract
    <2>5. CASE Discards
      BY <1>t, <1>k, <2>2, <2>5, FaultAbstract DEF Discards
    <2> QED
      BY <1>1, <2>3, <2>4, <2>5 DEF targetVars
  <1>4. CASE call.kind \notin MemKinds
    <2>1. call.kind = "writeAP"
      BY <1>t, <1>k, <1>4, OtherAccess DEF ApKinds
    <2>2. AbstractKind = "raw" /\ AbstractOutcome' = AbstractOutcome
      BY <1>t, <2>1, WithinAbstract
    <2>3. mem' \in [Word -> Word] /\ sticky' \in {sticky, TRUE}
      BY <1>1, <1>t DEF TargetApWrite, Discards, targetVars, TypeOK
    <2> QED
      BY <1>t, <2>2, <2>3, CallAbstract DEF Within, Abstract!RawAccess
  <1> QED
    BY <1>2, <1>3, <1>4

(* A read of an access port changes no memory; the target may latch an     *)
(* error when the driver reads the data register.                          *)
LEMMA ApReadAbstract ==
    ASSUME RefInv, ApRead
    PROVE  [Abstract!Fail \/ Abstract!LatchFault \/ Abstract!RawAccess]_(Abstract!memVars)
  <1>t. TypeOK /\ PhaseOK /\ Within /\ phase = "access"
    BY TransactionWithin DEF RefInv, Inv, TypeInv, ApRead, Transaction
  <1>1. ~(phase' = "return" /\ status' = "OK")
    <2>1. GoTo("rdbuff") \/ \E ack \in Acks : Refused(ack)
      BY DEF ApRead
    <2> QED
      BY <1>t, <2>1, RefusedWhere DEF GoTo
  <1>2. UNCHANGED mem /\ (UNCHANGED sticky \/ sticky' = TRUE)
    BY DEF ApRead, TargetApRead, targetVars
  <1>3. call.kind # "connect"
    BY <1>t DEF PhaseOK, MemKinds, ApKinds
  <1> QED
    BY <1>t, <1>1, <1>2, <1>3, QuietAbstract, FaultAbstract

(* An ABORT write may clear the error, any write may be damaged; nothing   *)
(* else the host writes to the debug port concerns MemoryPort.             *)
LEMMA DpWriteAbstract ==
    ASSUME RefInv, DpWrite
    PROVE  [\/ Abstract!Fail \/ Abstract!LatchFault
            \/ Abstract!RawAccess \/ Abstract!ClearFault]_(Abstract!memVars)
  <1>t. TypeOK /\ PhaseOK /\ Within /\ phase = "dp" /\ call.kind \in {"readDP", "writeDP"}
    BY TransactionWithin DEF RefInv, Inv, TypeInv, PhaseOK, DpWrite, Transaction
  <1>1. UNCHANGED mem /\ (UNCHANGED sticky \/ sticky' = TRUE \/ sticky' = FALSE)
    BY DEF DpWrite, TargetDpWrite, Discards, targetVars
  <1>2. CASE UNCHANGED sticky
    BY <1>t, <1>1, <1>2, QuietAbstract
  <1>3. CASE sticky' = TRUE
    BY <1>t, <1>1, <1>3, FaultAbstract
  <1>4. CASE sticky' = FALSE
    <2>1. AbstractKind = "control" /\ AbstractOutcome' = AbstractOutcome
      BY <1>t, WithinAbstract DEF AbstractKind
    <2> QED
      BY <1>t, <1>1, <1>4, <2>1, CallAbstract DEF Within, Abstract!ClearFault
  <1> QED
    BY <1>1, <1>2, <1>3, <1>4

(* As long as no call has failed, a call returns OK only when its last     *)
(* access was made, and a read then with the word that was asked for.      *)
LEMMA ReturnAbstract ==
    ASSUME RefInv, Return
    PROVE  Abstract!ReturnOK \/ Abstract!ReturnError
  <1>t. /\ TypeOK /\ Driven /\ Complete /\ phase = "return" /\ phase' = "idle"
        /\ result' = [status |-> status, data |-> data] /\ UNCHANGED <<mem, sticky>>
        /\ trusted' = (call.kind = "connect" \/ (trusted /\ status = "OK"))
        /\ trusted \in BOOLEAN
    BY DEF RefInv, Inv, TypeInv, TypeOK, Return, targetVars
  <1>1. /\ [kind |-> AbstractKind, addr |-> call.addr, data |-> call.data] # NoBank
        /\ status \in Statuses /\ data \in Word
    BY <1>t, KindType DEF TypeOK
  <1>2. /\ AbstractKind = "read" <=> call.kind = "readMemory"
        /\ AbstractKind = "write" <=> call.kind = "writeMemory"
        /\ AbstractKind = "connect" <=> call.kind = "connect"
    BY DEF AbstractKind
  <1>3. AbstractOutcome' = "none"
    BY <1>t DEF AbstractOutcome
  <1>o. /\ call.kind = "writeMemory" /\ status = "OK" => AbstractOutcome = "taken"
        /\ call.kind = "writeMemory" /\ status # "OK" => AbstractOutcome = "failed"
    BY <1>t DEF AbstractOutcome
  <1>4. CASE status = "OK"
    <2>1. trusted /\ call.kind = "readMemory" => data = mem[call.addr]
      BY <1>t, <1>4 DEF Driven, Complete, Fetched, MemKinds, Trusted
    <2>2. trusted' = (trusted \/ AbstractKind = "connect")
      BY <1>t, <1>2, <1>4
    <2> QED
      BY <1>t, <1>1, <1>2, <1>3, <1>o, <1>4, <2>1, <2>2 DEF Abstract!ReturnOK
  <1>5. CASE status # "OK"
    <2>1. result' \in [status : Abstract!Statuses \ {"OK"}, data : Word]
      BY <1>t, <1>1, <1>5 DEF Abstract!Statuses, Statuses
    <2>2. trusted' = (AbstractKind = "connect")
      BY <1>t, <1>2, <1>5
    <2> QED
      BY <1>t, <1>1, <1>2, <1>3, <1>o, <1>5, <2>1, <2>2 DEF Abstract!ReturnError
  <1> QED
    BY <1>4, <1>5

(* A power loss clears the error and nothing else that MemoryPort knows.   *)
LEMMA PowerLossAbstract == PowerLoss => Abstract!PowerCycle
  <1> SUFFICES ASSUME PowerLoss PROVE Abstract!PowerCycle
    OBVIOUS
  <1>1. /\ sticky' = FALSE
        /\ UNCHANGED <<mem, call, phase, status, trusted, result>>
    BY DEF PowerLoss
  <1> QED
    BY <1>1 DEF Abstract!PowerCycle, AbstractKind, AbstractOutcome

-----------------------------------------------------------------------------
(* The driver starts as MemoryPort does: no call, no error.                *)
LEMMA AbstractInit == Init => Abstract!Init
  <1> SUFFICES ASSUME Init PROVE Abstract!Init
    OBVIOUS
  <1>1. /\ mem \in [Word -> Word] /\ phase = "idle" /\ sticky = FALSE /\ trusted = TRUE
        /\ result = [status |-> "OK", data |-> 0] /\ 0 \in Word
    BY NumWordsAssumption DEF Init, Word
  <1>2. [status |-> "OK", data |-> 0] \in [status : Abstract!Statuses, data : Word]
    BY <1>1 DEF Abstract!Statuses
  <1> QED
    BY <1>1, <1>2 DEF Abstract!Init, AbstractOutcome

(* Every step of the driver, the host or the target is a step of           *)
(* MemoryPort or none.                                                     *)
LEMMA AbstractStep ==
    RefInv /\ RefInv' /\ [Next]_vars => [Abstract!Next]_(Abstract!memVars)
  <1> SUFFICES ASSUME RefInv, RefInv', [Next]_vars
               PROVE  [Abstract!Next]_(Abstract!memVars)
    OBVIOUS
  <1>1. ASSUME NEW c \in HostCalls, Begin(c) PROVE Abstract!Next
    BY <1>1, BeginAbstract DEF Abstract!Next
  <1>t. TypeOK /\ TypeOK' /\ trusted \in BOOLEAN
    BY DEF RefInv, Inv, TypeInv, TypeOK
  <1>2. CASE Transaction /\ ~trusted
    BY <1>2, <1>t, TransactionWithin, StrayAbstract DEF Abstract!Next
  <1>3. CASE Transaction /\ trusted
    <2>1. CASE SelectCached \/ SelectWrite \/ Connect \/ DpRead \/ ReadRdBuff
      BY <2>1, PrepareAbstract DEF Abstract!Next
    <2>2. CASE ApWrite
      BY <1>3, <2>2, ApWriteAbstract DEF Abstract!Next
    <2>3. CASE ApRead
      BY <2>3, ApReadAbstract DEF Abstract!Next
    <2>4. CASE DpWrite
      BY <2>4, DpWriteAbstract DEF Abstract!Next
    <2> QED
      BY <1>3, <2>1, <2>2, <2>3, <2>4 DEF Transaction
  <1>6. CASE Return
    BY <1>6, ReturnAbstract DEF Abstract!Next
  <1>7. CASE PowerLoss
    BY <1>7, PowerLossAbstract DEF Abstract!Next
  <1>8. CASE UNCHANGED vars
    BY <1>8 DEF vars, Abstract!memVars, AbstractKind, AbstractOutcome
  <1> QED
    BY <1>t, <1>1, <1>2, <1>3, <1>6, <1>7, <1>8 DEF Next, Driver, Transaction

(* Until a call fails, and again after every connect, the memory calls of  *)
(* mid_level.cpp keep MemoryPort's promise: what is answered OK has        *)
(* reached the word it names and no other, unless an error blocks every    *)
(* further access, and a read has returned its word; across retries, bus   *)
(* errors, words and acks damaged on the wire and power losses.            *)
THEOREM SwdPortImplementsMemoryPort ==
    ASSUME HostNeverSelects
    PROVE  Spec => ImplementsMemoryPort
  <1>1. RefInv /\ [Next]_vars => RefInv'
    BY RefInvStep
  <1>2. Spec => []RefInv
    BY RefInvInit, <1>1, PTL DEF Spec
  <1> QED
    BY <1>2, AbstractInit, AbstractStep, PTL DEF Spec, ImplementsMemoryPort, Abstract!Spec
=============================================================================
