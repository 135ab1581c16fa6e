---------------------------- MODULE MemoryPort ----------------------------
(***************************************************************************)
(* What the mid-level driver promises of the target's memory, without      *)
(* ports, banks, caches or retries.  One call runs at a time.  While the   *)
(* port is sound, which it is until a call fails and again after the next  *)
(* connect:                                                                *)
(*   - only a write changes the memory, and only the word it names;        *)
(*   - a write is answered OK only if the target took the word, or noted   *)
(*     an error that blocks every further memory access;                   *)
(*   - a read answered OK returns the word.                                *)
(* A write answered with an error may have left 0xFFFFFFFF in the word it  *)
(* names.  Of the calls between a failed one and the next connect, the     *)
(* driver promises nothing.                                                *)
(***************************************************************************)
EXTENDS Integers

CONSTANTS Word, Ones, Idle

Kinds    == {"read", "write", "raw", "control", "connect"}
Statuses == {"OK", "TIMEOUT", "SWDFAULT"}
Outcomes == {"none", "taken", "failed"}

VARIABLES
    mem,        \* [Word -> Word], the memory as this port's accesses leave it
    call,       \* the call in progress, or Idle
    outcome,    \* of the write in progress
    fault,      \* an error is latched in the target
    sound,      \* no call has failed since the last connect
    result      \* what the last call returned

memVars == <<mem, call, outcome, fault, sound, result>>

Init ==
    /\ mem \in [Word -> Word]
    /\ call = Idle
    /\ outcome = "none"
    /\ fault \in BOOLEAN
    /\ sound = TRUE
    /\ result \in [status : Statuses, data : Word]

Begin ==
    /\ call = Idle
    /\ call' \in [kind : Kinds, addr : Word, data : Word]
    /\ outcome' = "none"
    /\ UNCHANGED <<mem, fault, sound, result>>

Take ==
    /\ call # Idle /\ call.kind = "write"
    /\ outcome = "none" /\ ~fault
    /\ outcome' = "taken"
    /\ \/ mem' = [mem EXCEPT ![call.addr] = call.data] /\ UNCHANGED fault
       \/ fault' = TRUE /\ UNCHANGED mem
    /\ UNCHANGED <<call, sound, result>>

(* The write gives up; its answer may have been lost and with it the word. *)
Fail ==
    /\ call # Idle /\ call.kind = "write"
    /\ outcome = "none"
    /\ outcome' = "failed"
    /\ \/ UNCHANGED <<mem, fault>>
       \/ ~fault /\ mem' = [mem EXCEPT ![call.addr] = Ones] /\ UNCHANGED fault
       \/ fault' = TRUE /\ UNCHANGED mem
    /\ UNCHANGED <<call, sound, result>>

(* A raw write to an access port may do anything to the memory.            *)
RawAccess ==
    /\ call # Idle /\ call.kind = "raw"
    /\ mem' \in [Word -> Word]
    /\ fault' \in {fault, TRUE}
    /\ UNCHANGED <<call, outcome, sound, result>>

(* A bus access fails, or the target finds a word it is sent damaged.      *)
LatchFault ==
    /\ call # Idle /\ call.kind \in {"read", "write", "control"}
    /\ outcome = "none"
    /\ fault' = TRUE
    /\ UNCHANGED <<mem, call, outcome, sound, result>>

ClearFault ==
    /\ call # Idle /\ call.kind = "control"
    /\ fault' = FALSE
    /\ UNCHANGED <<mem, call, outcome, sound, result>>

PowerCycle ==
    /\ fault' = FALSE
    /\ UNCHANGED <<mem, call, outcome, sound, result>>

(* After a failed call a call may go to another port than it means.        *)
Stray ==
    /\ call # Idle /\ ~sound
    /\ mem' \in [Word -> Word]
    /\ fault' \in BOOLEAN
    /\ outcome' \in Outcomes
    /\ UNCHANGED <<call, sound, result>>

ReturnOK ==
    /\ call # Idle
    /\ sound /\ call.kind = "write" => outcome = "taken"
    /\ \E d \in Word :
        /\ sound /\ call.kind = "read" => d = mem[call.addr]
        /\ result' = [status |-> "OK", data |-> d]
    /\ call' = Idle /\ outcome' = "none"
    /\ sound' = (sound \/ call.kind = "connect")
    /\ UNCHANGED <<mem, fault>>

ReturnError ==
    /\ call # Idle
    /\ sound /\ call.kind = "write" => outcome = "failed"
    /\ result' \in [status : Statuses \ {"OK"}, data : Word]
    /\ call' = Idle /\ outcome' = "none"
    /\ sound' = (call.kind = "connect")
    /\ UNCHANGED <<mem, fault>>

Next ==
    \/ Begin \/ Take \/ Fail \/ RawAccess \/ LatchFault \/ ClearFault
    \/ PowerCycle \/ Stray \/ ReturnOK \/ ReturnError

Spec == Init /\ [][Next]_memVars
=============================================================================
