----------------------------- MODULE MCSwdPort -----------------------------
(* Two words, 1 standing for 0xFFFFFFFF, and three AP banks, no_ap the one *)
(* that 0xFFFFFFFF selects; at most two WAITs per transaction.             *)
EXTENDS SwdPort

CONSTANTS mem_ap, mdm_ap, no_ap, none
MCBanks == {mem_ap, mdm_ap, no_ap}

C(k, b, r, a, d) == [kind |-> k, bank |-> b, reg |-> r, addr |-> a, data |-> d]

(* The fields a call does not use are 0.                                   *)
MCHostCalls ==
    {C("readMemory", MemBank, 0, a, 0) : a \in Word}
        \cup {C("writeMemory", MemBank, 0, a, d) : a \in Word, d \in Word}
        \cup {C("readAP", MemBank, CSW, 0, 0), C("readAP", MemBank, DRW, 0, 0),
              C("readAP", mdm_ap, 0, 0, 0)}
        \cup {C("writeAP", MemBank, CSW, 0, 1), C("writeAP", MemBank, TAR, 0, 1),
              C("writeAP", MemBank, DRW, 0, 1), C("writeAP", mdm_ap, TAR, 0, 1)}
        \cup {C("readDP", MemBank, CTRLSTAT, 0, 0), C("readDP", MemBank, RDBUFF, 0, 0)}
        \cup {C("writeDP", MemBank, ABORT, 0, 0), C("writeDP", MemBank, CTRLSTAT, 0, 0)}
        \cup {C("connect", MemBank, 0, 0, 0)}

(* The same, and a WRITEDP command that names SELECT.                      *)
MCHostCallsSelect == MCHostCalls \cup {C("writeDP", b, SELECT, 0, 0) : b \in {mem_ap, mdm_ap}}
=============================================================================
