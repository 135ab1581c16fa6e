-------------------------- MODULE SquirrelLanguage --------------------------
(***************************************************************************)
(* What the machine running compiled scripts must do.  Meanings has what   *)
(* every script means.                                                     *)
(***************************************************************************)
EXTENDS SquirrelVM

CONSTANT Meanings

Ended == vm.status \in {"done", "error"}

(* The code that the compiler and its optimizer make of a script, run by   *)
(* the machine, prints what the script means and ends as it should.        *)
Computes ==
    Ended =>
        [log |-> vm.log, status |-> vm.status, result |-> vm.result] = Meanings[vm.program]

(* Every script comes to an end.  Execute goes on by itself, as long as    *)
(* there is a next instruction: weak fairness of Next, which can always    *)
(* step until the script has ended.                                        *)
FairSpec == Spec /\ ([]<>Ended \/ []<><<TRUE>>_vm)
Halts == <>Ended

(* The frames that an Execute runs: from its root frame up.                *)
Frames(k) ==
    LET roots == SelectSeq([j \in DOMAIN vm.calls |-> j], LAMBDA j : vm.calls[j].root)
    IN  roots[k]..(IF k = Len(roots) THEN Len(vm.calls) ELSE roots[k + 1] - 1)

(* Every Execute counts exactly the traps of its own frames, though frames *)
(* with traps are yielded away and resumed: its count decides whether an   *)
(* error is reported, and the traps themselves are one stack for all.      *)
TrapsBalanced ==
    vm.status = "running" =>
        /\ \A k \in DOMAIN vm.execs :
               vm.execs[k].traps = FoldLeft(LAMBDA n, j : n + (IF j \in Frames(k) THEN vm.calls[j].etraps ELSE 0),
                                            0, [j \in DOMAIN vm.calls |-> j])
        /\ Len(vm.etraps) = FoldLeft(LAMBDA n, f : n + f.etraps, 0, vm.calls)

(* The assertion of Execute, traps==0, when it returns from its first      *)
(* frame.                                                                  *)
TrapsGone == vm.left = 0

(* The open outer variables are in the order of their registers, each once,*)
(* in registers of live frames, and point into the stack as it is now      *)
(* allocated: otherwise a closure reads freed memory or another's register.*)
OutersSound ==
    \A k \in DOMAIN vm.open :
        LET o == vm.heap[vm.open[k]]
        IN  /\ o.open /\ o.at = vm.allocation /\ o.idx < vm.top
            /\ k < Len(vm.open) => o.idx > vm.heap[vm.open[k + 1]].idx

(* An error that no trap catches is reported to the error handler once;    *)
(* one that is caught, or only leaves a metamethod, is not.                *)
Reported == vm.reported = (IF vm.status = "error" THEN 1 ELSE 0)

(* Between instructions the stack ends where the frame's registers end, in *)
(* the main body, in a metamethod and in a handler that an error has just  *)
(* come to: what was pushed for a metamethod is off the stack again.       *)
TopInPlace ==
    vm.status = "running" =>
        vm.top = vm.base + Proto(vm.heap[CI(vm).closure].path).stacksize
=============================================================================
