---------------------------- MODULE MCSquirrelData ----------------------------
(***************************************************************************)
(* The data structures of the Squirrel VM and the regular expressions of   *)
(* its library, each on its own: part says which one moves.                *)
(***************************************************************************)
EXTENDS SquirrelTable, SquirrelState, MCSquirrelPatterns

CONSTANTS
    k1, k2, k3, k4,             \* keys and texts
    s1, s2                      \* slots of the stack

VARIABLES
    part,
    objects, gcChain, fault, stack, held, closed,
    pattern, exp, call, calls

objectVars == <<objects, gcChain, fault, stack, held, closed>>
regexVars  == <<pattern, exp, call, calls>>
dataVars   == <<part, vars, sharedVars, objectVars, regexVars>>

(* Keys that meet in a table of 4 nodes and part in one of 8, and another. *)
MCKey == {k1, k2, k3, k4}
MCHash == k1 :> 0 @@ k2 :> 4 @@ k3 :> 3 @@ k4 :> 8

H == INSTANCE SquirrelHeap WITH Obj <- 1 .. 3, Slot <- {s1, s2}, MaxLost <- 1, heap <- objects

R == INSTANCE SquirrelRegex WITH Pattern <- Patterns, Texts <- Subjects, MaxCalls <- 1

DataInit ==
    /\ part \in {"table", "strings", "heap", "regex"}
    /\ Init /\ SharedInit /\ H!Init /\ R!Init
    /\ part = "regex" \/ pattern.tokens = << "(" >>

DataNext ==
    /\ UNCHANGED part
    /\ \/ part = "table"   /\ Next       /\ UNCHANGED <<sharedVars, objectVars, regexVars>>
       \/ part = "strings" /\ SharedNext /\ UNCHANGED <<vars, objectVars, regexVars>>
       \/ part = "heap"    /\ H!Next     /\ UNCHANGED <<vars, sharedVars, regexVars>>
       \/ part = "regex"   /\ R!Next     /\ UNCHANGED <<vars, sharedVars, objectVars>>

DataSpec == DataInit /\ [][DataNext]_dataVars

(* The properties of SquirrelHeap and SquirrelRegex, each where it is the  *)
(* part that moves; beside them those of SquirrelTable and SquirrelState.  *)
HeapSound == part = "heap" => H!Sound
CollectorExact == part = "heap" => H!CollectorExact
ClosesEmpty == H!ClosesEmpty
RegexSound == part = "regex" => R!RegexSound
=============================================================================
