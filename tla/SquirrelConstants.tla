-------------------------- MODULE SquirrelConstants --------------------------
(***************************************************************************)
(* What the tables of the Squirrel VM hash, and where they put it.         *)
(***************************************************************************)
EXTENDS Integers, FiniteSets

CONSTANTS
    Key,            \* keys of a table; contents of strings
    null,           \* OT_NULL: no key, no value
    Hash,           \* HashObj and _hashstr: a number for each key
    Address,        \* where strings may be allocated
    InitialSlots    \* of the string and the reference table, 4

ASSUME KeyAssumption == null \notin Key /\ Hash \in [Key -> Nat]

ASSUME StringAssumption == null \notin Address /\ InitialSlots \in Nat \ {0}
=============================================================================
