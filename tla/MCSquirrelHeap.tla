---------------------------- MODULE MCSquirrelHeap ----------------------------
(* A native function may keep an object in a local: SpecNative.            *)
EXTENDS SquirrelHeap
=============================================================================
