---------------------------- MODULE MCProgrammer ----------------------------
EXTENDS Programmer

CONSTANT MaxCmds

(* All packets of at most MaxCmds commands, one kind for each shape of     *)
(* handler.                                                                *)
MCKinds == {"CONNECT", "READMEM", "WRITEDP", "WAITMEMTRUE", "RESET", "GETPROGID", "UNKNOWN"}
MCPrograms == UNION {[1 .. n -> MCKinds] : n \in 0 .. MaxCmds}
MCGarbage == {<<>>, <<"CONNECT">>, <<"WRITEMEM">>, <<"READDP", "UNKNOWN">>}
=============================================================================
