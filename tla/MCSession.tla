----------------------------- MODULE MCSession -----------------------------
EXTENDS Session

(* A connect, a read, a wait, and a packet too long for the receive buffer. *)
MCPrograms == {<<"CONNECT">>, <<"RESET", "READMEM">>, <<"WAITMEMTRUE">>,
               <<"READMEM", "READMEM", "GETPROGID">>}
MCGarbage == {<<>>, <<"RESET">>, <<"UNKNOWN">>}
MCIds == 0 .. MaxPackets
=============================================================================
