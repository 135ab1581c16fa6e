----------------------------- MODULE MCSwdWire -----------------------------
(* All ones (what a line nobody drives reads as), all zeros, and a word of *)
(* odd parity; every request.                                              *)
EXTENDS SwdWire

MCWords == { Ones(WordBits), Zeros(WordBits), [Zeros(WordBits) EXCEPT ![1] = 1] }

MCOps == { o \in Op : o.read = 1 => o.data = Zeros(WordBits) }
=============================================================================
