-------------------------- MODULE MCKinetisFlash --------------------------
(* Images of 0, 3 and 4 words, verified two at a time: words are blank,    *)
(* zero or a pattern of their own; two and two of four are equal.          *)
EXTENDS KinetisFlash

MCWords == { {}, Blank, {0, 16} }
MCImages ==
    { <<>> } \cup [1 .. 3 -> MCWords]
    \cup { i \in [1 .. 4 -> MCWords] : i[1] = i[2] /\ i[3] = i[4] }
=============================================================================
