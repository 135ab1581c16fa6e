--------------------------- MODULE SquirrelPattern ---------------------------
(***************************************************************************)
(* What a regular expression of sqstdrex.cpp means: the abstract side of   *)
(* SquirrelRegex.  A list is a sequence of alternatives, an alternative a  *)
(* sequence of elements, and an element one of                             *)
(*   <<"char", c>>  <<"any">>  <<"bol">>  <<"eol">>  <<"is", id>>          *)
(*   <<"class", items, negated>>           an item: <<from, to>>, or <<id>>*)
(*   <<"balanced", open, close>>                                           *)
(*   <<"group", list, captures>>                                           *)
(*   <<"rep", element, lo, hi, tokens>>    tokens: how that is written     *)
(***************************************************************************)
EXTENDS Integers, SequencesExt

(* The characters that occur, in the order of their codes.                 *)
Ascii == << "$", "(", ")", "*", "+", ",", "-", ".", "0", "1", "2", "3", ":", "?", "D", "W", "[", "\\", "]", "^",
            "a", "b", "c", "d", "m", "w", "{", "|", "}" >>
Chr(c) == IF \E k \in DOMAIN Ascii : Ascii[k] = c THEN CHOOSE k \in DOMAIN Ascii : Ascii[k] = c ELSE 0
Digit == {"0", "1", "2", "3"}
Letter == {"D", "W", "a", "b", "c", "d", "m", "w"}

Unbounded == 65535

(* What a letter behind a backslash stands for.                            *)
Classes == {"d", "D", "w", "W"}
InClass(id, c) ==
    CASE id = "d" -> c \in Digit [] id = "D" -> c \notin Digit
      [] id = "w" -> c \in Digit \union Letter [] id = "W" -> c \notin Digit \union Letter

-----------------------------------------------------------------------------
(* How a list is written.                                                  *)
Special == {"$", "(", "*", "+", ".", "?", "[", "\\", "^", "{", "|", ")"}
Literal(c) == IF c \in Special THEN << "\\", c >> ELSE << c >>

RECURSIVE Written(_)
Written(e) ==
    CASE e[1] = "char" -> Literal(e[2])
      [] e[1] = "any" -> << "." >>
      [] e[1] = "bol" -> << "^" >>
      [] e[1] = "eol" -> << "$" >>
      [] e[1] = "is" -> << "\\", e[2] >>
      [] e[1] = "class" ->
            << "[" >> \o (IF e[3] THEN << "^" >> ELSE <<>>)
            \o FlattenSeq([k \in DOMAIN e[2] |->
                 LET i == e[2][k] IN IF Len(i) = 1 THEN << "\\", i[1] >> ELSE IF i[1] = i[2] THEN << i[1] >> ELSE << i[1], "-", i[2] >>])
            \o << "]" >>
      [] e[1] = "balanced" -> << "\\", "m", e[2], e[3] >>
      [] e[1] = "rep" -> Written(e[2]) \o e[5]
      [] e[1] = "group" -> << "(" >> \o (IF e[3] THEN <<>> ELSE << "?", ":" >>) \o Written(<<"list", e[2]>>) \o << ")" >>
      [] e[1] = "list" ->
            Tail(FlattenSeq([k \in DOMAIN e[2] |->
                 << "|" >> \o FlattenSeq([j \in DOMAIN e[2][k] |-> Written(e[2][k][j])])]))

-----------------------------------------------------------------------------
(* Where a match of an element that begins after i characters may end.     *)
Single(e, c) ==
    CASE e[1] = "char" -> c = e[2]
      [] e[1] = "any" -> TRUE
      [] e[1] = "is" -> InClass(e[2], c)
      [] e[1] = "class" ->
            e[3] # \E k \in DOMAIN e[2] :
                      LET i == e[2][k] IN IF Len(i) = 1 THEN InClass(i[1], c) ELSE Chr(c) \in Chr(i[1]) .. Chr(i[2])

Balanced(text, i, j, open, close) ==
    LET Depth(k) == Cardinality({ n \in i + 1 .. k : text[n] = open }) - Cardinality({ n \in i + 1 .. k : text[n] = close })
    IN  j > i /\ text[i + 1] = open /\ Depth(j) = 0 /\ \A k \in i + 1 .. j - 1 : Depth(k) > 0

RECURSIVE Ends(_, _, _), SeqEnds(_, _, _), RepEnds(_, _, _, _, _)
SeqEnds(es, text, from) ==
    IF es = <<>> THEN from ELSE SeqEnds(Tail(es), text, UNION { Ends(Head(es), text, i) : i \in from })

ListEnds(list, text, i) == UNION { SeqEnds(list[k], text, {i}) : k \in DOMAIN list }

(* Once nothing more can be reached, the rest of the matches changes that  *)
(* no more.                                                                *)
Further(e, text, from, to, lo, hi) ==
    IF lo > 0 THEN RepEnds(e, text, to, lo - 1, hi - 1)
    ELSE IF to \subseteq from THEN from ELSE RepEnds(e, text, from \union to, 0, hi - 1)

RepEnds(e, text, from, lo, hi) ==
    IF hi = 0 THEN IF lo = 0 THEN from ELSE {}
    ELSE Further(e, text, from, UNION { Ends(e, text, i) : i \in from }, lo, hi)

Ends(e, text, i) ==
    CASE e[1] = "group" -> ListEnds(e[2], text, i)
      [] e[1] = "rep" -> RepEnds(e[2], text, {i}, e[3], e[4])
      [] e[1] = "bol" -> IF i = 0 THEN {0} ELSE {}
      [] e[1] = "eol" -> IF i = Len(text) THEN {i} ELSE {}
      [] e[1] = "balanced" -> { j \in i + 1 .. Len(text) : Balanced(text, i, j, e[2], e[3]) }
      [] OTHER -> IF i < Len(text) /\ Single(e, text[i + 1]) THEN {i + 1} ELSE {}

-----------------------------------------------------------------------------
(* The lists that can be matched without ever taking a choice back: at     *)
(* each of them the next character decides.  follow has the characters that*)
(* may come behind.                                                        *)
RECURSIVE Nullable(_), First(_, _), SeqFirst(_, _), PlainSeq(_, _, _), Plain(_, _, _)
Nullable(e) ==
    CASE e[1] = "rep" -> e[3] = 0 \/ Nullable(e[2])
      [] e[1] = "group" -> \E k \in DOMAIN e[2] : \A j \in DOMAIN e[2][k] : Nullable(e[2][k][j])
      [] OTHER -> e[1] \in {"bol", "eol"}

First(e, Char) ==
    CASE e[1] = "rep" -> First(e[2], Char)
      [] e[1] = "group" -> UNION { SeqFirst(e[2][k], Char) : k \in DOMAIN e[2] }
      [] e[1] \in {"bol", "eol"} -> {}
      [] e[1] = "balanced" -> { e[2] }
      [] OTHER -> { c \in Char : Single(e, c) }

SeqFirst(es, Char) ==
    IF es = <<>> THEN {}
    ELSE First(Head(es), Char) \union IF Nullable(Head(es)) THEN SeqFirst(Tail(es), Char) ELSE {}

AllNullable(es) == \A k \in DOMAIN es : Nullable(es[k])

(* A repetition does not see past a group that may be empty.               *)
PlainElement(e, next, Char) ==
    CASE e[1] = "rep" ->
            /\ ~Nullable(e[2]) /\ First(e, Char) \intersect next = {}
            /\ PlainSeq(<< e[2] >>, next \union First(e, Char), Char)
      [] e[1] = "group" -> ~Nullable(e) /\ Plain(e[2], next, Char)
      [] OTHER -> TRUE

Behind(es, follow, Char) == SeqFirst(es, Char) \union IF AllNullable(es) THEN follow ELSE {}

PlainSeq(es, follow, Char) ==
    \A k \in DOMAIN es : PlainElement(es[k], Behind(SubSeq(es, k + 1, Len(es)), follow, Char), Char)

Plain(list, follow, Char) ==
    /\ \A k \in DOMAIN list : PlainSeq(list[k], follow, Char)
    /\ \A i, j \in DOMAIN list : i < j =>
            /\ ~AllNullable(list[i])
            /\ SeqFirst(list[i], Char) \intersect Behind(list[j], follow, Char) = {}
=============================================================================
