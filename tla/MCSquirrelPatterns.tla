-------------------------- MODULE MCSquirrelPatterns --------------------------
(***************************************************************************)
(* The regular expressions and the texts that SquirrelRegex is checked on. *)
(***************************************************************************)
EXTENDS SquirrelPattern

Sym(c) == << "char", c >>
AnyOne == << "any" >>
Rep(e, lo, hi, tokens) == << "rep", e, lo, hi, tokens >>
Star(e) == Rep(e, 0, Unbounded, << "*" >>)
Opt(e) == Rep(e, 0, 1, << "?" >>)
Reps(e) ==
    { Star(e), Opt(e), Rep(e, 1, Unbounded, << "+" >>), Rep(e, 2, 2, << "{", "2", "}" >>),
      Rep(e, 1, 2, << "{", "1", ",", "2", "}" >>), Rep(e, 2, Unbounded, << "{", "2", ",", "}" >>) }

AorB == << "class", << << "a", "b" >> >>, FALSE >>
Items == << << "a", "a" >>, << "d" >>, << "b", "c" >>, << "*", "*" >> >>

Elements == { Sym("a"), Sym("b"), AnyOne, AorB, Star(Sym("b")), Opt(Sym("b")) } \union Reps(Sym("a")) \union Reps(AorB)
Few == { Sym("a"), Sym("b"), Star(Sym("a")), Opt(Sym("b")) }

Sequences == { << x >> : x \in Elements } \union { << x, y >> : x \in Elements, y \in Elements }
    \union { << x, y, z >> : x \in Few, y \in Few, z \in Few }
    \union { << r, Sym("b") >> : r \in Reps(AnyOne) }
Alternated == { << << "group", << << x >>, << y >> >>, c >>, z >> : x \in Few, y \in Few, c \in BOOLEAN, z \in Few }
Repeated == { << r, z >> : r \in UNION { Reps(<< "group", << << Sym("a"), y >> >>, TRUE >>) : y \in Few },
                           z \in { Sym("a"), Sym("b"), Opt(Sym("a")) } }
Others ==
    { << << "is", "d" >>, << "class", Items, TRUE >> >>, << << "class", Items, FALSE >>, << "is", "W" >> >>,
      << << "balanced", "a", "b" >>, Star(Sym("c")) >>, << Sym("*"), Sym("a") >>,
      << Star(Sym("a")), << "group", << << Opt(Sym("b")) >> >>, TRUE >>, Sym("c") >>,
      << << "group", << << Sym("a"), << "group", << << Sym("b") >> >>, TRUE >> >> >>, TRUE >>, << "group", << << Sym("c") >> >>, TRUE >> >> }

Lists == { << s >> : s \in Sequences \union Alternated \union Repeated \union Others }
    \union { << << << "bol" >>, x >>, << y, << "eol" >> >> >> : x \in Elements, y \in Few }

(* What no list is written like.                                           *)
Malformed ==
    { << "(" >>, << "(", "a" >>, << "a", ")" >>, << "(", ")" >>, << "(", "?", "a", ")" >>, << "a", "|" >>, << "a", "*", "*" >>,
      << "[" >>, << "[", "a" >>, << "[", "]" >>, << "[", "^", "]" >>, << "[", "b", "-", "a", "]" >>, << "[", "a", "-" >>,
      << "[", "\\", "d", "-", "a", "]" >>, << "a", "{" >>, << "a", "{", "a", "}" >>, << "a", "{", "1" >>,
      << "a", "{", "1", "," >>, << "a", "{", "1", ",", "2" >>, << "\\", "m", "a", "a" >>, << "\\", "m", "a" >> }

Patterns ==
    { [tokens |-> Written(<< "list", l >>), list |-> l] : l \in Lists } \union { [tokens |-> t, list |-> <<>>] : t \in Malformed }

Subjects ==
    UNION { [1 .. n -> {"a", "b", "c"}] : n \in 0 .. 3 }
        \union { << "a", "a", "b", "b" >>, << "a", "b", "a", "b" >>, << "1", "a" >>, << "1", "b" >>, << "*", "a" >>, << "*", "1", "." >> }
=============================================================================
