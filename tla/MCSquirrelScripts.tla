------------------------- MODULE MCSquirrelScripts -------------------------
(***************************************************************************)
(* Scripts for SquirrelVM and SquirrelMeaning:   every operand in every    *)
(* place where the optimizer joins instructions, every way out of every    *)
(* statement that it can be nested in, and scripts on functions, outer     *)
(* variables, generators, metamethods and errors.                          *)
(***************************************************************************)
EXTENDS SquirrelCompiler, SquirrelMeaning

V(x) == <<"var", x>>
N(n) == <<"int", n>>
S(x) == <<"str", x>>
Nil  == <<"null">>
T == <<"bool", TRUE>>
F == <<"bool", FALSE>>
C(f, args) == <<"call", f, args>>
E(e) == <<"expr", e>>
P(e) == <<"expr", <<"call", <<"var", "print">>, << e >>>>>>
L(x, e) == <<"local", x, e>>
B(ss) == <<"block", ss>>
Ret(e) == <<"return", e>>
Throws(e) == <<"throw", e>>
Gives(e) == <<"yield", e>>
If(c, t) == <<"if", c, t, <<>>>>
IfElse(c, t, e) == <<"if", c, t, e>>
Set(p, e) == <<"expr", <<"set", p, e>>>>
Slot(p, e) == <<"expr", <<"newslot", p, e>>>>
Add(a, b) == <<"arith", "ADD", a, b>>
Op(op, a, b) == <<"arith", op, a, b>>
Is(a, b) == <<"eq", "EQ", a, b>>
Lt(a, b) == <<"cmp", "<", a, b>>
Inc(p) == <<"inc", p, 1>>
Un(op, e) == <<"unary", op, e>>
Fun(xs, ss) == <<"function", [k \in DOMAIN xs |-> << xs[k] >>], ss>>
LocalFun(f, xs, ss) == <<"localfun", f, [k \in DOMAIN xs |-> << xs[k] >>], ss>>
Try(b, h) == <<"try", <<"block", b>>, "e", <<"block", h>>>>
Catch == <<"block", << P(V("e")) >>>>
Show(e) == <<"try", P(e), "e", Catch>>          \* what it gives, or raises
Dot(o, f) == <<"dot", o, f>>
Ix(o, k) == <<"index", o, k>>
TableOf(slots) == <<"table", slots>>
ArrayOf(es) == <<"array", es>>
NoOp == B(<<>>)

-----------------------------------------------------------------------------
(* Operands: constants, a local variable a, a captured one c, fields.      *)
Operands == << N(2), S("s"), T, Nil, V("a"), V("c"), V("g"), Dot(V("t"), "x"), Ix(V("r"), N(1)),
               C(V("id"), << N(3) >>), Add(V("a"), N(1)), Lt(V("a"), N(3)), <<"and", V("a"), V("c")>>,
               <<"or", F, V("a")>>, <<"cond", V("a"), N(1), N(2)>>, <<"pinc", V("a"), 1>>, <<"set", V("c"), N(6)>>,
               <<"pinc", V("c"), 1>>, <<"inc", Dot(V("t"), "x"), -1>>, <<"pinc", Dot(V("t"), "x"), 1>>,
               <<"compound", "SUB", V("a"), N(1)>>, <<"compound", "MUL", V("c"), N(2)>>,
               <<"compound", "ADD", Ix(V("r"), N(0)), V("a")>>, <<"in", S("x"), V("t")>>,
               <<"bitw", "XOR", V("a"), N(6)>>, Un("NEG", V("a")), <<"comma", Inc(V("a")), V("c")>> >>

(* What is done with one.                                                  *)
Uses(e) == << P(e), L("z", e), P(V("z")), Set(V("a"), e), P(V("a")), Set(V("a"), N(1)),
              IfElse(e, P(N(1)), P(N(0))), P(Ix(ArrayOf(<< e >>), N(0))), Set(Dot(V("t"), "x"), e),
              P(Dot(V("t"), "x")), P(Is(Dot(V("t"), "x"), e)), Set(Dot(V("t"), "x"), N(4)), E(e), Set(V("c"), e),
              P(V("c")), Set(V("c"), N(5)), P(<<"eq", "NE", e, N(2)>>), P(Un("NOT", e)), Show(Lt(N(1), e)),
              P(Dot(TableOf(<< <<"x", e>> >>), "x")), Show(Add(N(1), e)), P(Dot(V("t"), "x")),
              <<"switch", e, << << N(2), << P(N(2)), <<"break">> >> >>, << V("a"), << P(N(1)) >> >>,
                                << S("s"), << P(N(3)) >> >> >>, << << P(N(9)) >> >>>>,
              Show(C(Fun(<<"x">>, << Ret(<<"or", V("x"), V("c")>>) >>), << e >>)),
              <<"while", Lt(V("a"), N(3)), Set(V("a"), N(3))>>, Ret(e) >>

Prelude == << L("a", N(1)), L("c", N(5)),
              LocalFun("id", <<"x">>, << Set(V("c"), V("c")), Ret(V("x")) >>),
              Slot(V("g"), N(7)), L("t", TableOf(<< <<"x", N(4)>>, <<"y", V("a")>> >>)),
              L("r", ArrayOf(<< N(8), N(9), V("a") >>)) >>

OperandScripts == [k \in DOMAIN Operands |-> Prelude \o Uses(Operands[k])]

-----------------------------------------------------------------------------
(* Ways out of statements: in the second turn of a loop over i, or in a    *)
(* case of a switch, directly or from inside something else.               *)
Loop_(kind, body) ==
    LET Counted == B(<< E(Inc(V("i"))) >> \o body)
    IN  CASE kind = "while"   -> << L("i", N(0)), <<"while", Lt(V("i"), N(3)), Counted>> >>
          [] kind = "do"      -> << L("i", N(0)), <<"do", Counted, Lt(V("i"), N(3))>> >>
          [] kind = "for"     -> << <<"for", L("i", N(1)), Lt(V("i"), N(4)), Inc(V("i")), B(body)>> >>
          [] kind = "foreach" -> << <<"foreach", "n", "i", ArrayOf(<< N(1), N(2), N(3) >>), B(body)>> >>
          [] kind = "generator" ->
                << LocalFun("gen", <<>>, << Gives(N(1)), Gives(N(2)), Gives(N(3)) >>),
                   <<"foreach", "n", "i", C(V("gen"), <<>>), B(body)>> >>
          [] kind = "switch"  -> << L("i", N(2)), <<"switch", V("i"), << << N(1), << P(N(1)) >> >>, << N(2), body >> >>,
                                                    << << P(N(99)) >> >>>> >>

Kinds == <<"while", "do", "for", "foreach", "generator", "switch">>

Exits == << <<"break">>, <<"continue">>, Ret(N(5)), Throws(N(6)), NoOp >>

Inside(how, exit) ==
    CASE how = "if"    -> << exit >>
      [] how = "try"   -> << Try(<< P(N(20)), exit, P(N(21)) >>, << P(V("e")) >>) >>
      [] how = "tries" -> << Try(<< Try(<< exit >>, << Throws(N(30)) >>), P(N(31)) >>, << P(V("e")) >>) >>
      [] how = "catch" -> << Try(<< Throws(N(40)) >>, << exit >>) >>
      [] how = "switch" -> << <<"switch", N(1), << << N(1), << Try(<< exit >>, << P(N(50)) >>), P(N(51)) >> >> >>, <<>>>> >>
      [] how = "capture" -> << L("k", V("i")), Set(V("last"), Fun(<<>>, << Ret(V("k")) >>)),
                               If(Is(V("k"), N(2)), exit) >>

(* The whole is a function, called where its error is caught.              *)
ExitScript(kind, how, exit) ==
    LET Turn == << P(V("i")) >> \o (IF how = "capture" THEN Inside(how, exit)
                                    ELSE << If(Is(V("i"), N(2)), B(Inside(how, exit))) >>) \o << P(N(10)) >>
    IN  << L("last", Fun(<<>>, << Ret(N(0)) >>)),
           LocalFun("f", <<>>, Loop_(kind, Turn) \o << Ret(N(7)) >>),
           Try(<< P(C(V("f"), <<>>)) >>, << P(V("e")) >>),
           P(C(V("last"), <<>>)) >>

Hows == <<"if", "try", "tries", "catch", "switch", "capture">>

InALoop(kind, exit) == exit[1] = "continue" => kind # "switch"

ExitScripts ==
    LET all == [n \in 0..179 |-> << Kinds[(n % 6) + 1], Hows[((n \div 6) % 6) + 1], Exits[n \div 36 + 1] >>]
    IN  SelectSeq([n \in 1..180 |-> IF InALoop(all[n - 1][1], all[n - 1][3])
                                      THEN ExitScript(all[n - 1][1], all[n - 1][2], all[n - 1][3]) ELSE <<>>],
                  LAMBDA p : p # <<>>)

-----------------------------------------------------------------------------
(* One loop in another: jumps out of the inner one and then of the outer.  *)
NestScript(outer, inner, exit) ==
    LET Named(x, t) == << L(x, V("i")) >> \o t
        In == Loop_(inner, << If(Is(V("i"), N(2)), B(<< Try(<< exit, P(N(60)) >>, << P(N(61)) >>) >>)), P(V("i")) >>)
    IN  Loop_(outer, Named("o", << Try(In \o << If(Is(V("o"), N(2)), exit) >>, << P(V("e")) >>), P(V("o")) >>))
            \o << P(N(70)) >>

NestScripts ==
    LET Loops == <<"while", "do", "for", "foreach", "generator">>
    IN  [n \in 1..50 |-> NestScript(Loops[((n - 1) % 5) + 1], Loops[(((n - 1) \div 5) % 5) + 1],
                                    << IF n > 25 THEN "break" ELSE "continue" >>)]

-----------------------------------------------------------------------------
(* Functions: parameters, recursion, tail calls, stack growth.             *)
Def(f, params, ss) == <<"localfun", f, params, ss>>
V1 == V("x")
V2 == V("y")

Functions ==
    << Def("two", << <<"x", N(1)>>, <<"y", N(2)>> >>, << Ret(Add(V1, V2)) >>),
       P(C(V("two"), <<>>)), P(C(V("two"), << N(5) >>)), P(C(V("two"), << N(5), N(6) >>)),
       Show(C(V("two"), << N(5), N(6), N(7) >>)),
       Def("one", << <<"x">>, <<"y", Dot(TableOf(<< <<"z", N(3)>> >>), "z")>> >>, << Ret(Op("MUL", V1, V2)) >>),
       Show(C(V("one"), <<>>)), P(C(V("one"), << N(4) >>)),
       Def("many", << <<"x">>, <<"...">> >>, << P(C(Dot(V("vargv"), "len"), <<>>)),
           <<"foreach", "k", "v", V("vargv"), P(V("v"))>>, Ret(V1) >>),
       Show(C(V("many"), <<>>)), P(C(V("many"), << N(1) >>)), P(C(V("many"), << N(1), N(2), N(3) >>)),
       Slot(V("fact"), Fun(<<"n">>, << If(Is(V("n"), N(0)), Ret(N(1))),
           Ret(Op("MUL", V("n"), C(V("fact"), << Op("SUB", V("n"), N(1)) >>))) >>)),
       P(C(V("fact"), << N(5) >>)),
       Slot(V("last"), Fun(<<"n">>, << If(Is(V("n"), N(0)), Ret(N(42))),
           Ret(C(V("last"), << Op("SUB", V("n"), N(1)) >>)) >>)),
       P(C(V("last"), << N(4) >>)),
       P(C(<<"lambda", << <<"x">> >>, Add(V1, N(1))>>, << N(8) >>)),
       Show(C(V("print"), <<>>)), Show(C(N(3), <<>>)), Show(V("undefined")),
       <<"const", "K", N(12)>>, <<"const", "W", S("w")>>, P(V("K")), P(V("W")),
       <<"function", "global", << <<"x">> >>, << Ret(V1) >>>>, P(C(V("global"), << N(9) >>)),
       P(C(Dot(<<"root">>, "global"), << N(10) >>)), Show(C(Dot(<<"root">>, "nobody"), <<>>)),
       P(C(<<"cond", T, V("two"), V("one")>>, << N(1) >>)), P(Is(C(Fun(<<>>, <<>>), <<>>), Nil)),
       E(C(V("two"), <<>>)), If(C(V("two"), <<>>), Ret(C(V("two"), << N(30) >>))) >>

(* Recursion over outer variables that are still open when the stack grows.*)
Deep ==
    << L("sum", N(0)), L("all", ArrayOf(<<>>)),
       Slot(V("dive"), Fun(<<"n">>, << L("m", V("n")), E(C(Dot(V("all"), "append"), << Fun(<<>>, << Ret(Inc(V("m"))) >>) >>)),
           If(Lt(N(0), V("n")), E(C(V("dive"), << Op("SUB", V("n"), N(1)) >>))), E(Inc(V("m"))),
           Set(V("sum"), Add(V("sum"), C(Ix(V("all"), N(0)), <<>>))), P(V("m")) >>)),
       E(C(V("dive"), << N(6) >>)), P(V("sum")), <<"foreach", "k", "f", V("all"), P(C(V("f"), <<>>))>> >>

(* Two functions on one variable; one variable for every turn of a loop; a *)
(* variable two functions up; a parameter; the variable of a catch.        *)
Outers ==
    << LocalFun("pair", <<"x">>, << Ret(ArrayOf(<< Fun(<<>>, << Ret(V1) >>), Fun(<<"v">>, << Set(V1, V("v")) >>) >>)) >>),
       L("p", C(V("pair"), << N(1) >>)), L("q", C(V("pair"), << N(2) >>)), E(C(Ix(V("p"), N(1)), << N(9) >>)),
       P(C(Ix(V("p"), N(0)), <<>>)), P(C(Ix(V("q"), N(0)), <<>>)),
       L("fs", ArrayOf(<<>>)),
       <<"for", L("i", N(0)), Lt(V("i"), N(3)), Inc(V("i")),
         B(<< L("j", V("i")), E(C(Dot(V("fs"), "append"), << Fun(<<>>, << Ret(<<"pinc", V("j"), 1>>) >>) >>)) >>)>>,
       <<"foreach", "k", "f", V("fs"), B(<< P(C(V("f"), <<>>)), P(C(V("f"), <<>>)) >>)>>,
       LocalFun("up", <<"x">>, << Ret(Fun(<<"y">>, << L("z", N(3)),
           Ret(Fun(<<>>, << Set(V("z"), Add(V("z"), N(1))), Ret(Add(Add(V1, V2), V("z"))) >>)) >>)) >>),
       L("g", C(C(V("up"), << N(10) >>), << N(20) >>)), P(C(V("g"), <<>>)), P(C(V("g"), <<>>)),
       B(<< L("b", N(1)), Set(V("g"), Fun(<<>>, << Ret(<<"compound", "ADD", V("b"), N(5)>>) >>)), Set(V("b"), N(2)) >>),
       B(<< L("other", N(50)), P(C(V("g"), <<>>)), P(V("other")) >>), P(C(V("g"), <<>>)),
       Try(<< Throws(S("up")) >>, << Set(V("g"), Fun(<<>>, << Ret(V("e")) >>)) >>), P(C(V("g"), <<>>)),
       LocalFun("tail", <<"x">>, << Set(V("g"), Fun(<<>>, << Ret(V1) >>)), Ret(C(V("g"), <<>>)) >>), P(C(V("tail"), << N(4) >>)),
       <<"switch", N(1), << << N(1), << L("s", N(11)), Set(V("g"), Fun(<<>>, << Ret(V("s")) >>)), <<"break">> >> >> >>, <<>>>>,
       P(C(V("g"), <<>>)), <<"while", T, B(<< L("w", N(12)), Set(V("g"), Fun(<<>>, << Ret(V("w")) >>)), <<"break">> >>)>>,
       P(C(V("g"), <<>>)) >>

-----------------------------------------------------------------------------
Generators ==
    << LocalFun("count", <<"n">>, << <<"for", L("i", N(0)), Lt(V("i"), V("n")), Inc(V("i")), Gives(V("i"))>>, Ret(N(77)) >>),
       L("g", C(V("count"), << N(2) >>)), P(Un("RESUME", V("g"))), P(Un("RESUME", V("g"))), P(Un("RESUME", V("g"))),
       Show(Un("RESUME", V("g"))), <<"foreach", "k", "v", C(V("count"), << N(3) >>), B(<< P(V("k")), P(V("v")) >>)>>,
       LocalFun("careful", <<>>, << Try(<< Gives(N(1)), Try(<< Gives(N(2)), Throws(S("in")) >>, << P(V("e")), Gives(N(3)) >>),
           Throws(S("out")) >>, << Gives(V("e")) >>), Throws(S("last")) >>),
       L("h", C(V("careful"), <<>>)), Try(<< P(Un("RESUME", V("h"))), P(Un("RESUME", V("h"))), P(Un("RESUME", V("h"))) >>, <<>>),
       P(Un("RESUME", V("h"))), Show(Un("RESUME", V("h"))), Show(Un("RESUME", V("h"))), Show(Un("RESUME", N(1))),
       LocalFun("empty", <<>>, << If(F, Gives(Nil)) >>),
       <<"foreach", "k", "v", C(V("empty"), <<>>), P(V("v"))>>,
       LocalFun("nested", <<>>, << L("in", C(V("count"), << N(2) >>)), Gives(Un("RESUME", V("in"))), Gives(Un("RESUME", V("in"))) >>),
       LocalFun("bad", <<>>, << Gives(N(1)), Throws(N(66)) >>),
       Try(<< <<"foreach", "k", "v", C(V("bad"), <<>>), P(V("v"))>> >>, << P(V("e")) >>),
       <<"foreach", "k", "v", C(V("nested"), <<>>), P(V("v"))>>,
       Try(<< <<"foreach", "k", "v", N(1), NoOp>> >>, << P(V("e")) >>) >>

-----------------------------------------------------------------------------
(* Tables, delegates and metamethods, each of which may fail.              *)
Delegate == TableOf(<< <<"z", N(26)>>,
    <<"_get", Fun(<<"k">>, << If(Is(V("k"), S("made")), Ret(N(1))), If(Is(V("k"), S("bad")), Throws(S("get"))), Throws(Nil) >>)>>,
    <<"_set", Fun(<<"k", "v">>, << If(Is(V("k"), S("bad")), Throws(S("set"))), P(V("k")), P(V("v")) >>)>>,
    <<"_newslot", Fun(<<"k", "v">>, << P(V("v")) >>)>>,
    <<"_delslot", Fun(<<"k">>, << P(V("k")), Ret(N(3)) >>)>>,
    <<"_add", Fun(<<"o">>, << Ret(Add(Dot(V("this"), "x"), V("o"))) >>)>>,
    <<"_modulo", Fun(<<"o">>, << Ret(V("o")) >>)>>,
    <<"_unm", Fun(<<>>, << Ret(Un("NEG", Dot(V("this"), "x"))) >>)>>,
    <<"_typeof", Fun(<<>>, << Ret(S("special")) >>)>>,
    <<"_cloned", Fun(<<"o">>, << P(Dot(V("o"), "x")) >>)>>,
    <<"_call", Fun(<<"env", "v">>, << Try(<< Throws(V("v")) >>, << Ret(Add(V("e"), Dot(V("this"), "x"))) >>) >>)>> >>)

Made == << L("d", Delegate), L("t", TableOf(<< <<"x", N(5)>> >>)), E(C(Dot(V("t"), "setdelegate"), << V("d") >>)) >>

Metamethods == Made \o
    << P(Dot(V("t"), "x")), P(Dot(V("t"), "z")), P(Dot(V("t"), "made")), Show(Dot(V("t"), "bad")), Show(Dot(V("t"), "none")),
       Set(Dot(V("t"), "z"), N(27)), P(Dot(V("d"), "z")), Set(Dot(V("t"), "new"), N(8)),
       Try(<< Set(Dot(V("t"), "bad"), N(8)) >>, << P(V("e")) >>), Slot(Dot(V("t"), "new"), N(4)), Slot(Dot(V("t"), "x"), N(6)),
       P(<<"in", S("new"), V("t")>>), P(<<"in", S("x"), V("t")>>), P(<<"in", N(1), N(1)>>), P(<<"in", N(1), ArrayOf(<< N(1), N(2) >>)>>),
       P(<<"delete", Dot(V("t"), "x")>>), P(Add(V("t"), N(1))), P(Op("MOD", V("t"), N(2))), P(Un("NEG", V("t"))), P(Un("TYPEOF", V("t"))),
       Show(Op("SUB", V("t"), N(1))), L("u", Un("CLONE", V("t"))), Set(Dot(V("u"), "x"), N(1)), P(Dot(V("t"), "x")),
       P(C(V("t"), << N(2) >>)), Show(C(V("t"), <<>>)), E(Inc(Dot(V("t"), "x"))), P(Dot(V("t"), "x")) >>

(* A metamethod that fails while the caller has traps of its own, is       *)
(* called from a generator, or at the end of the stack.                    *)
Fails == Made \o
    << LocalFun("f", <<>>, << Try(<< Try(<< P(Dot(V("t"), "bad")) >>, << Throws(Add(V("e"), S("!"))) >>) >>, << Ret(V("e")) >>) >>),
       P(C(V("f"), <<>>)),
       LocalFun("g", <<>>, << Gives(Dot(V("t"), "made")), Try(<< P(N(0)) >>, <<>>), Gives(Dot(V("t"), "none")) >>),
       L("h", C(V("g"), <<>>)), P(Un("RESUME", V("h"))), Show(Un("RESUME", V("h"))), Show(Un("RESUME", V("h"))),
       Set(Dot(V("d"), "_sub"), N(1)) >>

DeepMeta == Made \o
    << Slot(Dot(V("d"), "_sub"), Fun(<<"n">>, << If(Is(V("n"), N(0)), Ret(N(0))), Ret(Op("SUB", V("this"), Op("ADD", V("n"), N(-1)))) >>)),
       Try(<< P(Op("SUB", V("t"), N(1))) >>, <<>>), Try(<< E(Op("SUB", V("t"), N(12))) >>, <<>>), P(N(1)) >>

(* Fields of this are fields of the root table too, when this has none.    *)
This ==
    << Slot(V("g"), N(3)), L("o", TableOf(<< <<"x", N(1)>>, <<"f", Fun(<<>>, << P(V("g")), Set(V("g"), N(4)), P(V("x")), E(Inc(V("x"))),
           E(Inc(V("g"))), P(V("nowhere")) >>)>> >>)),
       Try(<< E(C(Dot(V("o"), "f"), <<>>)) >>, << P(V("e")) >>), P(V("g")), P(Dot(V("o"), "x")),
       Slot(Dot(V("o"), "h"), Fun(<<>>, << P(V("g")), P(V("x")), P(V("nowhere")) >>)),
       E(C(Dot(V("o"), "setdelegate"), << TableOf(<< <<"_get", Fun(<<"k">>, << Throws(Nil) >>)>> >>) >>)),
       Try(<< E(C(Dot(V("o"), "h"), <<>>)) >>, << P(V("e")) >>), Show(Dot(V("o"), "g")),
       E(<<"delete", Dot(V("o"), "f")>>), Show(<<"delete", Dot(V("o"), "q")>>), Show(<<"delete", Ix(N(1), N(1))>>),
       Show(C(Dot(V("o"), "f"), <<>>)), Show(<<"set", Dot(N(1), "x"), N(2)>>), Show(<<"set", Dot(TableOf(<<>>), "x"), N(2)>>),
       Show(<<"newslot", Dot(N(1), "x"), N(2)>>), Show(<<"set", Ix(ArrayOf(<<>>), N(0)), N(2)>>), Show(Inc(Dot(TableOf(<<>>), "y"))),
       Show(<<"compound", "ADD", Dot(V("o"), "x"), Nil>>), Show(Un("CLONE", N(1))), Show(Un("NEG", Nil)), Show(Op("DIV", N(-7), N(2))),
       Show(Op("DIV", N(1), N(0))), Show(Op("MOD", N(-7), N(2))), Show(Op("MUL", Nil, N(1))), Show(<<"bitw", "AND", N(6), N(3)>>),
       Show(<<"bitw", "OR", N(6), N(3)>>), Show(<<"bitw", "SHIFTL", N(6), N(3)>>), Show(<<"bitw", "SHIFTR", N(6), N(1)>>),
       Show(<<"bitw", "AND", N(6), Nil>>), Show(Lt(N(1), Nil)), Show(Lt(N(1), S("x"))), Show(<<"cmp", "<=", N(1), N(1)>>),
       Show(<<"cmp", ">", Nil, N(1)>>), Show(<<"cmp", ">=", N(1), N(2)>>), Show(<<"cmp", "<=>", N(1), N(2)>>), Show(Ix(ArrayOf(<<>>), N(0))),
       Show(Un("TYPEOF", Nil)), L("n", Nil), Show(Inc(V("n"))), P(C(Dot(ArrayOf(<< N(1) >>), "len"), <<>>)),
       L("p", N(1)), L("q", N(2)), <<"local", "m", <<>>>>, <<"local", "k", <<>>>>, Set(V("m"), V("p")), P(Add(V("m"), V("q"))) >>

(* Errors nobody catches: thrown, met, and in a metamethod.                *)
Uncaught == << << L("f", Fun(<<"x">>, << Try(<< P(V1) >>, <<>>), Throws(V1) >>)), E(C(V("f"), << N(3) >>)), P(N(4)) >>,
               << Try(<< Throws(N(1)) >>, << P(V("e")), P(Dot(V("e"), "x")) >>), P(N(4)) >>,
               Made \o << P(Dot(V("t"), "bad")) >>, << E(C(V("print"), <<>>)) >>,
               << LocalFun("g", <<>>, << Gives(N(1)), Throws(N(2)) >>), <<"foreach", "k", "v", C(V("g"), <<>>), P(V("v"))>> >> >>

(* Loops that change nothing but the flag that ends them.                  *)
Flags ==
    LET Off == <<"set", V("go"), F>>
        Turn == B(<< E(Off), <<"continue">> >>)
    IN  << L("go", T), <<"do", Turn, V("go")>>, Set(V("go"), T), <<"while", <<"and", V("go"), T>>, Turn>>, Set(V("go"), T),
           <<"for", L("i", N(0)), V("go"), Off, B(<< <<"continue">> >>)>>, P(V("go")) >>

-----------------------------------------------------------------------------
(* Classes.  A member is a key, a value and whether it is static.          *)
Field_(x, e) == << S(x), e, FALSE >>
Static_(x, e) == << S(x), e, TRUE >>
Method_(x, xs, ss) == Field_(x, Fun(xs, ss))
Class(x, base, members) == <<"class", V(x), base, members>>
This_(f) == Dot(V("this"), f)
Of(o, f, args) == C(Dot(o, f), args)
BaseCall(f, args) == Of(<<"base">>, f, args)
IsA(o, c) == <<"instanceof", o, c>>
Tries(s) == Try(<< s >>, << P(V("e")) >>)

ClassA == Class("A", <<>>,
    << Field_("x", N(1)), Field_("list", ArrayOf(<<>>)), Static_("count", N(10)),
       Method_("constructor", <<"v">>, << Set(V("x"), V("v")), Ret(N(99)) >>),
       Method_("get", <<>>, << Ret(V("x")) >>),
       Method_("grow", <<"v">>, << E(Of(V("list"), "append", << V("v") >>)), Ret(Of(V("list"), "len", <<>>)) >>),
       Method_("step", <<>>, << E(Inc(V("x"))), E(<<"compound", "ADD", This_("x"), N(2)>>), Ret(<<"pinc", V("x"), 1>>) >>) >>)

Classes == << ClassA,
    L("a", C(V("A"), << N(5) >>)), L("b", C(V("A"), << N(6) >>)), P(Of(V("a"), "get", <<>>)), P(Of(V("b"), "get", <<>>)),
    P(Of(V("a"), "grow", << N(1) >>)), P(Of(V("b"), "grow", << N(2) >>)), P(Dot(V("A"), "x")), P(Dot(V("A"), "count")), P(Dot(V("a"), "count")),
    Set(Dot(V("a"), "x"), N(7)), P(Of(V("a"), "step", <<>>)), P(Dot(V("a"), "x")), P(Dot(V("b"), "x")),
    Tries(Set(Dot(V("a"), "y"), N(1))), Tries(Set(Dot(V("a"), "get"), N(1))), Tries(Set(Dot(V("A"), "x"), N(3))), Tries(Slot(Dot(V("A"), "z"), N(1))),
    Tries(Slot(Dot(V("a"), "y"), N(1))), Show(<<"delete", Dot(V("a"), "x")>>), Show(<<"delete", Dot(V("A"), "x")>>),
    Slot(Dot(V("A"), "twice"), Fun(<<>>, << Ret(Op("MUL", V("x"), N(2))) >>)), P(Of(V("a"), "twice", <<>>)),
    P(<<"in", S("x"), V("a")>>), P(<<"in", S("get"), V("a")>>), P(<<"in", S("q"), V("a")>>), P(<<"in", S("x"), V("A")>>),
    P(Un("TYPEOF", V("a"))), P(Un("TYPEOF", V("A"))), L("c", Un("CLONE", V("a"))), Set(Dot(V("c"), "x"), N(70)), P(Dot(V("a"), "x")),
    P(Of(V("c"), "get", <<>>)), P(Of(V("c"), "grow", << N(3) >>)), Show(Un("CLONE", V("A"))),
    P(IsA(V("a"), V("A"))), P(IsA(N(3), V("A"))), Show(IsA(V("a"), N(3))), Show(C(V("A"), <<>>)), Show(Dot(V("A"), "none")),
    P(Is(Of(V("a"), "getclass", <<>>), V("A"))), P(Is(Of(V("A"), "getbase", <<>>), Nil)), P(Is(V("a"), V("a"))), P(Is(V("a"), V("c"))),
    Show(C(V("a"), <<>>)), Show(Add(V("a"), N(1))), Show(Un("NEG", V("A"))), Show(<<"newslot", Ix(V("A"), Nil), N(1)>>),
    Class("N", <<>>, << <<S("x"), Nil, FALSE>> >>), P(Is(Dot(C(V("N"), << N(1), N(2) >>), "x"), Nil)),
    Tries(Class("M", <<>>, << << Nil, N(1), FALSE >> >>)) >>

ClassB == Class("B", V("A"),
    << Field_("y", N(0)), Method_("constructor", <<"v">>, << E(BaseCall("constructor", << Add(V("v"), N(1)) >>)), Set(V("y"), N(2)) >>),
       Method_("get", <<>>, << Ret(Op("MUL", BaseCall("get", <<>>), N(10))) >>),
       Method_("inner", <<>>, << Ret(C(Fun(<<>>, << Ret(<<"base">>) >>), <<>>)) >>),
       Method_("none", <<>>, << Ret(Dot(<<"base">>, "nothing")) >>) >>)

Inheritance == << ClassA, ClassB, Class("D", V("B"), << Method_("get", <<>>, << Ret(Add(Of(<<"base">>, "get", <<>>), N(1))) >>) >>),
    L("b", C(V("B"), << N(3) >>)), L("d", C(V("D"), << N(4) >>)), P(Dot(V("b"), "x")), P(Dot(V("b"), "y")), P(Of(V("b"), "get", <<>>)),
    P(Of(V("d"), "get", <<>>)), P(Is(Of(V("d"), "inner", <<>>), Nil)), Show(Of(V("d"), "none", <<>>)),
    P(IsA(V("d"), V("A"))), P(IsA(V("d"), V("D"))), P(IsA(V("b"), V("D"))), P(Is(Of(V("D"), "getbase", <<>>), V("B"))),
    P(Is(Dot(V("D"), "grow"), Dot(V("A"), "grow"))), P(Is(Dot(V("D"), "get"), Dot(V("B"), "get"))), P(Dot(V("D"), "count")),
    L("f", Fun(<<>>, << Ret(<<"base">>) >>)), P(Is(C(V("f"), <<>>), Nil)), Tries(Slot(Dot(V("A"), "late"), N(1))),
    Slot(Dot(V("A"), "late"), V("f")), Show(Of(V("b"), "late", <<>>)), Slot(Dot(V("B"), "late"), V("f")), P(Is(Of(V("b"), "late", <<>>), V("A"))),
    P(Is(C(V("f"), <<>>), Nil)), Tries(Class("Q", N(3), <<>>)), Tries(Class("Q", V("b"), <<>>)), Show(Of(<<"base">>, "get", <<>>)),
    Class("G", V("A"), << Field_("x", N(50)), Field_("get", N(51)), Method_("count", <<>>, << Ret(N(52)) >>), Static_("grow", N(53)),
                          Method_("list", <<>>, << Ret(Is(<<"base">>, Nil)) >>) >>),
    L("g", C(V("G"), << N(54) >>)), P(Dot(V("g"), "x")), P(Dot(V("g"), "get")), P(Of(V("g"), "count", <<>>)), P(Dot(V("g"), "grow")),
    P(Of(V("g"), "list", <<>>)), P(Dot(V("G"), "x")), P(Dot(V("A"), "count")), Set(Dot(V("g"), "get"), N(55)), P(Dot(V("g"), "get")),
    Slot(Dot(V("G"), "x"), Fun(<<>>, <<>>)), P(Dot(V("g"), "x")), P(Un("TYPEOF", Dot(C(V("G"), << N(1) >>), "get"))),
    L("H", <<"class", V("A"), << Static_("constructor", N(1)), Field_("z", ArrayOf(<< N(8) >>)) >> >>),
    P(Ix(Dot(C(V("H"), << N(1), N(2) >>), "z"), N(0))) >>

(* Constructors that throw, make another instance, loop, or are native.    *)
Constructors == << L("made", N(0)),
    Class("K", <<>>, << Field_("n", N(0)), Method_("constructor", <<"n">>,
        << Set(V("made"), Add(V("made"), N(1))), Set(V("n"), Op("MUL", V("n"), N(2))), Set(This_("n"), V("n")),
           If(Is(V("n"), N(6)), Throws(S("three"))), If(Lt(N(10), V("n")), Ret(C(V("K"), << N(1) >>))) >>) >>),
    Try(<< P(Dot(C(V("K"), << N(1) >>), "n")), P(Dot(C(V("K"), << N(3) >>), "n")) >>, << P(V("e")) >>), P(Dot(C(V("K"), << N(9) >>), "n")), P(V("made")),
    LocalFun("make", <<"n">>, << Ret(C(V("K"), << V("n") >>)) >>), P(Dot(C(V("make"), << N(4) >>), "n")),
    E(C(V("K"), << N(2) >>)), <<"foreach", "i", "v", ArrayOf(<< N(1), N(2) >>), B(<< L("k", C(V("K"), << V("v") >>)), P(Dot(V("k"), "n")) >>)>>,
    Class("W", <<>>, << << S("constructor"), V("print"), FALSE >>, Static_("make", C(V("K"), << N(5) >>)),
        Method_("gen", <<"n">>, << <<"for", L("i", N(0)), Lt(V("i"), V("n")), Inc(V("i")), Gives(Dot(Dot(V("this"), "make"), "n"))>> >>) >>),
    E(C(V("W"), << N(31) >>)), Show(C(V("W"), <<>>)), L("w", C(V("W"), << N(32) >>)),
    <<"foreach", "i", "v", Of(V("w"), "gen", << N(2) >>), P(V("v"))>>,
    L("o", TableOf(<< <<"in", N(1)>> >>)), <<"class", Dot(V("o"), "Z"), V("K"), << Method_("constructor", <<>>, <<>>) >>>>,
    P(Dot(C(Dot(V("o"), "Z"), <<>>), "n")), Slot(V("glob"), N(1)),
    Class("R", <<>>, << Method_("constructor", <<>>, << Set(V("glob"), N(2)), Set(V("nowhere"), N(1)) >>) >>), Show(C(V("R"), <<>>)), P(V("glob")),
    L("cl", Fun(<<"x">>, << Ret(<<"class", <<>>, << Field_("z", V("x")), Method_("get", <<>>, << Ret(<<"pinc", V("x"), 1>>) >>) >> >>) >>)),
    L("c1", C(C(V("cl"), << N(20) >>), <<>>)), L("c2", C(C(V("cl"), << N(30) >>), <<>>)), P(Of(V("c1"), "get", <<>>)), P(Of(V("c1"), "get", <<>>)),
    P(Of(V("c2"), "get", <<>>)), P(Dot(V("c2"), "z")) >>

(* Metamethods of classes, in the instances of the classes that inherit.   *)
ClassMeta == << Slot(V("g"), N(3)), L("_d", Delegate),
    Class("A", <<>>, << Field_("x", N(5)),
       Method_("_get", <<"k">>, << If(Is(V("k"), S("made")), Ret(N(1))), If(Is(V("k"), S("bad")), Throws(S("get"))), Throws(Nil) >>),
       Method_("_set", <<"k", "v">>, << If(Is(V("k"), S("bad")), Throws(S("set"))), P(V("k")), P(V("v")) >>),
       Method_("_newslot", <<"k", "v">>, << P(V("v")) >>), Method_("_delslot", <<"k">>, << P(V("k")), Ret(N(3)) >>),
       Method_("_add", <<"o">>, << Ret(Add(V("x"), V("o"))) >>), Method_("_unm", <<>>, << Ret(Un("NEG", This_("x"))) >>),
       Method_("_typeof", <<>>, << Ret(S("special")) >>), Method_("_cloned", <<"o">>, << P(Dot(V("o"), "x")), Set(This_("x"), N(9)) >>),
       Method_("_call", <<"env", "v">>, << Try(<< Throws(V("v")) >>, << Ret(Add(V("e"), V("x"))) >>) >>),
       Method_("see", <<>>, << P(V("g")), P(V("made")), P(V("nowhere")) >>) >>),
    Class("B", V("A"), << Method_("_add", <<"o">>, << Ret(<<"base">>) >>), Field_("_mul", N(7)) >>),
    L("a", C(V("A"), <<>>)), L("b", C(V("B"), <<>>)),
    P(Dot(V("a"), "x")), P(Dot(V("a"), "made")), Show(Dot(V("a"), "bad")), Show(Dot(V("a"), "none")), Show(Dot(V("A"), "made")), Show(Dot(V("A"), "_add")),
    Set(Dot(V("a"), "new"), N(8)), Tries(Set(Dot(V("b"), "bad"), N(8))), Slot(Dot(V("b"), "new"), N(4)), Slot(Dot(V("b"), "x"), N(6)), P(Dot(V("b"), "x")),
    P(<<"delete", Dot(V("a"), "x")>>), P(Add(V("a"), N(1))), P(Is(Add(V("b"), N(1)), Nil)), P(Un("NEG", V("b"))), P(Un("TYPEOF", V("b"))),
    P(Un("TYPEOF", V("B"))), Show(Op("MUL", V("b"), N(1))), P(Dot(V("b"), "_mul")), L("c", Un("CLONE", V("a"))), P(Dot(V("c"), "x")), P(Dot(V("a"), "x")),
    P(C(V("b"), << N(2) >>)), Show(C(V("a"), <<>>)), Tries(E(Of(V("a"), "see", <<>>))) >>

(* _inherited and _newmember, which may throw; the class is left as it was.*)
ClassHooks ==
    << Class("A", <<>>, << Field_("x", N(1)),
         Method_("_inherited", <<"attrs">>, << P(Is(V("attrs"), Nil)), Slot(This_("tag"), N(5)) >>),
         Method_("_newmember", <<"k", "v", "attrs", "static">>,
             << P(V("k")), P(V("static")), If(Is(V("k"), S("bad")), Throws(S("member"))),
                IfElse(Is(V("k"), S("skip")), Ret(N(0)), Slot(Ix(V("this"), V("k")), V("v"))) >>),
         Method_("after", <<>>, << Ret(V("x")) >>) >>),
       Class("B", V("A"), << Field_("y", N(2)), Static_("z", N(3)), Field_("skip", N(4)), Method_("f", <<>>, << Ret(BaseCall("after", <<>>)) >>) >>),
       L("b", C(V("B"), <<>>)), P(Dot(V("b"), "tag")), P(Dot(V("b"), "y")), P(Dot(V("b"), "z")), Show(Dot(V("b"), "skip")), P(Of(V("b"), "f", <<>>)),
       Tries(Class("Bad", V("A"), << Field_("q", N(1)), Field_("bad", N(2)) >>)), Show(V("Bad")),
       Class("I", <<>>, << Method_("_inherited", <<"attrs">>, << Try(<< Throws(N(1)) >>, << Throws(S("heir")) >>) >>) >>),
       Tries(Class("J", V("I"), <<>>)), Show(V("J")), Class("O", <<>>, << Method_("_inherited", <<>>, <<>>) >>), Tries(Class("J", V("O"), <<>>)),
       LocalFun("heir", <<>>, << Class("J", V("I"), <<>>) >>), Tries(E(C(V("heir"), <<>>))), P(N(0)) >>

UncaughtClass == << Class("A", <<>>, << Method_("_inherited", <<"attrs">>, << Throws(S("heir")) >>) >>), Try(<< P(N(1)) >>, <<>>), Class("B", V("A"), <<>>), P(N(2)) >>

(* Metamethods for ++ and -- of a local variable, and for a % that fails.  *)
Delegated(x, slots) == << L(x, TableOf(<< <<"x", N(5)>> >>)), E(C(Dot(V(x), "setdelegate"), << TableOf(slots) >>)) >>

LocalMeta == Made \o Delegated("w", << <<"_add", Fun(<<"o">>, << Throws(S("add")) >>)>>,
                                       <<"_modulo", Fun(<<"o">>, << Try(<< Throws(N(1)) >>, << Throws(S("modulo")) >>) >>)>> >>) \o
    << L("n", V("t")), E(Inc(V("n"))), P(V("n")), Set(V("n"), V("t")), P(<<"inc", V("n"), -1>>), Set(V("n"), V("t")),
       L("o", <<"pinc", V("n"), 1>>), P(V("n")), P(Dot(V("o"), "x")), Set(V("n"), V("w")), Show(Inc(V("n"))), Show(<<"pinc", V("n"), 1>>),
       P(Dot(V("n"), "x")), LocalFun("f", <<"a">>, << Try(<< E(Op("MOD", V("a"), N(0))), P(N(2)) >>, << P(V("e")) >>), Ret(N(3)) >>),
       P(C(V("f"), << V("w") >>)), P(C(V("f"), << Nil >>)), P(C(V("f"), << N(1) >>)), E(Op("MOD", V("w"), N(1))), E(Op("MOD", Nil, N(1))) >>

(* Metamethods that are generators or functions of the library.            *)
OtherMeta ==
    << Delegated("v", << <<"_unm", Fun(<<>>, << Gives(Dot(V("this"), "x")), Gives(N(2)) >>)>>,
                         <<"_get", Fun(<<"k">>, << Gives(V("k")) >>)>>, <<"_set", Fun(<<"k", "v">>, << Gives(P(V("v"))[2]) >>)>> >>)
         \o << L("g", Un("NEG", V("v"))), L("h", Dot(V("v"), "q")), P(Un("RESUME", V("g"))), P(Un("RESUME", V("h"))), P(Un("RESUME", V("g"))),
                Set(Dot(V("v"), "new"), N(8)), P(Un("TYPEOF", V("h"))), Show(Un("RESUME", Un("NEG", V("v")))) >>,
       Delegated("v", << <<"_get", V("print")>>, <<"_add", V("print")>>, <<"_unm", V("print")>>, <<"_set", V("print")>> >>)
         \o << P(Is(Dot(V("v"), "q"), Nil)), P(Is(Add(V("v"), N(4)), Nil)), Show(Un("NEG", V("v"))), Tries(Set(Dot(V("v"), "new"), N(8))),
                L("n", V("v")), E(Inc(V("n"))), P(Is(V("n"), Nil)) >> >>

(* Metamethods in metamethods up to the limit of nested calls.             *)
Nested ==
    << L("n", N(12)), Class("I", <<>>, << Method_("_inherited", <<"attrs">>,
          << Set(V("n"), Op("SUB", V("n"), N(1))), If(Lt(N(0), V("n")), E(<<"class", V("I"), <<>>>>)) >>) >>),
       Try(<< E(<<"class", V("I"), <<>>>>) >>, <<>>), Set(V("n"), N(2)), E(<<"class", V("I"), <<>>>>), P(V("n")) >>

(* Arrays to sort: with all repetitions up to 3, all permutations of 4.    *)
Sorting(arrays) ==
    << LocalFun("show", <<"a">>, << E(Of(V("a"), "sort", <<>>)), <<"foreach", "k", "v", V("a"), P(V("v"))>> >>) >>
        \o [k \in DOMAIN arrays |-> E(C(V("show"), << ArrayOf([i \in DOMAIN arrays[k] |-> N(arrays[k][i])]) >>))]
        \o << Tries(E(C(V("show"), << ArrayOf(<< N(2), S("x"), N(1) >>) >>))), Tries(E(C(V("show"), << ArrayOf(<< N(2), N(3), S("x") >>) >>))),
               E(C(V("show"), << ArrayOf(<< N(2), Nil, N(-1), Nil >>) >>)) >>

SortScripts ==
    LET Listed(arrays) == FoldSet(LAMBDA a, list : Append(list, a), <<>>, arrays)
        Few == Listed(UNION { [1..n -> 1..3] : n \in 2..3 })
        Four == Listed({ p \in [1..4 -> 1..4] : \A i, j \in 1..4 : p[i] = p[j] => i = j })
    IN  << Sorting(Few), Sorting(Four),
           Sorting(<< <<>>, << 3 >>, << 4, 1, 6, 3, 2, 7, 5 >>, << 7, 6, 5, 4, 3, 2, 1, 0 >>, << 1, 2, 3, 4, 5 >> >>) >>

MCPrograms ==
    OperandScripts \o ExitScripts \o NestScripts \o Uncaught \o << Flags >>
        \o << Functions, Deep, Outers, Generators, Metamethods, Fails, DeepMeta, This, LocalMeta, Nested >> \o OtherMeta
        \o << Classes, Inheritance, Constructors, ClassMeta, ClassHooks, UncaughtClass >> \o SortScripts

Compiled == [p \in DOMAIN MCPrograms |-> Compile(MCPrograms[p])]
Meant == [p \in DOMAIN MCPrograms |-> Meaning(MCPrograms[p])]
MCCode == LET code == Compiled IN code
MCMeanings == LET meanings == Meant IN meanings

(* Generators that yield inside a try, iterated by foreach to their end,   *)
(* to an error or to a break.                                              *)
TrapScript(ending, exit) ==
    << LocalFun("gen", <<>>, << Try(<< Gives(N(1)), Gives(N(2)), ending >>, << P(V("e")) >>) >>),
       <<"foreach", "k", "v", C(V("gen"), <<>>), B(<< P(V("v")), If(Is(V("v"), N(2)), exit) >>)>>, P(N(0)) >>

TrapScripts ==
    << TrapScript(NoOp, NoOp), TrapScript(Throws(N(9)), NoOp), TrapScript(NoOp, <<"break">>), TrapScript(NoOp, Throws(N(8))) >>
CompiledTraps == [p \in DOMAIN TrapScripts |-> Compile(TrapScripts[p])]
MeantTraps == [p \in DOMAIN TrapScripts |-> Meaning(TrapScripts[p])]
TrapCode == LET code == CompiledTraps IN code
TrapMeanings == LET meanings == MeantTraps IN meanings
=============================================================================
