-------------------------- MODULE SquirrelCompiler --------------------------
(***************************************************************************)
(* The one-pass compiler of the scripts: SQCompiler, which emits code while *)
(* it parses, and SQFuncState, which allocates registers and improves the  *)
(* code as it is emitted.  The input is a syntax tree: what the lexer and  *)
(* the parser recognise is given.  A tree is a tuple with its kind first;  *)
(* every statement is on a line of its own.  A constant stands in its      *)
(* instruction, not in a table of literals.                                *)
(***************************************************************************)
EXTENDS SquirrelValues


Local(name) == [name |-> name, outer |-> FALSE]     \* "" is a temporary

(* SQFuncState, with the scope and the expression state of SQCompiler.     *)
FuncState(level, parent, params, varparams, consts) ==
    [ins |-> <<>>, locals |-> FoldLeft(LAMBDA ls, p : Append(ls, Local(p)), <<>>, params), targets |-> <<>>,
     stacksize |-> Len(params), breaks |-> <<>>, continues |-> <<>>, breaktargets |-> <<>>,
     continuetargets |-> <<>>, traps |-> 0, opt |-> TRUE, functions |-> <<>>,
     outervalues |-> <<>>, returnexp |-> 1, gen |-> FALSE, nparams |-> Len(params),
     varparams |-> varparams, defaults |-> <<>>, scope |-> 0, etype |-> "EXPR", epos |-> 0,
     consts |-> consts, level |-> level, parent |-> parent]

(* GetCurrentPos: where the last instruction is, counted from 1.           *)
Pos(c) == Len(c.ins)

IsLocal(c, r) == r < Len(c.locals) /\ c.locals[r + 1].name # ""

-----------------------------------------------------------------------------
(* Registers.  An expression leaves its result in the top target, which is *)
(* a temporary or the register of a local variable.                        *)
AddLocal(c, name) ==
    [c EXCEPT !.locals = Append(@, Local(name)), !.stacksize = Max({@, Len(c.locals) + 1})]

(* The registers of a function are all taken: the compiler gives up.       *)
TooManyLocals(c) == Len(c.locals) > NONE

PushTarget(c) == [AddLocal(c, "") EXCEPT !.targets = Append(@, Len(c.locals))]
PushTargetAt(c, r) == [c EXCEPT !.targets = Append(@, r)]
UpTarget(c, n) == c.targets[Len(c.targets) - n]
Top(c) == UpTarget(c, 0)

PopTarget(c) ==
    [c EXCEPT !.targets = Front(@), !.locals = IF IsLocal(c, Top(c)) THEN @ ELSE Front(@)]

RECURSIVE PopTargets(_, _)
PopTargets(c, n) == IF n = 0 THEN c ELSE PopTargets(PopTarget(c), n - 1)

(* The register of the innermost variable of that name, or -1.             *)
GetLocalVariable(c, x) == SelectLastInSeq(c.locals, LAMBDA l : l.name = x) - 1

(* The index of a variable of an enclosing function among the outer values *)
(* of this one, or -1, and c with it added.                                *)
RECURSIVE GetOuterVariable(_, _)
GetOuterVariable(c, x) ==
    LET known == SelectInSeq(c.outervalues, LAMBDA o : o.name = x)
        up    == GetOuterVariable(c.parent, x)
        reg   == GetLocalVariable(c.parent, x)
        Found(d, type, src) ==
            [c   |-> [d EXCEPT !.outervalues = Append(@, [name |-> x, type |-> type, src |-> src])],
             pos |-> Len(c.outervalues)]
    IN  IF known # 0 THEN [c |-> c, pos |-> known - 1]
        ELSE IF c.level = 0 THEN [c |-> c, pos |-> -1]
        ELSE IF reg # -1 THEN Found([c EXCEPT !.parent.locals[reg + 1].outer = TRUE], "LOCAL", reg)
        ELSE IF up.pos # -1 THEN Found([c EXCEPT !.parent = up.c], "OUTER", up.pos)
        ELSE [c |-> c, pos |-> -1]

-----------------------------------------------------------------------------
FaultySnoozeOpt(c) == c

(* Instructions.  Emit improves on the last instruction unless something   *)
(* may jump between it and the new one: opt is FALSE then.                 *)
SnoozeOpt(c) == [c EXCEPT !.opt = FALSE]

Loads == {"LOAD", "LOADINT", "LOADBOOL"}
Retargetable == {"GET", "ADD", "SUB", "MUL", "DIV", "MOD", "BITW"} \cup Loads

Push(c, i) == [c EXCEPT !.ins = Append(@, i), !.opt = TRUE]

Emit(c, op, a0, a1, a2, a3) ==
    LET i == [op |-> op, a0 |-> a0, a1 |-> a1, a2 |-> a2, a3 |-> a3]
        p == Last(c.ins)
        Instead(q) == [c EXCEPT !.ins[Pos(c)] = q]
        Temporary(r) == p.a0 = r /\ ~IsLocal(c, r)
    IN  CASE Pos(c) = 0 \/ ~c.opt -> Push(c, i)
          [] op = "JZ" /\ p.op = "CMP" ->
                Instead([p EXCEPT !.op = "JCMP", !.a0 = p.a1, !.a1 = a1])
          [] op \in {"SET", "NEWSLOT"} /\ a0 = a3 -> Push(c, [i EXCEPT !.a0 = NONE])
          [] op = "SETOUTER" /\ a0 = a2 -> Push(c, [i EXCEPT !.a0 = NONE])
          [] op = "RETURN" /\ p.op = "CALL" /\ c.level > 0 /\ a0 # NONE /\ c.returnexp < Pos(c) ->
                Push(Instead([p EXCEPT !.op = "TAILCALL"]), i)
          [] op = "RETURN" /\ p.op = "CLOSE" -> Instead(i)
          [] op = "GET" /\ p.op = "LOAD" /\ Temporary(a2) ->
                Instead([p EXCEPT !.op = "GETK", !.a0 = a0, !.a2 = a1])
          [] op = "PREPCALL" /\ p.op = "LOAD" /\ Temporary(a1) ->
                Instead([i EXCEPT !.op = "PREPCALLK", !.a1 = p.a1])
          [] op = "APPENDARRAY" /\ p.op \in Loads /\ Temporary(a1) ->
                Instead([i EXCEPT !.a1 = p.a1, !.a2 = "LITERAL"])
          [] op = "MOVE" /\ p.op \in Retargetable /\ p.a0 = a1 ->
                SnoozeOpt(Instead([p EXCEPT !.a0 = a0]))
          [] op = "MOVE" /\ p.op = "MOVE" -> Instead([p EXCEPT !.op = "DMOVE", !.a2 = a0, !.a3 = a1])
          [] op = "LOAD" /\ p.op = "LOAD" -> Instead([p EXCEPT !.op = "DLOAD", !.a2 = a0, !.a3 = a1])
          [] op \in {"EQ", "NE"} /\ p.op = "LOAD" /\ Temporary(a1) ->
                Instead([i EXCEPT !.a1 = p.a1, !.a3 = NONE])
          [] op = "LOADNULLS" /\ p.op = "LOADNULLS" /\ p.a0 + p.a1 = a0 -> Instead([p EXCEPT !.a1 = @ + 1])
          [] op = "LINE" /\ p.op = "LINE" -> c
          [] OTHER -> Push(c, i)

(* The result of an expression that nobody uses need not be stored.        *)
DiscardTarget(c) ==
    LET d == PopTarget(c)
        p == Last(c.ins)
    IN  IF Pos(c) > 0 /\ c.opt /\ p.op \in {"SET", "NEWSLOT", "SETOUTER", "CALL"} /\ p.a0 = Top(c)
          THEN [d EXCEPT !.ins[Pos(c)].a0 = NONE] ELSE d

(* SetIntructionParam: the offset of a jump, when its destination is known.*)
Patch(c, at, offset) == [c EXCEPT !.ins[at].a1 = offset]

AddLineInfos(c) == Emit(c, "LINE", 0, 0, 0, 0)

(* The operation reads the top targets, and its result replaces them.      *)
Emit2ArgsOP(c, op, p3) ==
    LET t == PushTarget(PopTargets(c, 2)) IN Emit(t, op, Top(t), UpTarget(c, 1), Top(c), p3)

EmitDerefOp(c, op) ==
    LET t == PushTarget(PopTargets(c, 3))
    IN  Emit(t, op, Top(t), UpTarget(c, 2), UpTarget(c, 1), Top(c))

BinExp(c, op, p3) ==
    LET t == PushTarget(PopTargets(c, 2)) IN Emit(t, op, Top(t), Top(c), UpTarget(c, 1), p3)

UnaryOP(c, op) == LET t == PushTarget(PopTarget(c)) IN Emit(t, op, Top(t), Top(c), 0, 0)

Load(c, op, value) == LET t == PushTarget(c) IN Emit(t, op, Top(t), value, 0, 0)

-----------------------------------------------------------------------------
(* Scopes.  A variable that a function has captured is closed when its     *)
(* scope ends.                                                             *)
CountOuters(c, stacksize) ==
    Cardinality({ k \in DOMAIN c.locals : k > stacksize /\ c.locals[k].outer })

SetStackSize(c, n) == [c EXCEPT !.locals = SubSeq(@, 1, Min({n, Len(@)}))]

BeginScope(c) == [c EXCEPT !.scope = Len(c.locals)]

EndScopeNoClose(c, scope) == [SetStackSize(c, c.scope) EXCEPT !.scope = scope]

EndScope(c, scope) ==
    LET d == SetStackSize(c, c.scope)
    IN  [IF CountOuters(c, c.scope) > 0 THEN Emit(d, "CLOSE", 0, c.scope, 0, 0) ELSE d
            EXCEPT !.scope = scope]

ResolveOuters(c) ==
    IF CountOuters(c, c.scope) > 0 THEN Emit(c, "CLOSE", 0, c.scope, 0, 0) ELSE c

BeginBreakableBlock(c) ==
    [c EXCEPT !.breaktargets = Append(@, 0), !.continuetargets = Append(@, 0)]

(* ResolveBreaks, ResolveContinues: the jumps since the loop o begins go   *)
(* behind the last instruction, or to the target.                          *)
RECURSIVE ResolveBreaks(_, _), ResolveContinues(_, _, _)
ResolveBreaks(c, o) ==
    IF Len(c.breaks) = Len(o.breaks) THEN c
    ELSE ResolveBreaks([Patch(c, Last(c.breaks), Pos(c) - Last(c.breaks)) EXCEPT !.breaks = Front(@)], o)
ResolveContinues(c, o, target) ==
    IF Len(c.continues) = Len(o.continues) THEN c
    ELSE ResolveContinues([Patch(c, Last(c.continues), target - Last(c.continues))
                              EXCEPT !.continues = Front(@)], o, target)

EndBreakableBlock(c, o, target) ==
    [ResolveBreaks(ResolveContinues(c, o, target), o) EXCEPT
        !.breaktargets = Front(@), !.continuetargets = Front(@)]

-----------------------------------------------------------------------------
RECURSIVE Expression(_, _), PrefixedExpr(_, _, _), CreateFunction(_, _, _, _)
RECURSIVE Statement(_, _), Statements(_, _)

Statements(c, ss) ==
    IF ss = <<>> \/ TooManyLocals(c) THEN c ELSE Statements(Statement(c, Head(ss)), Tail(ss))

(* An access to a field: its object and its key are on the targets; get    *)
(* (NeedGet) says that its value is wanted, not the place itself.          *)
Field(c, get) ==
    [IF get THEN Emit2ArgsOP(c, "GET", 0) ELSE c EXCEPT !.etype = "OBJECT"]

LoadConst(k) == IF k[1] = "int" THEN "LOADINT" ELSE "LOAD"

(* An identifier: a local variable, one of an enclosing function, a        *)
(* constant, or a field of this.                                           *)
Identifier(c, x, get) ==
    LET reg   == GetLocalVariable(c, x)
        outer == GetOuterVariable(c, x)
    IN  IF reg # -1 THEN [PushTargetAt(c, reg) EXCEPT !.etype = "LOCAL", !.epos = reg]
        ELSE IF outer.pos # -1
          THEN IF get THEN [Load(outer.c, "GETOUTER", outer.pos) EXCEPT !.etype = "EXPR"]
               ELSE [outer.c EXCEPT !.etype = "OUTER", !.epos = outer.pos]
        ELSE IF x \in DOMAIN c.consts THEN [Load(c, LoadConst(c.consts[x]), c.consts[x]) EXCEPT !.etype = "EXPR"]
        ELSE Field(Load(PushTargetAt(c, 0), "LOAD", <<"str", x>>), get)

(* A field of base is a value, never a place.                              *)
PrefixedExpr(c, e, get) ==
    CASE e[1] = "var"   -> Identifier(c, e[2], get)
      [] e[1] \in {"dot", "index"} /\ e[2] = <<"base">> ->
            LET key == IF e[1] = "dot" THEN <<"str", e[3]>> ELSE e[3]
            IN  [Emit2ArgsOP(Expression(Expression(c, e[2]), key), "GET", 0) EXCEPT !.etype = "EXPR"]
      [] e[1] = "dot"   -> Field(Load(PrefixedExpr(c, e[2], TRUE), "LOAD", <<"str", e[3]>>), get)
      [] e[1] = "index" -> Field(Expression(PrefixedExpr(c, e[2], TRUE), e[3]), get)
      [] OTHER          -> [Expression(c, e) EXCEPT !.etype = "EXPR"]

(* The place p (its etype and epos) is assigned the value of the top       *)
(* target.                                                                 *)
Assign(c, p) ==
    CASE p.etype = "LOCAL" ->
            LET d == PopTarget(c) IN Emit(d, "MOVE", Top(d), Top(c), 0, 0)
      [] p.etype = "OBJECT" -> EmitDerefOp(c, "SET")
      [] p.etype = "OUTER" ->
            LET t == PushTarget(PopTarget(c)) IN Emit(t, "SETOUTER", Top(t), p.epos, Top(c), 0)

EmitCompoundArith(c, op, p) ==
    CASE p.etype = "LOCAL" ->
            LET reg == UpTarget(c, 1)
            IN  SnoozeOpt(Emit(PushTargetAt(PopTargets(c, 2), reg), op, reg, Top(c), reg, 0))
      [] p.etype = "OBJECT" ->
            LET t == PushTarget(PopTargets(c, 3))
            IN  Emit(t, "COMPARITH", Top(t), <<UpTarget(c, 2), Top(c)>>, UpTarget(c, 1), op)
      [] p.etype = "OUTER" ->
            LET t == Load(c, "GETOUTER", p.epos)
                d == PushTarget(PopTargets(Emit(t, op, Top(t), Top(c), Top(t), 0), 2))
            IN  Emit(d, "SETOUTER", Top(d), p.epos, Top(t), 0)

PrefixIncDec(p, diff) ==
    CASE p.etype = "OBJECT" -> Emit2ArgsOP(p, "INC", diff)
      [] p.etype = "LOCAL"  -> Emit(p, "INCL", Top(p), Top(p), 0, diff)
      [] p.etype = "OUTER"  ->
            LET t == Load(p, "GETOUTER", p.epos)
            IN  Emit(Emit(t, "INCL", Top(t), Top(t), 0, diff), "SETOUTER", Top(t), p.epos, Top(t), 0)

PostfixIncDec(p, diff) ==
    CASE p.etype = "OBJECT" -> Emit2ArgsOP(p, "PINC", diff)
      [] p.etype = "LOCAL"  ->
            LET t == PushTarget(PopTarget(p)) IN Emit(t, "PINCL", Top(t), Top(p), 0, diff)
      [] p.etype = "OUTER"  ->
            LET t1 == PushTarget(p)
                t2 == Load(t1, "GETOUTER", p.epos)
                d  == Emit(t2, "PINCL", Top(t1), Top(t2), 0, diff)
            IN  PopTarget(Emit(d, "SETOUTER", Top(t2), p.epos, Top(t2), 0))

(* && and ||: the second operand is skipped when the first one decides.    *)
Logical(c, op, a, b) ==
    LET x   == Expression(c, a)
        t   == PushTarget(PopTarget(x))
        trg == Top(t)
        d   == Emit(t, op, trg, 0, Top(x), 0)
        m   == IF trg # Top(x) THEN Emit(d, "MOVE", trg, Top(x), 0, 0) ELSE d
        y   == SnoozeOpt(Expression(m, b))
        z   == PopTarget(y)
        w   == SnoozeOpt(IF trg # Top(y) THEN Emit(z, "MOVE", trg, Top(y), 0, 0) ELSE z)
    IN  Patch(w, Pos(d), Pos(w) - Pos(d))

Conditional(c, cond, a, b) ==
    LET x    == Expression(c, cond)
        j    == Emit(PopTarget(x), "JZ", Top(x), 0, 0, 0)
        t    == PushTarget(j)
        trg  == Top(t)
        Value(d, e) ==
            LET y == Expression(d, e)
            IN  IF trg # Top(y) THEN Emit(PopTarget(y), "MOVE", trg, Top(y), 0, 0) ELSE PopTarget(y)
        one  == Value(t, a)
        jmp  == Emit(one, "JMP", 0, 0, 0, 0)
        two  == Value(jmp, b)
    IN  SnoozeOpt(Patch(Patch(two, Pos(jmp), Pos(two) - Pos(jmp)), Pos(j), Pos(one) - Pos(j) + 1))

(* The callee and its this go to the registers before the arguments.       *)
Callee(c, f) ==
    LET p == PrefixedExpr(c, f, FALSE)
        t == PushTarget(PushTarget(PopTargets(p, 2)))
        g == Load(p, "GETOUTER", p.epos)
        This(d) == LET u == PushTarget(d) IN Emit(u, "MOVE", Top(u), 0, 0, 0)
    IN  CASE p.etype = "OBJECT" -> Emit(t, "PREPCALL", UpTarget(t, 1), Top(p), UpTarget(p, 1), Top(t))
          [] p.etype = "OUTER"  -> This(g)
          [] OTHER              -> This(p)

MoveIfCurrentTargetIsLocal(c) ==
    IF IsLocal(c, Top(c))
      THEN LET t == PushTarget(PopTarget(c)) IN Emit(t, "MOVE", Top(t), Top(c), 0, 0) ELSE c

Call(c, f, args) ==
    LET a == FoldLeft(LAMBDA d, e : MoveIfCurrentTargetIsLocal(Expression(d, e)), Callee(c, f), args)
        b == PopTargets(a, Len(args))
        t == PushTarget(PopTargets(b, 2))
    IN  Emit(t, "CALL", Top(t), UpTarget(b, 1), Top(b), Len(args) + 1)

ArrayExp(c, es) ==
    LET Element(d, e) ==
            LET x == Expression(d, e)
                p == PopTarget(x)
            IN  Emit(p, "APPENDARRAY", Top(p), Top(x), "STACK", 0)
    IN  FoldLeft(Element, Load(c, "NEWOBJ", "ARRAY"), es)

TableExp(c, slots) ==
    LET Slot(d, s) ==
            LET x == Expression(Load(d, "LOAD", <<"str", s[1]>>), s[2])
                p == PopTargets(x, 2)
            IN  Emit(p, "NEWSLOT", NONE, Top(p), UpTarget(x, 1), Top(x))
    IN  FoldLeft(Slot, Load(c, "NEWOBJ", "TABLE"), slots)

(* A member is its key, its value and whether it is static; base is <<>>   *)
(* where the class extends none.                                           *)
ClassExp(c, base, members) ==
    LET x == IF base = <<>> THEN c ELSE Expression(c, base)
        t == PushTarget(IF base = <<>> THEN c ELSE PopTarget(x))
        Member(d, s) ==
            LET y == Expression(Expression(d, s[1]), s[2])
                p == PopTargets(y, 2)
            IN  Emit(p, "NEWSLOTA", s[3], Top(p), UpTarget(y, 1), Top(y))
    IN  FoldLeft(Member, Emit(t, "NEWOBJ", Top(t), "CLASS", IF base = <<>> THEN NONE ELSE Top(x), 0), members)

Closure(c) == Load(c, "CLOSURE", Len(c.functions))

Expression(c, e) ==
    IF TooManyLocals(c) THEN c ELSE
    CASE e[1] = "int"   -> Load(c, "LOADINT", e)
      [] e[1] = "bool"  -> Load(c, "LOADBOOL", e)
      [] e[1] = "str"   -> Load(c, "LOAD", e)
      [] e[1] = "null"  -> Load(c, "LOADNULLS", 1)
      [] e[1] = "root"  -> Load(c, "LOADROOT", 0)
      [] e[1] = "base"  -> Load(c, "GETBASE", 0)
      [] e[1] \in {"var", "dot", "index"} -> PrefixedExpr(c, e, TRUE)
      [] e[1] = "call"  -> Call(c, e[2], e[3])
      [] e[1] = "arith" -> BinExp(Expression(Expression(c, e[3]), e[4]), e[2], 0)
      [] e[1] = "cmp"   -> BinExp(Expression(Expression(c, e[3]), e[4]), "CMP", e[2])
      [] e[1] = "eq"    -> BinExp(Expression(Expression(c, e[3]), e[4]), e[2], 0)
      [] e[1] = "bitw"  -> BinExp(Expression(Expression(c, e[3]), e[4]), "BITW", e[2])
      [] e[1] = "in"    -> BinExp(Expression(Expression(c, e[2]), e[3]), "EXISTS", 0)
      [] e[1] = "instanceof" -> BinExp(Expression(Expression(c, e[2]), e[3]), "INSTANCEOF", 0)
      [] e[1] = "and"   -> Logical(c, "AND", e[2], e[3])
      [] e[1] = "or"    -> Logical(c, "OR", e[2], e[3])
      [] e[1] = "cond"  -> Conditional(c, e[2], e[3], e[4])
      [] e[1] = "unary" -> UnaryOP(PrefixedExpr(c, e[3], TRUE), e[2])
      [] e[1] = "set"   -> LET p == PrefixedExpr(c, e[2], FALSE) IN Assign(Expression(p, e[3]), p)
      [] e[1] = "newslot" -> EmitDerefOp(Expression(PrefixedExpr(c, e[2], FALSE), e[3]), "NEWSLOT")
      [] e[1] = "compound" ->
            LET p == PrefixedExpr(c, e[3], FALSE) IN EmitCompoundArith(Expression(p, e[4]), e[2], p)
      [] e[1] = "inc"    -> PrefixIncDec(PrefixedExpr(c, e[2], FALSE), e[3])
      [] e[1] = "pinc"   -> PostfixIncDec(PrefixedExpr(c, e[2], FALSE), e[3])
      [] e[1] = "delete" -> Emit2ArgsOP(PrefixedExpr(c, e[2], FALSE), "DELETE", 0)
      [] e[1] = "comma"  -> Expression(PopTarget(Expression(c, e[2])), e[3])
      [] e[1] = "array"  -> ArrayExp(c, e[2])
      [] e[1] = "table"  -> TableExp(c, e[2])
      [] e[1] = "class"  -> ClassExp(c, e[2], e[3])
      [] e[1] = "function" -> Closure(CreateFunction(c, e[2], e[3], FALSE))
      [] e[1] = "lambda" -> Closure(CreateFunction(c, e[2], e[3], TRUE))

-----------------------------------------------------------------------------
(* What BuildProto keeps of a function.                                    *)
BuildProto(c) ==
    [ins |-> c.ins, functions |-> c.functions, outervalues |-> c.outervalues, nparams |-> c.nparams,
     varparams |-> c.varparams, defaults |-> c.defaults, gen |-> c.gen, stacksize |-> c.stacksize]

Finish(c) == SetStackSize(Emit(AddLineInfos(c), "RETURN", NONE, 0, 0, 0), 0)

(* A parameter is <<name>> or <<name, default>>; <<"...">> is vargv.  The  *)
(* defaults are evaluated where the function is created.  The body is a    *)
(* block, or the expression of a lambda.                                   *)
CreateFunction(c, params, body, lambda) ==
    LET varparams == params # <<>> /\ Last(params)[1] = "..."
        names     == <<"this">> \o [k \in DOMAIN params |->
                        IF params[k][1] = "..." THEN "vargv" ELSE params[k][1]]
        Default(d, p) ==
            IF Len(p) = 1 THEN d
            ELSE LET x == Expression(d.c, p[2]) IN [c |-> x, regs |-> Append(d.regs, Top(x))]
        defs  == FoldLeft(Default, [c |-> c, regs |-> <<>>], params)
        child == FuncState(c.level + 1, PopTargets(defs.c, Len(defs.regs)), names, varparams, c.consts)
        x     == Expression(child, body)
        f     == Finish(IF lambda THEN Emit(PopTarget(x), "RETURN", 1, Top(x), 0, 0)
                        ELSE SnoozeOpt(EndScopeNoClose(Statements(BeginScope(AddLineInfos(child)), body),
                                                       child.scope)))
    IN  [f.parent EXCEPT !.functions = Append(@, BuildProto([f EXCEPT !.defaults = defs.regs])),
                         !.consts = f.consts]

Block(c, ss) == EndScope(Statements(BeginScope(c), ss), c.scope)

(* The block of an if is no statement of its own.                          *)
IfBlock(c, s) == IF s[1] = "block" THEN Block(c, s[2]) ELSE Statement(c, s)

IfStatement(c, cond, then, else) ==
    LET x    == Expression(c, cond)
        j    == Emit(PopTarget(x), "JZ", Top(x), 0, 0, 0)
        one  == IfBlock(j, then)
        jmp  == Emit(one, "JMP", 0, 0, 0, 0)
        two  == IfBlock(jmp, else)
    IN  IF else = <<>> THEN Patch(one, Pos(j), Pos(one) - Pos(j))
        ELSE Patch(Patch(two, Pos(jmp), Pos(two) - Pos(jmp)), Pos(j), Pos(one) - Pos(j) + 1)

JumpBack(c, target) == Emit(c, "JMP", 0, target - Pos(c) - 1, 0, 0)

Scoped(c, s) == EndScope(Statement(BeginScope(c), s), c.scope)

WhileStatement(c, cond, body) ==
    LET x == Expression(c, cond)
        j == Emit(PopTarget(BeginBreakableBlock(x)), "JZ", Top(x), 0, 0, 0)
        b == JumpBack(Scoped(j, body), Pos(c))
    IN  EndBreakableBlock(Patch(b, Pos(j), Pos(b) - Pos(j)), c, Pos(c))

FaultyDoWhileStatement(c, body, cond) ==
    LET b == Scoped(BeginBreakableBlock(c), body)
        x == Expression(b, cond)
    IN  EndBreakableBlock(JumpBack(Emit(PopTarget(x), "JZ", Top(x), 1, 0, 0), Pos(c)), c, Pos(c))

DoWhileStatement(c, body, cond) ==
    LET b == Scoped(BeginBreakableBlock(c), body)
        x == Expression(b, cond)
    IN  EndBreakableBlock(JumpBack(Emit(PopTarget(x), "JZ", Top(x), 1, 0, 0), Pos(c)), c, Pos(b))

LocalDeclStatement(c, name, e) ==
    LET x == Expression(c, e)
        t == PushTarget(PopTarget(x))
        v == IF e = <<>> THEN Load(c, "LOADNULLS", 1)
             ELSE IF Top(t) # Top(x) THEN Emit(t, "MOVE", Top(t), Top(x), 0, 0) ELSE t
    IN  AddLocal(PopTarget(v), name)

(* The code of the step expression is cut out and appended to the body.    *)
ForStatement(c, init, cond, step, body) ==
    LET s == BeginScope(c)
        i == SnoozeOpt(CASE init = <<>> -> s
                         [] init[1] = "local" -> LocalDeclStatement(s, init[2], init[3])
                         [] OTHER -> PopTarget(Expression(s, init)))
        x == Expression(i, cond)
        j == SnoozeOpt(IF cond = <<>> THEN i ELSE Emit(PopTarget(x), "JZ", Top(x), 0, 0, 0))
        e == IF step = <<>> THEN j ELSE PopTarget(Expression(j, step))
        b == Statement(BeginBreakableBlock([SnoozeOpt(e) EXCEPT !.ins = SubSeq(@, 1, Pos(j))]), body)
        a == FoldLeft(LAMBDA d, q : Emit(d, q.op, q.a0, q.a1, q.a2, q.a3), b,
                      SubSeq(e.ins, Pos(j) + 1, Pos(e)))
        l == JumpBack(a, Pos(i))
        p == IF cond # <<>> /\ Pos(j) > 1 THEN Patch(l, Pos(j), Pos(l) - Pos(j)) ELSE l
    IN  EndBreakableBlock(EndScope(p, c.scope), c, Pos(b))

(* The loop's hidden variables follow its container on the stack.          *)
ForEachStatement(c, idx, val, container, body) ==
    LET x == Expression(BeginScope(c), container)
        reg == Len(x.locals)
        Hidden(d, name) == LET v == AddLocal(d, name) IN Emit(v, "LOADNULLS", Len(d.locals), 1, 0, 0)
        h == FoldLeft(Hidden, x, << idx, val, "@ITERATOR@" >>)
        f == Emit(h, "FOREACH", Top(x), 0, reg, 0)
        b == Statement(BeginBreakableBlock(Emit(f, "POSTFOREACH", Top(x), 0, reg, 0)), body)
        l == JumpBack(b, Pos(h))
        p == Patch(Patch(l, Pos(f), Pos(l) - Pos(f)), Pos(f) + 1, Pos(l) - Pos(f))
    IN  EndScope(PopTarget(EndBreakableBlock(p, c, Pos(f) - 1)), c.scope)

(* A case that does not match jumps to the next test, the end of a case    *)
(* over it.  default is <<>> or the statements after default.              *)
SwitchStatement(c, e, cases, default) ==
    LET x == Expression(c, e)
        Case(d, k) ==
            LET skip == Emit(d.c, "JMP", 0, 0, 0, 0)
                a    == IF d.next = 0 THEN d.c ELSE Patch(skip, d.next, Pos(skip) - d.next)
                y    == Expression(a, k[1])
                trg  == Top(y)
                loc  == IsLocal(y, trg)
                t    == IF loc THEN PushTarget(PopTarget(y)) ELSE PopTarget(y)
                eq   == IF loc THEN Top(t) ELSE trg
                j    == Emit(Emit(t, "EQ", eq, trg, Top(x), 0), "JZ", eq, 0, 0, 0)
                q    == IF loc THEN PopTarget(j) ELSE j
                r    == IF d.next = 0 THEN q ELSE Patch(q, Pos(skip), Pos(q) - Pos(skip))
            IN  [c |-> Block(r, k[2]), next |-> Pos(r)]
        all  == FoldLeft(Case, [c |-> [x EXCEPT !.breaktargets = Append(@, 0)], next |-> 0], cases)
        last == IF all.next = 0 THEN all.c ELSE Patch(all.c, all.next, Pos(all.c) - all.next)
        def  == IF default = <<>> THEN last ELSE Block(last, default[1])
    IN  [ResolveBreaks(PopTarget(def), c) EXCEPT !.breaktargets = Front(@)]

(* break and continue: the traps set inside the loop are taken off, and    *)
(* the destination is patched in when it is known.                         *)
JumpOut(c, traps) ==
    LET p == IF traps > 0 THEN Emit(c, "POPTRAP", traps, 0, 0, 0) ELSE c
    IN  Emit(ResolveOuters(p), "JMP", 0, 0, 0, 0)

Break(c)    == LET j == JumpOut(c, Last(c.breaktargets)) IN [j EXCEPT !.breaks = Append(@, Pos(j))]
Continue(c) == LET j == JumpOut(c, Last(c.continuetargets)) IN [j EXCEPT !.continues = Append(@, Pos(j))]

ReturnStatement(c, e) ==
    LET x == IF e = <<>> THEN c ELSE Expression(c, e)
        p == IF c.traps > 0 THEN Emit(x, "POPTRAP", c.traps, 0, 0, 0) ELSE x
        r == [p EXCEPT !.returnexp = IF e = <<>> THEN 0 ELSE Pos(c) + 1]
    IN  IF e = <<>> THEN Emit(r, "RETURN", NONE, 0, Len(r.locals), 0)
        ELSE Emit(PopTarget(r), "RETURN", 1, Top(r), Len(r.locals), 0)

YieldStatement(c, e) ==
    LET g == [c EXCEPT !.gen = TRUE, !.returnexp = IF e = <<>> THEN 0 ELSE Pos(c) + 1]
        x == Expression(g, e)
    IN  IF e = <<>> THEN Emit(g, "YIELD", NONE, 0, Len(g.locals), 0)
        ELSE Emit(PopTarget(x), "YIELD", 1, Top(x), Len(x.locals), 0)

(* The trap of the try is counted against the loop around it too, which a  *)
(* break or a continue inside leaves.                                      *)
Trapping(c, n) ==
    LET Add(s) == IF s = <<>> THEN s ELSE [s EXCEPT ![Len(s)] = @ + n]
    IN  [c EXCEPT !.traps = @ + n, !.breaktargets = Add(@), !.continuetargets = Add(@)]

TryCatchStatement(c, body, ex, handler) ==
    LET t == Emit(c, "PUSHTRAP", 0, 0, 0, 0)
        b == Scoped(Trapping(t, 1), body)
        j == Emit(Trapping(Emit(b, "POPTRAP", 1, 0, 0, 0), -1), "JMP", 0, 0, 0, 0)
        h == AddLocal(BeginScope(Patch(j, Pos(t), Pos(j) - Pos(t))), ex)
        s == Statement([h EXCEPT !.ins[Pos(t)].a0 = Len(j.locals)], handler)
    IN  EndScope(Patch(s, Pos(j), Pos(s) - Pos(j)), c.scope)

(* function f(...) {...} makes a slot of this.                             *)
FunctionStatement(c, name, params, body) ==
    LET k == Load(PushTargetAt(c, 0), "LOAD", <<"str", name>>)
        f == CreateFunction(k, params, body, FALSE)
    IN  PopTarget(EmitDerefOp(Load(f, "CLOSURE", Len(f.functions)), "NEWSLOT"))

(* class p {...}: a new slot, of this or of another object.                *)
ClassStatement(c, place, base, members) ==
    PopTarget(EmitDerefOp(ClassExp(PrefixedExpr(c, place, FALSE), base, members), "NEWSLOT"))

LocalFunction(c, name, params, body) ==
    AddLocal(PopTarget(Closure(CreateFunction(c, params, body, FALSE))), name)

Statement(c, s) ==
    LET l == AddLineInfos(c)
    IN  SnoozeOpt(
        CASE s[1] = "expr"     -> DiscardTarget(Expression(l, s[2]))
          [] s[1] = "local"    -> LocalDeclStatement(l, s[2], s[3])
          [] s[1] = "localfun" -> LocalFunction(l, s[2], s[3], s[4])
          [] s[1] = "function" -> FunctionStatement(l, s[2], s[3], s[4])
          [] s[1] = "class"    -> ClassStatement(l, s[2], s[3], s[4])
          [] s[1] = "block"    -> Block(l, s[2])
          [] s[1] = "if"       -> IfStatement(l, s[2], s[3], s[4])
          [] s[1] = "while"    -> WhileStatement(l, s[2], s[3])
          [] s[1] = "do"       -> DoWhileStatement(l, s[2], s[3])
          [] s[1] = "for"      -> ForStatement(l, s[2], s[3], s[4], s[5])
          [] s[1] = "foreach"  -> ForEachStatement(l, s[2], s[3], s[4], s[5])
          [] s[1] = "switch"   -> SwitchStatement(l, s[2], s[3], s[4])
          [] s[1] = "break"    -> Break(l)
          [] s[1] = "continue" -> Continue(l)
          [] s[1] = "return"   -> ReturnStatement(l, s[2])
          [] s[1] = "yield"    -> YieldStatement(l, s[2])
          [] s[1] = "try"      -> TryCatchStatement(l, s[2], s[3], s[4])
          [] s[1] = "throw"    -> LET x == Expression(l, s[2]) IN Emit(PopTarget(x), "THROW", Top(x), 0, 0, 0)
          [] s[1] = "const"    -> [l EXCEPT !.consts = (s[2] :> s[3]) @@ @])

(* The function of a whole script.                                         *)
Compile(body) ==
    LET main == FuncState(0, <<>>, <<"this", "vargv">>, TRUE, <<>>)
    IN  BuildProto(Finish(SetStackSize(Statements(main, body), 2)))
=============================================================================
