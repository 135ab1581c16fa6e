-------------------------- MODULE SquirrelMeaning --------------------------
(***************************************************************************)
(* What a script means, without code, registers or frames: a value for an  *)
(* expression and an outcome for a statement, computed over the syntax     *)
(* tree.  The machine of SquirrelVM is compared with this.  env gives the  *)
(* location of every variable in sight; a store s has the values of the    *)
(* locations, the objects, what was printed, and what the generator that   *)
(* is run has yielded.  The body of a generator changes nothing that       *)
(* others see but the output, so it is run when it is made, and cut where  *)
(* it yields.                                                              *)
(***************************************************************************)
EXTENDS SquirrelValues

Outcome(sig, v, s, env) == [sig |-> sig, v |-> v, s |-> s, env |-> env]
Ok(v, s)      == Outcome("next", v, s, <<>>)
Raise(tag, s) == Outcome("throw", Str(tag), s, <<>>)

(* The rest of a computation, when its first part went well.               *)
Then(r, Rest(_, _)) == IF r.sig = "next" THEN Rest(r.v, r.s) ELSE r

Allocate(s, type, object) == Ok(<<type, Len(s.heap) + 1>>, [s EXCEPT !.heap = Append(@, object)])

(* New variables: the environment and the store with them.                 *)
Bind(b, x, v) == [env |-> (x :> Len(b.s.mem) + 1) @@ b.env, s |-> [b.s EXCEPT !.mem = Append(@, v)]]

BindAll(env, s, xs, vs) ==
    FoldLeft(LAMBDA b, k : Bind(b, xs[k], vs[k]), [env |-> env, s |-> s], [k \in DOMAIN xs |-> k])

RECURSIVE Yields(_)
Yields(t) ==
    LET Some(ss) == \E k \in DOMAIN ss : Yields(ss[k])
    IN  CASE t[1] = "yield" -> TRUE
          [] t[1] = "block" -> Some(t[2])
          [] t[1] = "if"    -> Yields(t[3]) \/ (t[4] # <<>> /\ Yields(t[4]))
          [] t[1] \in {"while", "do"} -> Yields(t[3]) \/ Yields(t[2])
          [] t[1] \in {"for", "foreach"} -> Yields(t[5])
          [] t[1] = "try"   -> Yields(t[2]) \/ Yields(t[4])
          [] OTHER -> FALSE

RECURSIVE Eval(_, _, _), EvalAll(_, _, _, _), Exec(_, _, _), ExecAll(_, _, _), Apply(_, _, _)
RECURSIVE Members(_, _, _, _), Loop(_, _, _, _, _), Each(_, _, _, _, _, _, _), Cases(_, _, _, _, _), Slots(_, _, _, _)

-----------------------------------------------------------------------------
(* Classes: the fields that every instance gets a copy of, what is shared  *)
(* by all, methods and static data, and metamethods.                       *)
ClassAt(o, s) == s.heap[IF o[1] = "class" THEN o[2] ELSE s.heap[o[2]].class]

IsMember(o, key, s) ==
    o[1] \in {"class", "instance"} /\ key \in DOMAIN s.heap[o[2]].fields \cup DOMAIN ClassAt(o, s).shared

ReadMember(o, key, s) ==
    IF key \in DOMAIN s.heap[o[2]].fields THEN s.heap[o[2]].fields[key] ELSE ClassAt(o, s).shared[key]

(* A member for a class.  Once it has an instance its fields are fixed.    *)
AddMember(c, key, v, static, s) ==
    LET class    == s.heap[c[2]]
        function == v[1] \in {"closure", "native"}
        method   == IF v[1] = "closure" /\ class.base # 0
                      THEN Allocate(s, "closure", [s.heap[v[2]] EXCEPT !.base = class.base]) ELSE Ok(v, s)
        Put(u, part, x) == Ok(v, [u EXCEPT !.heap[c[2]][part] = (key :> x) @@ @])
    IN  IF class.locked /\ ~function /\ ~static THEN Raise("locked", s)
        ELSE IF key \in DOMAIN class.fields THEN Put(s, "fields", v)
        ELSE IF function /\ IsMetaName(key) THEN Put(s, "metas", v)
        ELSE IF function \/ static THEN Put(method.s, "shared", method.v)
        ELSE Put(s, "fields", v)

RECURSIVE Fixed(_, _)
Fixed(id, s) == IF id = 0 THEN s ELSE Fixed(s.heap[id].base, [s EXCEPT !.heap[id].locked = TRUE])

Instantiate(c, args, s) ==
    LET i == Allocate(Fixed(c[2], s), "instance", [class |-> c[2], fields |-> s.heap[c[2]].fields])
        shared == s.heap[c[2]].shared
        ctor == IF Str("constructor") \in DOMAIN shared THEN shared[Str("constructor")] ELSE Null
    IN  IF ctor[1] \notin {"closure", "native"} THEN i
        ELSE Then(Apply(ctor, <<i.v>> \o Tail(args), i.s), LAMBDA x, u : Ok(i.v, u))

-----------------------------------------------------------------------------
(* Fields.  The table among o and its delegates that has a field, or 0.    *)
RECURSIVE Holder(_, _, _)
Holder(s, t, key) ==
    IF t = 0 \/ key \in DOMAIN s.heap[t].slots THEN t ELSE Holder(s, s.heap[t].delegate, key)

ReadField(o, key, this, s) ==
    LET t  == IF o[1] = "table" THEN Holder(s, o[2], key) ELSE 0
        mm == MetaMethod(s, o, "_get")
        g  == Apply(mm[2], << o, key >>, s)
        Library == InvokeDefaultDelegate(o, key)
        Otherwise(u) ==
            IF this /\ key \in DOMAIN u.heap[1].slots THEN Ok(u.heap[1].slots[key], u) ELSE Raise("index", u)
    IN  IF t # 0 THEN Ok(s.heap[t].slots[key], s)
        ELSE IF o[1] = "array" /\ key[1] = "int"
          THEN IF key[2] + 1 \in DOMAIN s.heap[o[2]].values THEN Ok(s.heap[o[2]].values[key[2] + 1], s)
               ELSE Raise("index", s)
        ELSE IF IsMember(o, key, s) THEN Ok(ReadMember(o, key, s), s)
        ELSE IF Library # None THEN Ok(Library[2], s)
        ELSE IF mm = None THEN Otherwise(s)
        ELSE IF g.sig = "throw" /\ g.v = Null THEN Otherwise(g.s) ELSE g

WriteField(o, key, v, this, s) ==
    LET t  == IF o[1] = "table" THEN Holder(s, o[2], key) ELSE 0
        mm == MetaMethod(s, o, "_set")
        InTable(u) == Ok(v, [s EXCEPT !.heap[u].slots[key] = v])
    IN  IF t # 0 THEN InTable(t)
        ELSE IF o[1] = "array" /\ key[1] = "int"
          THEN IF key[2] + 1 \in DOMAIN s.heap[o[2]].values
                 THEN Ok(v, [s EXCEPT !.heap[o[2]].values[key[2] + 1] = v]) ELSE Raise("index", s)
        ELSE IF o[1] = "instance" /\ key \in DOMAIN s.heap[o[2]].fields
          THEN Ok(v, [s EXCEPT !.heap[o[2]].fields[key] = v])
        ELSE IF o[1] \notin {"table", "instance"} THEN Raise("set", s)
        ELSE IF mm # None THEN Then(Apply(mm[2], << o, key, v >>, s), LAMBDA x, u : Ok(v, u))
        ELSE IF this /\ key \in DOMAIN s.heap[1].slots THEN InTable(1)
        ELSE Raise("index", s)

NewField(o, key, v, s) ==
    LET mm == MetaMethod(s, o, "_newslot")
        there == o[1] = "table" /\ key \in DOMAIN s.heap[o[2]].slots
    IN  IF key = Null \/ (o[1] \notin {"table", "class"} /\ mm = None) THEN Raise("newslot", s)
        ELSE IF o[1] = "class" THEN AddMember(o, key, v, FALSE, s)
        ELSE IF mm # None /\ ~there
          THEN Then(Apply(mm[2], << o, key, v >>, s), LAMBDA x, u : Ok(v, u))
        ELSE Ok(v, [s EXCEPT !.heap[o[2]].slots = (key :> v) @@ @])

DeleteField(o, key, s) ==
    LET mm == MetaMethod(s, o, "_delslot")
        slots == s.heap[o[2]].slots
    IN  IF o[1] # "table" /\ mm = None THEN Raise("delete", s)
        ELSE IF mm # None THEN Apply(mm[2], << o, key >>, s)
        ELSE IF key \notin DOMAIN slots THEN Raise("index", s)
        ELSE Ok(slots[key], [s EXCEPT !.heap[o[2]].slots = [k \in DOMAIN slots \ {key} |-> slots[k]]])

HasField(o, key, s) ==
    CASE o[1] = "table" -> key \in DOMAIN s.heap[o[2]].slots
      [] o[1] = "array" -> key[1] = "int" /\ key[2] + 1 \in DOMAIN s.heap[o[2]].values
      [] OTHER -> IsMember(o, key, s)

-----------------------------------------------------------------------------
(* Functions and generators.                                               *)
Given(r, s) == IF r[1] = "value" THEN Ok(r[2], s) ELSE Raise(r[2], s)

(* A % that goes wrong raises nothing; what it gives then is open, and no  *)
(* script uses it.                                                         *)
Operate(op, a, b, s) ==
    LET r  == ArithOp(op, a, b)
        mm == MetaMethod(s, a, ArithMethod(op))
        d  == IF r[1] = "error" /\ mm # None THEN Apply(mm[2], << a, b >>, s) ELSE Given(r, s)
    IN  IF op = "MOD" /\ d.sig = "throw" THEN Ok(Null, d.s) ELSE d

(* The body's outcome for the caller: falling off the end returns null.    *)
Called(r) ==
    CASE r.sig = "return" -> Ok(r.v, r.s) [] r.sig = "next" -> Ok(Null, r.s) [] OTHER -> r

MakeGenerator(body, env, s) ==
    LET r == ExecAll(body, env, [s EXCEPT !.log = <<>>, !.yields = <<>>])
        last == [log |-> r.s.log, sig |-> Called(r).sig, v |-> Called(r).v]
    IN  Allocate([r.s EXCEPT !.log = s.log, !.yields = s.yields], "generator",
                 [pieces |-> Append(r.s.yields, last), next |-> 1])

IsDead(g, s) == s.heap[g[2]].next > Len(s.heap[g[2]].pieces)

ResumeGenerator(g, s) ==
    LET o == s.heap[g[2]]
        p == o.pieces[o.next]
    IN  IF g[1] # "generator" THEN Raise("resume", s)
        ELSE IF IsDead(g, s) THEN Raise("dead generator", s)
        ELSE Outcome(p.sig, p.v, [s EXCEPT !.heap[g[2]].next = @ + 1, !.log = @ \o p.log], <<>>)

ApplyClosure(c, args, s) ==
    LET n       == Len(c.params)
        var     == n > 0 /\ c.params[n] = "..."
        missing == n + 1 - Len(args)
        ndef    == Len(c.defaults)
        filled  == args \o SubSeq(c.defaults, ndef - missing + 1, ndef)
        extra   == Allocate(s, "array", Array(SubSeq(args, n + 1, Len(args))))
        own(u)  == Bind([env |-> c.env, s |-> u], "base", ClassOrNull(c.base))
        b       == IF var THEN BindAll(own(extra.s).env, own(extra.s).s, <<"this">> \o Append(Front(c.params), "vargv"),
                                       Append(SubSeq(args, 1, n), extra.v))
                   ELSE BindAll(own(s).env, own(s).s, <<"this">> \o c.params, filled)
    IN  IF (var /\ missing > 1) \/ (~var /\ missing \notin 0..ndef) THEN Raise("wrong number of parameters", s)
        ELSE IF c.lambda THEN Eval(c.body, b.env, b.s)
        ELSE IF \E k \in DOMAIN c.body : Yields(c.body[k]) THEN MakeGenerator(c.body, b.env, b.s)
        ELSE Called(ExecAll(c.body, b.env, b.s))

(* An array in order; how far one with values that have none comes is open.*)
Sort(a, s) ==
    LET values == s.heap[a[2]].values
        Below(x, y) == CmpOp("<", x, y) = <<"value", Bool(TRUE)>>
    IN  IF \E i, j \in DOMAIN values : CmpOp("<", values[i], values[j])[1] = "error" THEN Raise("compare", s)
        ELSE Ok(Null, [s EXCEPT !.heap[a[2]].values = SortSeq(@, Below)])

Apply(f, args, s) ==
    LET r  == NativeResult(s, f[2], args)
        mm == MetaMethod(s, f, "_call")
    IN  CASE f[1] = "closure" -> ApplyClosure(s.heap[f[2]], args, s)
          [] f[1] = "native"  ->
                IF Len(args) # NativeArguments(f[2]) THEN Raise("wrong number of parameters", s)
                ELSE IF f[2] = "sort" THEN Sort(args[1], s)
                ELSE Ok(r.v, r.m)
          [] f[1] = "class" -> Instantiate(f, args, s)
          [] mm # None -> Apply(mm[2], <<f>> \o args, s)
          [] OTHER -> Raise("call", s)

MakeFunction(params, body, lambda, env, s) ==
    Then(EvalAll(SelectSeq([k \in DOMAIN params |-> Tail(params[k])], LAMBDA d : d # <<>>), <<>>, env, s),
         LAMBDA defaults, u :
            Allocate(u, "closure", [params |-> [k \in DOMAIN params |-> params[k][1]], body |-> body,
                                    lambda |-> lambda, env |-> env, defaults |-> defaults, base |-> 0]))

-----------------------------------------------------------------------------
(* Expressions.  A place is a variable's location, or an object and a key. *)
Place(e, env, s) ==
    CASE e[1] = "var" /\ e[2] \in DOMAIN env -> Ok(<<"variable", env[e[2]]>>, s)
      [] e[1] = "var" /\ e[2] \notin DOMAIN env -> Ok(<<"field", s.mem[env["this"]], Str(e[2]), TRUE>>, s)
      [] e[1] = "dot" -> Then(Eval(e[2], env, s), LAMBDA o, u : Ok(<<"field", o, Str(e[3]), e[2] = <<"var", "this">> >>, u))
      [] e[1] = "index" -> Then(Eval(e[2], env, s), LAMBDA o, u :
                             Then(Eval(e[3], env, u), LAMBDA k, w : Ok(<<"field", o, k, e[2] = <<"var", "this">> >>, w)))

Read(p, s) == IF p[1] = "variable" THEN Ok(s.mem[p[2]], s) ELSE ReadField(p[2], p[3], p[4], s)

Assigned(p, v, s) ==
    IF p[1] = "variable" THEN Ok(v, [s EXCEPT !.mem[p[2]] = v]) ELSE WriteField(p[2], p[3], v, p[4], s)

(* The values of tuples of expressions, after those in vs.                 *)
EvalAll(es, vs, env, s) ==
    IF es = <<>> THEN Ok(vs, s)
    ELSE Then(Eval(Head(es)[1], env, s), LAMBDA v, u : EvalAll(Tail(es), Append(vs, v), env, u))

Arguments(es, this, env, s) == EvalAll([k \in DOMAIN es |-> << es[k] >>], << this >>, env, s)

CallOf(f, args, env, s) ==
    LET ofbase == f[1] # "var" /\ f[2] = <<"base">>
        With(this, g, u) == Then(Arguments(args, this, env, u), LAMBDA vs, w : Apply(g, vs, w))
    IN  IF f[1] \notin {"var", "dot", "index"}
          THEN Then(Eval(f, env, s), LAMBDA g, u : With(s.mem[env["this"]], g, u))
        ELSE Then(Place(f, env, s), LAMBDA p, u : Then(Read(p, u), LAMBDA g, w :
                With(IF p[1] = "field" /\ ~ofbase THEN p[2] ELSE s.mem[env["this"]], g, w)))

(* The slots of a table constructor.                                       *)
Slots(t, es, env, s) ==
    IF es = <<>> THEN Ok(t, s)
    ELSE Then(Eval(Head(es)[2], env, s), LAMBDA v, u :
            Then(NewField(t, Str(Head(es)[1]), v, u), LAMBDA x, w : Slots(t, Tail(es), env, w)))

(* The members of a class constructor, which _newmember may receive.       *)
Members(c, es, env, s) ==
    LET Method(u) == ClassMethod(u, c[2], "_newmember")
        Add(key, v, u) ==
            IF Method(u) # None THEN Apply(Method(u)[2], << c, key, v, Null, Bool(Head(es)[3]) >>, u)
            ELSE IF key = Null THEN Raise("newslot", u) ELSE AddMember(c, key, v, Head(es)[3], u)
    IN  IF es = <<>> THEN Ok(c, s)
        ELSE Then(Eval(Head(es)[1], env, s), LAMBDA k, u : Then(Eval(Head(es)[2], env, u), LAMBDA v, w :
                Then(Add(k, v, w), LAMBDA x, t : Members(c, Tail(es), env, t))))

(* A class starts as its base.                                             *)
MakeClassOf(base, es, env, s) ==
    LET plain == [fields |-> <<>>, shared |-> <<>>, metas |-> <<>>, base |-> 0, locked |-> FALSE]
        c  == Allocate(s, "class", IF base = Null THEN plain
                                   ELSE [s.heap[base[2]] EXCEPT !.base = base[2], !.locked = FALSE])
        mm == ClassMethod(c.s, c.v[2], "_inherited")
        r  == IF mm = None THEN c ELSE Apply(mm[2], << c.v, Null >>, c.s)
    IN  Then(r, LAMBDA x, u : Members(c.v, es, env, u))

ClassExpression(base, es, env, s) ==
    IF base = <<>> THEN MakeClassOf(Null, es, env, s)
    ELSE Then(Eval(base, env, s), LAMBDA b, u : IF b[1] # "class" THEN Raise("inherit", u) ELSE MakeClassOf(b, es, env, u))

Copy(o, s) ==
    LET new == Allocate(s, o[1], s.heap[o[2]])
        mm  == MetaMethod(s, o, "_cloned")
    IN  IF o[1] \notin {"table", "array", "instance"} THEN Raise("clone", s)
        ELSE IF mm = None THEN new
        ELSE Then(Apply(mm[2], << new.v, o >>, new.s), LAMBDA x, u : Ok(new.v, u))

Unary(op, v, s) ==
    LET Method(name) == MetaMethod(s, v, name)
    IN  CASE op = "NOT"    -> Ok(Bool(IsFalse(v)), s)
          [] op = "RESUME" -> ResumeGenerator(v, s)
          [] op = "CLONE"  -> Copy(v, s)
          [] op = "TYPEOF" -> IF Method("_typeof") # None THEN Apply(Method("_typeof")[2], <<v>>, s) ELSE Ok(Str(v[1]), s)
          [] op = "NEG"    -> IF v[1] = "int" THEN Ok(Num(-v[2]), s)
                              ELSE IF Method("_unm") # None THEN Apply(Method("_unm")[2], <<v>>, s)
                              ELSE Raise("negate", s)

Eval(e, env, s) ==
    LET Both(a, b, Do(_, _, _)) ==
            Then(Eval(a, env, s), LAMBDA x, u : Then(Eval(b, env, u), LAMBDA y, w : Do(x, y, w)))
        Update(p, op, y, post, u) ==
            Then(Read(p, u), LAMBDA x, w : Then(Operate(op, x, y, w), LAMBDA z, t :
                Then(Assigned(p, z, t), LAMBDA q, r : Ok(IF post THEN x ELSE z, r))))
    IN  CASE e[1] \in {"int", "bool", "str", "null"} -> Ok(e, s)
          [] e[1] = "root"  -> Ok(Root, s)
          [] e[1] = "base"  -> Ok(s.mem[env["base"]], s)
          [] e[1] \in {"var", "dot", "index"} -> Then(Place(e, env, s), Read)
          [] e[1] = "call"  -> CallOf(e[2], e[3], env, s)
          [] e[1] = "arith" -> Both(e[3], e[4], LAMBDA x, y, u : Operate(e[2], x, y, u))
          [] e[1] = "cmp"   -> Both(e[3], e[4], LAMBDA x, y, u : Given(CmpOp(e[2], x, y), u))
          [] e[1] = "eq"    -> Both(e[3], e[4], LAMBDA x, y, u : Ok(Bool((x = y) = (e[2] = "EQ")), u))
          [] e[1] = "bitw"  -> Both(e[3], e[4], LAMBDA x, y, u :
                                 IF Ints(x, y) THEN Ok(Num(BitwOp(e[2], x[2], y[2])), u) ELSE Raise("bitwise", u))
          [] e[1] = "in"    -> Both(e[2], e[3], LAMBDA k, o, u : Ok(Bool(HasField(o, k, u)), u))
          [] e[1] = "instanceof" -> Both(e[2], e[3], LAMBDA x, y, u :
                                 IF y[1] # "class" THEN Raise("instanceof", u)
                                 ELSE Ok(Bool(x[1] = "instance" /\ Inherits(u, u.heap[x[2]].class, y[2])), u))
          [] e[1] = "and"   -> Then(Eval(e[2], env, s), LAMBDA x, u : IF IsFalse(x) THEN Ok(x, u) ELSE Eval(e[3], env, u))
          [] e[1] = "or"    -> Then(Eval(e[2], env, s), LAMBDA x, u : IF IsFalse(x) THEN Eval(e[3], env, u) ELSE Ok(x, u))
          [] e[1] = "cond"  -> Then(Eval(e[2], env, s), LAMBDA x, u : Eval(IF IsFalse(x) THEN e[4] ELSE e[3], env, u))
          [] e[1] = "unary" -> Then(Eval(e[3], env, s), LAMBDA x, u : Unary(e[2], x, u))
          [] e[1] = "comma" -> Both(e[2], e[3], LAMBDA x, y, u : Ok(y, u))
          [] e[1] = "set"   -> Then(Place(e[2], env, s), LAMBDA p, u :
                                 Then(Eval(e[3], env, u), LAMBDA v, w : Assigned(p, v, w)))
          [] e[1] = "newslot" -> Then(Place(e[2], env, s), LAMBDA p, u :
                                 Then(Eval(e[3], env, u), LAMBDA v, w : NewField(p[2], p[3], v, w)))
          [] e[1] = "compound" -> Then(Place(e[3], env, s), LAMBDA p, u :
                                 Then(Eval(e[4], env, u), LAMBDA y, w : Update(p, e[2], y, FALSE, w)))
          [] e[1] \in {"inc", "pinc"} -> Then(Place(e[2], env, s), LAMBDA p, u :
                                 Update(p, "ADD", Num(e[3]), e[1] = "pinc", u))
          [] e[1] = "delete" -> Then(Place(e[2], env, s), LAMBDA p, u : DeleteField(p[2], p[3], u))
          [] e[1] = "array"  -> Then(EvalAll([k \in DOMAIN e[2] |-> << e[2][k] >>], <<>>, env, s), LAMBDA vs, u :
                                 Allocate(u, "array", Array(vs)))
          [] e[1] = "table"  -> Then(Allocate(s, "table", Table(<<>>)), LAMBDA t, u : Slots(t, e[2], env, u))
          [] e[1] = "class"  -> ClassExpression(e[2], e[3], env, s)
          [] e[1] = "function" -> MakeFunction(e[2], e[3], FALSE, env, s)
          [] e[1] = "lambda" -> MakeFunction(e[2], e[3], TRUE, env, s)

-----------------------------------------------------------------------------
(* Statements.  A loop ends by its condition or by break.                  *)
Next_(env, s) == Outcome("next", Null, s, env)

Scope(r, env) == [r EXCEPT !.env = env]

ExecAll(ss, env, s) ==
    LET r == Exec(Head(ss), env, s)
    IN  IF ss = <<>> THEN Next_(env, s) ELSE IF r.sig = "next" THEN ExecAll(Tail(ss), r.env, r.s) ELSE r

Body(t, env, s) == Scope(Exec(t, env, s), env)

(* One more turn: the condition, the body, the step.                       *)
Loop(cond, step, body, env, s) ==
    LET c == IF cond = <<>> THEN Ok(Bool(TRUE), s) ELSE Eval(cond, env, s)
        b == Body(body, env, c.s)
        e == IF step = <<>> THEN b ELSE Eval(step, env, b.s)
    IN  IF c.sig # "next" THEN c
        ELSE IF IsFalse(c.v) THEN Next_(env, c.s)
        ELSE IF b.sig = "break" THEN Next_(env, b.s)
        ELSE IF b.sig \notin {"next", "continue"} THEN b
        ELSE IF step # <<>> /\ e.sig # "next" THEN e
        ELSE Loop(cond, step, body, env, e.s)

(* The iterations of foreach from the i-th on.                             *)
Each(o, i, idx, val, body, env, s) ==
    LET at   == [s EXCEPT !.mem[env[idx]] = Num(i)]
        more == o[1] = "array" /\ i < Len(s.heap[o[2]].values)
        g    == ResumeGenerator(o, at)
        item == IF o[1] = "array" THEN Ok(s.heap[o[2]].values[i + 1], at) ELSE g
        b    == Body(body, env, [item.s EXCEPT !.mem[env[val]] = item.v])
    IN  IF o[1] \notin {"array", "generator"} THEN Raise("iterate", s)
        ELSE IF (o[1] = "array" /\ ~more) \/ (o[1] = "generator" /\ IsDead(o, s)) THEN Next_(env, s)
        ELSE IF item.sig # "next" THEN item
        ELSE IF o[1] = "generator" /\ IsDead(o, item.s) THEN Next_(env, item.s)
        ELSE IF b.sig = "break" THEN Next_(env, b.s)
        ELSE IF b.sig \notin {"next", "continue"} THEN b
        ELSE Each(o, i + 1, idx, val, body, env, b.s)

(* The cases from the first that matches on, up to a break.                *)
Cases(v, cases, default, env, s) ==
    LET t   == Eval(cases[1][1], env, s)
        All == FoldLeft(LAMBDA r, k : IF r.sig = "next" THEN Scope(ExecAll(k[2], env, r.s), env) ELSE r,
                        Next_(env, t.s), cases \o [k \in DOMAIN default |-> << <<>>, default[k] >>])
    IN  IF cases = <<>> THEN IF default = <<>> THEN Next_(env, s) ELSE Scope(ExecAll(default[1], env, s), env)
        ELSE IF t.sig # "next" THEN t
        ELSE IF t.v = v THEN All ELSE Cases(v, Tail(cases), default, env, t.s)

Unbroken(r, env) == IF r.sig = "break" THEN Next_(env, r.s) ELSE r

Declare(x, r, env) ==
    LET b == Bind([env |-> env, s |-> r.s], x, r.v) IN IF r.sig = "next" THEN Next_(b.env, b.s) ELSE r

Handled(r, x, handler, env) ==
    LET b == Bind([env |-> env, s |-> r.s], x, r.v)
    IN  IF r.sig = "throw" THEN Body(handler, b.env, b.s) ELSE r

Exec(t, env, s) ==
    LET Value(i) == IF t[i] = <<>> THEN Ok(Null, s) ELSE Eval(t[i], env, s)
        Leave(sig, r) == IF r.sig = "next" THEN Outcome(sig, r.v, r.s, env) ELSE r
    IN  CASE t[1] = "expr"     -> Scope(Value(2), env)
          [] t[1] = "local"    -> Declare(t[2], Value(3), env)
          [] t[1] = "localfun" -> Declare(t[2], MakeFunction(t[3], t[4], FALSE, env, s), env)
          [] t[1] = "function" -> Scope(Then(MakeFunction(t[3], t[4], FALSE, env, s), LAMBDA f, u :
                                    NewField(u.mem[env["this"]], Str(t[2]), f, u)), env)
          [] t[1] = "class"    -> Scope(Then(Place(t[2], env, s), LAMBDA p, u :
                                    Then(ClassExpression(t[3], t[4], env, u), LAMBDA c, w : NewField(p[2], p[3], c, w))), env)
          [] t[1] = "const"    -> Declare(t[2], Ok(t[3], s), env)
          [] t[1] = "block"    -> Scope(ExecAll(t[2], env, s), env)
          [] t[1] = "if"       -> LET c == Value(2)
                                  IN  IF c.sig # "next" THEN c
                                      ELSE IF ~IsFalse(c.v) THEN Body(t[3], env, c.s)
                                      ELSE IF t[4] = <<>> THEN Next_(env, c.s) ELSE Body(t[4], env, c.s)
          [] t[1] = "while"    -> Scope(Loop(t[2], <<>>, t[3], env, s), env)
          [] t[1] = "do"       -> LET b == Body(t[2], env, s)
                                  IN  IF b.sig \in {"next", "continue"} THEN Scope(Loop(t[3], <<>>, t[2], env, b.s), env)
                                      ELSE Unbroken(b, env)
          [] t[1] = "for"      -> LET i == IF t[2] # <<>> /\ t[2][1] = "local" THEN Exec(t[2], env, s)
                                           ELSE Scope(Value(2), env)
                                  IN  IF i.sig = "next" THEN Scope(Loop(t[3], t[4], t[5], i.env, i.s), env) ELSE i
          [] t[1] = "foreach"  -> LET o == Value(4)
                                      b == BindAll(env, o.s, << t[2], t[3] >>, << Null, Null >>)
                                  IN  IF o.sig = "next" THEN Scope(Each(o.v, 0, t[2], t[3], t[5], b.env, b.s), env) ELSE o
          [] t[1] = "switch"   -> LET c == Value(2)
                                  IN  IF c.sig = "next" THEN Unbroken(Cases(c.v, t[3], t[4], env, c.s), env) ELSE c
          [] t[1] \in {"break", "continue"} -> Outcome(t[1], Null, s, env)
          [] t[1] = "return"   -> Leave("return", Value(2))
          [] t[1] = "throw"    -> Leave("throw", Value(2))
          [] t[1] = "yield"    -> LET r == Value(2)
                                      piece == [log |-> r.s.log, sig |-> "next", v |-> r.v]
                                  IN  IF r.sig # "next" THEN r
                                      ELSE Next_(env, [r.s EXCEPT !.yields = Append(@, piece), !.log = <<>>])
          [] t[1] = "try"      -> Scope(Handled(Body(t[2], env, s), t[3], t[4], env), env)

(* What a whole script prints and how it ends.                             *)
Meaning(body) ==
    LET s == [mem |-> <<>>, log |-> <<>>, yields |-> <<>>,
              heap |-> << Table(Str("print") :> <<"native", "print">>), Array(<<>>) >>]
        b == BindAll(<<>>, s, <<"this", "base", "vargv">>, << Root, Null, <<"array", 2>> >>)
        r == Called(ExecAll(body, b.env, b.s))
    IN  [log |-> r.s.log, status |-> IF r.sig = "next" THEN "done" ELSE "error", result |-> r.v]
=============================================================================
