----------------------------- MODULE SquirrelVM -----------------------------
(***************************************************************************)
(* The virtual machine that runs the compiled scripts: SQVM::Execute, one  *)
(* action per group of instructions, on a stack of registers that grows, a *)
(* stack of frames, a stack of exception traps, the outer variables that   *)
(* closures share with live frames, generators, and metamethods, each of   *)
(* which runs in an Execute of its own.                                    *)
(*                                                                         *)
(* A value is a tuple with its type first; an object is named by its place *)
(* in heap, whose first object is the root table.  Messages of errors are  *)
(* tags.  Left out: floats, attributes of classes, the debug hook,         *)
(* suspension.                                                             *)
(***************************************************************************)
EXTENDS SquirrelValues

CONSTANTS Code,             \* the compiled scripts
          InitialStack,     \* registers allocated at the start
          Overhead,         \* MIN_STACK_OVERHEAD
          MaxNativeCalls    \* MAX_NATIVE_CALLS

VARIABLE vm

Proto(path) == FoldLeft(LAMBDA f, k : f.functions[k], Code[vm.program], path)

(* The machine, a record m.  An error is raised with Fail; the instruction *)
(* that meets it throws.                                                   *)
CI(m) == Last(m.calls)
Stk(m, r) == m.stack[m.base + r + 1]
SetStk(m, r, v) == [m EXCEPT !.stack[m.base + r + 1] = v]
Target(m, r, v) == IF r = NONE THEN m ELSE SetStk(m, r, v)
SetCI(m, field, v) == [m EXCEPT !.calls[Len(m.calls)][field] = v]

Fail(m, error) == [m EXCEPT !.error = error, !.failed = TRUE]

Create(m, object) == [m EXCEPT !.heap = Append(@, object)]
NewId(m) == Len(m.heap) + 1

(* The values vs on the stack, from a place on.                            *)
Write(m, from, vs) ==
    [m EXCEPT !.stack = SubSeq(@, 1, from) \o vs \o SubSeq(@, from + Len(vs) + 1, Len(@))]

Nulls(n) == [k \in 1..n |-> Null]

Clear(m, from, to) == IF to < from THEN m ELSE Write(m, from, Nulls(to - from + 1))

PushAll(m, vs) == [Write(m, m.top, vs) EXCEPT !.top = @ + Len(vs)]
FaultyPop(m, n) == Clear(m, m.top - n, m.top - 1)
Pop(m, n) == [Clear(m, m.top - n, m.top - 1) EXCEPT !.top = @ - n]

(* Outer variables.  The list of those whose frame is alive is in the      *)
(* order of their registers, last first; at is the allocation of the stack *)
(* that their pointer points into.                                         *)
Outer(m, id) == IF m.heap[id].open THEN m.stack[m.heap[id].idx + 1] ELSE m.heap[id].value

SetOuter(m, id, v) ==
    IF m.heap[id].open THEN [m EXCEPT !.stack[m.heap[id].idx + 1] = v] ELSE [m EXCEPT !.heap[id].value = v]

(* The place of the first open outer below a register.                     *)
FirstBelow(m, idx) ==
    LET k == SelectInSeq(m.open, LAMBDA o : m.heap[o].idx < idx)
    IN  IF k = 0 THEN Len(m.open) + 1 ELSE k

(* FindOuter: the machine with the outer of a register, and its name.      *)
FindOuter(m, idx) ==
    LET k == FirstBelow(m, idx)
        there == k > 1 /\ m.heap[m.open[k - 1]].idx = idx
    IN  IF there THEN [m |-> m, id |-> m.open[k - 1]]
        ELSE [m  |-> [Create(m, [open |-> TRUE, idx |-> idx, at |-> m.allocation, value |-> Null])
                        EXCEPT !.open = InsertAt(@, k, NewId(m))],
              id |-> NewId(m)]

CloseOuters(m, idx) ==
    LET k == FirstBelow(m, idx)
        Close(d, o) == [d EXCEPT !.heap[o] = [@ EXCEPT !.open = FALSE, !.value = Outer(m, o)]]
    IN  [FoldLeft(Close, m, SubSeq(m.open, 1, k - 1)) EXCEPT !.open = SubSeq(@, k, Len(@))]

FaultyRelocateOuters(m) == m

RelocateOuters(m) ==
    FoldLeft(LAMBDA d, o : [d EXCEPT !.heap[o].at = m.allocation], m, m.open)

(* Frames.                                                                 *)
EnterFrame(m, newbase, newtop, tailcall) ==
    LET frame == [closure |-> 0, ip |-> 1, target |-> -1, prevbase |-> newbase - m.base,
                  prevtop |-> m.top - m.base, etraps |-> 0, generator |-> 0, root |-> FALSE]
        e     == [m EXCEPT !.calls = IF tailcall THEN @ ELSE Append(@, frame),
                           !.base = newbase, !.top = newtop]
    IN  IF newtop + Overhead <= Len(m.stack) THEN e
        ELSE IF m.metamethods > 0 THEN Fail(e, Str("stack overflow"))
        ELSE RelocateOuters([e EXCEPT !.stack = @ \o Nulls(newtop + 4 * Overhead - Len(@)), !.allocation = @ + 1])

LeaveFrame(m) ==
    LET base == m.base - CI(m).prevbase
        top  == base + CI(m).prevtop
        d    == CloseOuters([m EXCEPT !.calls = Front(@), !.base = base, !.top = top], m.base)
    IN  Clear(d, top, m.top)

Kill(m, g) == [m EXCEPT !.heap[g].state = "dead", !.heap[g].stack = <<>>]

(* SQGenerator::Yield: n registers and the traps of the frame move to the  *)
(* generator, the positions of the traps relative to the frame.            *)
Yield(m, g, n) ==
    LET size  == m.top - m.base
        f     == CI(m)
        saved == [k \in 1..size |-> IF k = 1 \/ k <= n THEN m.stack[m.base + k] ELSE Null]
        traps == [k \in 1..f.etraps |->
                    LET t == m.etraps[Len(m.etraps) - f.etraps + k]
                    IN  [t EXCEPT !.base = @ - m.base, !.top = @ - m.base]]
    IN  [Clear(m, m.base, m.top - 1) EXCEPT
            !.etraps = SubSeq(@, 1, Len(@) - f.etraps),
            !.heap[g] = [@ EXCEPT !.state = "suspended", !.stack = saved, !.frame = f, !.etraps = traps]]

(* SQGenerator::Resume, with the register for what it yields.              *)
Resume(m, g, target) ==
    LET o == m.heap[g]
        e == EnterFrame(m, m.top, m.top + Len(o.stack), FALSE)
        d == [Write(e, m.top, o.stack) EXCEPT
                !.calls[Len(e.calls)] =
                    [@ EXCEPT !.generator = g, !.target = target, !.closure = o.frame.closure,
                              !.ip = o.frame.ip, !.etraps = o.frame.etraps, !.root = o.frame.root],
                !.etraps = @ \o [k \in DOMAIN o.etraps |->
                                    [o.etraps[k] EXCEPT !.base = @ + m.top, !.top = @ + m.top]],
                !.heap[g].state = "running", !.heap[g].etraps = <<>>]
    IN  IF o.state = "dead" THEN Fail(m, Str("dead generator"))
        ELSE IF o.state = "running" THEN Fail(m, Str("active generator"))
        ELSE IF e.failed THEN e ELSE d

(* Calls.  The arguments are on the stack from stackbase on, this first.   *)
(* A call of a function with yield only makes its generator.               *)
StartGenerator(m, id, target) ==
    LET g == NewId(m)
        c == Create(m, [state |-> "running", stack |-> <<>>, frame |-> <<>>, etraps |-> <<>>])
        y == Yield(c, g, Proto(m.heap[id].path).stacksize)
        d == IF target = -1 THEN y ELSE [y EXCEPT !.stack[y.base - CI(y).prevbase + target + 1] = Stk(y, target)]
    IN  SetStk(LeaveFrame(d), target, <<"generator", g>>)

Begin(e, id, target, gen) ==
    LET c == [e EXCEPT !.calls[Len(e.calls)] = [@ EXCEPT !.closure = id, !.ip = 1, !.target = target]]
    IN  IF e.failed THEN e ELSE IF gen THEN StartGenerator(c, id, target) ELSE c

StartCall(m, id, target, args, stackbase, tailcall) ==
    LET f       == Proto(m.heap[id].path)
        params  == f.nparams - (IF f.varparams THEN 1 ELSE 0)
        missing == params - args
        ndef    == Len(f.defaults)
        vargv   == SubSeq(m.stack, stackbase + params + 1, stackbase + args)
        gather  == Create(Write(Clear(m, stackbase + params, stackbase + args - 1), stackbase + params,
                                << <<"array", NewId(m)>> >>), Array(vargv))
        fill    == Write(m, stackbase + args, SubSeq(m.heap[id].defaults, ndef - missing + 1, ndef))
        wrong   == IF f.varparams THEN missing > 0 ELSE missing # 0 /\ missing \notin 1..ndef
    IN  IF wrong THEN Fail(m, Str("wrong number of parameters"))
        ELSE Begin(EnterFrame(IF f.varparams THEN gather ELSE fill, stackbase, stackbase + f.stacksize, tailcall),
                   id, target, f.gen)

(* _hsort, without a function to compare with: a heap whose root, at 0, has*)
(* the one child at 1, and r the two at 2 * r and 2 * r + 1.               *)
Swapped(s, i, j) ==
    [s EXCEPT !.values = [@ EXCEPT ![i + 1] = s.values[j + 1], ![j + 1] = s.values[i + 1]]]

RECURSIVE SiftDown(_, _, _)
SiftDown(s, root, bottom) ==
    LET child   == 2 * root
        Order(i, j) == CmpOp("<=>", s.values[i + 1], s.values[j + 1])
        first   == Order(child, child + 1)
        largest == IF child = bottom \/ first = <<"value", Num(1)>> THEN child ELSE child + 1
        second  == Order(root, largest)
    IN  IF s.failed \/ child > bottom THEN s
        ELSE IF (child < bottom /\ first[1] = "error") \/ second[1] = "error" THEN [s EXCEPT !.failed = TRUE]
        ELSE IF second[2] = Num(-1) THEN SiftDown(Swapped(s, root, largest), largest, bottom) ELSE s

HeapSort(values) ==
    LET n == Len(values)
        heap == FoldLeft(LAMBDA s, i : SiftDown(s, n \div 2 - i, n - 1), [values |-> values, failed |-> FALSE],
                         [i \in 1..(n \div 2 + 1) |-> i - 1])
    IN  FoldLeft(LAMBDA s, i : IF s.failed THEN s ELSE SiftDown(Swapped(s, 0, i), 0, i - 1), heap,
                 [k \in 1..(n - 1) |-> n - k])

(* The function of CallNative and what comes after it.                     *)
LeaveNative(e, name, args) ==
    LET r == NativeResult(e, name, args)
        a == HeapSort(e.heap[args[1][2]].values)
        d == LeaveFrame([e EXCEPT !.heap[args[1][2]].values = a.values])
    IN  IF e.failed THEN [m |-> e]
        ELSE IF name # "sort" THEN [m |-> LeaveFrame(r.m), v |-> r.v]
        ELSE IF a.failed THEN [m |-> Fail(d, Str("compare"))] ELSE [m |-> d, v |-> Null]

(* m.execs has the calls that _nnativecalls counts.                        *)
CallNative(m, name, nargs, newbase) ==
    IF Len(m.execs) = MaxNativeCalls THEN [m |-> Fail(m, Str("native stack overflow"))]
    ELSE IF nargs # NativeArguments(name) THEN [m |-> Fail(m, Str("wrong number of parameters"))]
    ELSE LeaveNative(EnterFrame(m, newbase, newbase + nargs, FALSE), name,
                     SubSeq(m.stack, newbase + 1, newbase + nargs))

(* Classes.  members says of a key whether it is a field or a method, and  *)
(* where: fields among the defaults of the class or the values of the      *)
(* instance, methods, static data among them, in the class.                *)
ClassOf(m, o) == m.heap[IF o[1] = "class" THEN o[2] ELSE m.heap[o[2]].class]

HasMember(m, o, key) == o[1] \in {"class", "instance"} /\ key \in DOMAIN ClassOf(m, o).members

Member(m, o, key) ==
    LET at == ClassOf(m, o).members[key]
    IN  IF at[1] = "method" THEN ClassOf(m, o).methods[at[2]]
        ELSE IF o[1] = "class" THEN m.heap[o[2]].defaults[at[2]] ELSE m.heap[o[2]].values[at[2]]

NewClass(m, base) ==
    IF base = 0 THEN [members |-> <<>>, defaults |-> <<>>, methods |-> <<>>, metas |-> <<>>, base |-> 0,
                      ctor |-> 0, locked |-> FALSE]
    ELSE [m.heap[base] EXCEPT !.base = base, !.locked = FALSE]

(* SQClass::NewSlot.  A method knows the base of the class it is put into. *)
NewMember(m, id, key, v, static) ==
    LET c        == m.heap[id]
        function == v[1] \in {"closure", "native"}
        at       == IF key \in DOMAIN c.members THEN c.members[key] ELSE <<"none">>
        bound    == v[1] = "closure" /\ c.base # 0
        d        == IF bound THEN Create(m, [m.heap[v[2]] EXCEPT !.base = c.base]) ELSE m
        method   == IF bound THEN <<"closure", NewId(m)>> ELSE v
        Into(e, member, values, x) ==
            [e EXCEPT !.heap[id] = [@ EXCEPT !.members = (key :> <<member, Len(c[values]) + 1>>) @@ @,
                                             ![values] = Append(@, x)]]
    IN  IF c.locked /\ ~function /\ ~static THEN Fail(m, Str("locked"))
        ELSE IF at[1] = "field" THEN [m EXCEPT !.heap[id].defaults[at[2]] = v]
        ELSE IF function /\ IsMetaName(key) THEN [m EXCEPT !.heap[id].metas = (key :> v) @@ @]
        ELSE IF ~function /\ ~static THEN Into(m, "field", "defaults", v)
        ELSE IF at[1] = "method" THEN [d EXCEPT !.heap[id].methods[at[2]] = method]
        ELSE LET e == Into(d, "method", "methods", method)
             IN  IF key = Str("constructor") THEN [e EXCEPT !.heap[id].ctor = Len(c.methods) + 1] ELSE e

RECURSIVE Lock(_, _)
Lock(m, id) == IF id = 0 THEN m ELSE Lock([m EXCEPT !.heap[id].locked = TRUE], m.heap[id].base)

(* Slots.  A look-up ends with a value, a metamethod of the receiver to    *)
(* call, nothing, or an error at once.                                     *)
RECURSIVE Find(_, _, _)
Find(m, self, key) ==
    LET o == m.heap[self[2]]
        up == Find(m, <<"table", o.delegate>>, key)
        mm == MetaMethod(m, self, "_get")
    IN  CASE self[1] = "table" /\ key \in DOMAIN o.slots -> <<"value", o.slots[key]>>
          [] self[1] = "table" /\ key \notin DOMAIN o.slots ->
                IF o.delegate # 0 /\ up # None THEN up
                ELSE IF mm # None THEN mm ELSE InvokeDefaultDelegate(self, key)
          [] self[1] = "array" /\ key[1] = "int" ->
                IF key[2] + 1 \in DOMAIN o.values THEN <<"value", o.values[key[2] + 1]>> ELSE <<"error">>
          [] HasMember(m, self, key) -> <<"value", Member(m, self, key)>>
          [] self[1] = "instance" /\ ~HasMember(m, self, key) ->
                IF mm # None THEN mm ELSE InvokeDefaultDelegate(self, key)
          [] OTHER -> InvokeDefaultDelegate(self, key)

(* Get: the fields of this, register 0, are looked up in the root table too.*)
Get(m, self, key, selfidx) ==
    LET r == Find(m, self, key) IN IF r = None /\ selfidx = 0 THEN Find(m, Root, key) ELSE r

(* Set: the table or the instance that has the slot.                       *)
RECURSIVE FindSlot(_, _, _)
FindSlot(m, self, key) ==
    LET o  == m.heap[self[2]]
        up == FindSlot(m, <<"table", o.delegate>>, key)
    IN  CASE self[1] = "table" /\ key \in DOMAIN o.slots -> <<"slot", self>>
          [] self[1] = "table" /\ key \notin DOMAIN o.slots ->
                IF o.delegate # 0 /\ up # None THEN up ELSE MetaMethod(m, self, "_set")
          [] self[1] = "array" /\ key[1] = "int" ->
                IF key[2] + 1 \in DOMAIN o.values THEN <<"slot", self>> ELSE <<"error">>
          [] self[1] = "instance" ->
                IF HasMember(m, self, key) /\ ClassOf(m, self).members[key][1] = "field" THEN <<"slot", self>>
                ELSE MetaMethod(m, self, "_set")
          [] OTHER -> <<"cannot">>

PlaceOf(m, self, key, selfidx) ==
    LET r == FindSlot(m, self, key)
    IN  IF r = None /\ selfidx = 0 /\ key \in DOMAIN m.heap[1].slots THEN <<"slot", Root>> ELSE r

Store(m, self, key, v) ==
    IF self[1] = "array" THEN [m EXCEPT !.heap[self[2]].values[key[2] + 1] = v]
    ELSE IF self[1] = "instance" THEN [m EXCEPT !.heap[self[2]].values[ClassOf(m, self).members[key][2]] = v]
    ELSE [m EXCEPT !.heap[self[2]].slots = (key :> v) @@ @]

IdxError == Str("index")

(* Exceptions and metamethods.  execs has an entry for every Execute under *)
(* way: the traps it counts, whether it reports, whether it is counted as  *)
(* the call of a metamethod, and what the instruction that waits for it    *)
(* does with the result: reg takes it, or it is dropped; before that keep, *)
(* two registers, saves what the second one has in the first, and also, a  *)
(* register and a value, is stored.  retry is the look-up that goes on when*)
(* the metamethod fails with null; an error that is ignored is not thrown. *)
Deposit(m, x, v) ==
    LET k == IF x.keep = <<>> THEN m ELSE SetStk(m, x.keep[1], Stk(m, x.keep[2]))
        d == IF x.also = <<>> THEN k ELSE SetStk(k, x.also[1], x.also[2])
    IN  Target(d, x.reg, v)

(* Throw: the innermost frame of this Execute with a trap catches; without *)
(* one the Execute fails, and the instruction waiting for it throws.       *)
RECURSIVE Throw(_), Unwind(_, _)
FaultyThrow(m) ==
    Unwind([m EXCEPT !.failed = FALSE, !.reported = @ + (IF Last(m.execs).traps = 0 THEN 1 ELSE 0)], m.top)

Throw(m) ==
    LET x == Last(m.execs)
    IN  Unwind([m EXCEPT !.failed = FALSE, !.reported = @ + (IF x.traps = 0 /\ x.raise THEN 1 ELSE 0)], m.top)

(* A metamethod that throws null has found nothing: the look-up retry, one *)
(* of a receiver with a single delegate, goes on.  The arguments of a _set *)
(* that does so are not taken off the stack.                               *)
Retry(m, x) ==
    LET kind == x.retry[1]
        self == x.retry[2]
        key  == x.retry[3]
        def  == InvokeDefaultDelegate(self, key)
        r    == IF def # None THEN def ELSE IF x.retry[4] = 0 THEN Find(m, Root, key) ELSE None
    IN  IF kind = "get" /\ r[1] = "value" THEN Deposit(m, x, r[2])
        ELSE IF kind = "set" /\ x.retry[4] = 0 /\ key \in DOMAIN m.heap[1].slots
          THEN Deposit(Store(m, Root, key, x.retry[5]), x, Null)
        ELSE Throw([m EXCEPT !.error = IdxError])

FailExecute(m) ==
    LET x == Last(m.execs)
        e == [m EXCEPT !.execs = Front(@), !.metamethods = @ - x.counted]
    IN  CASE Len(m.execs) = 1 -> [m EXCEPT !.execs = <<>>, !.status = "error", !.result = m.error]
          [] Len(m.execs) > 1 /\ x.retry # <<>> /\ m.error = Null ->
                Retry(IF x.retry[1] = "set" THEN e ELSE Pop(e, x.nparams), x)
          [] Len(m.execs) > 1 /\ x.ignored -> Pop(e, x.nparams)
          [] OTHER -> Throw(Pop(e, x.nparams))

Unwind(m, lasttop) ==
    LET f == CI(m)
        t == Last(m.etraps)
        k == IF f.generator # 0 THEN Kill(m, f.generator) ELSE m
    IN  IF f.etraps > 0
          THEN Clear([m EXCEPT !.calls[Len(m.calls)] = [@ EXCEPT !.ip = t.ip, !.etraps = @ - 1],
                               !.top = t.top, !.base = t.base, !.stack[t.base + t.ex + 1] = m.error,
                               !.etraps = Front(@), !.execs[Len(m.execs)].traps = @ - 1],
                     t.top, lasttop)
        ELSE IF f.root THEN FailExecute(LeaveFrame(k)) ELSE Unwind(LeaveFrame(k), lasttop)

Guard(m) == IF m.failed THEN Throw(m) ELSE m

Throwing(m, error) == Throw(Fail(m, Str(error)))

(* The last Execute has its result, which goes to what waits for it.       *)
Conclude(m, v) ==
    LET x == Last(m.execs)
    IN  Deposit([Pop(m, x.nparams) EXCEPT !.execs = Front(@), !.metamethods = @ - x.counted], x, v)

(* A function called with the arguments, this first: by CallMetaMethod, or *)
(* by Call alone, which does not count the call.  A function with yield    *)
(* has its generator at once, and no frame.  What a class does that is     *)
(* called so is left undefined.                                            *)
CallFunction(m, f, args, x, counted) ==
    LET c == [PushAll(m, args) EXCEPT !.metamethods = @ + counted]
        base == c.top - Len(args)
        Waiting(d) == [d EXCEPT !.failed = FALSE, !.execs = Append(@, x @@
                         [traps |-> 0, raise |-> FALSE, counted |-> counted, nparams |-> Len(args)])]
        Called(r) ==
            CASE r.m.failed -> FailExecute(Waiting(r.m))
              [] ~r.m.failed /\ Len(r.m.calls) > Len(c.calls) -> SetCI(Waiting(r.m), "root", TRUE)
              [] OTHER -> Conclude(Waiting(r.m), IF f[1] = "closure" THEN Stk(r.m, base) ELSE r.v)
    IN  Called(CASE f[1] = "closure" ->
                      [m |-> IF Len(m.execs) = MaxNativeCalls THEN Fail(c, Str("native stack overflow"))
                             ELSE StartCall(c, f[2], base, Len(args), base, FALSE)]
                 [] f[1] = "native" -> CallNative(c, f[2], Len(args), base)
                 [] f[1] \notin {"closure", "native", "class"} -> [m |-> Fail(c, c.error)])

CallMeta(m, f, args, x) == CallFunction(m, f, args, x, 1)

Result(reg) == [reg |-> reg, keep |-> <<>>, also |-> <<>>, retry |-> <<>>, ignored |-> FALSE]

(* Return: from the last frame of an Execute to what waits for it.         *)
Return(m, a0, a1) ==
    LET f == CI(m)
        v == IF a0 = NONE THEN Null ELSE Stk(m, a1)
        d == IF f.root \/ f.target = -1 THEN m
             ELSE [m EXCEPT !.stack[m.base - f.prevbase + f.target + 1] = v]
        l == LeaveFrame(d)
        e == [l EXCEPT !.left = Last(m.execs).traps]
    IN  IF ~f.root THEN l
        ELSE IF Len(m.execs) = 1 THEN [e EXCEPT !.execs = <<>>, !.status = "done", !.result = v]
        ELSE Conclude(e, v)

(* SQVM::Init and the call of the script, with the root table as its this. *)
Ready(program) ==
    LET globals == Table(Str("print") :> <<"native", "print">>)
        script  == [path |-> <<>>, outers |-> <<>>, defaults |-> <<>>, base |-> 0]
        first   == Result(-1) @@ [traps |-> 0, raise |-> TRUE, counted |-> 0, nparams |-> 0]
    IN  [program |-> program, status |-> "ready", result |-> Null, log |-> <<>>,
         heap |-> << globals, script >>, stack |-> <<Null, Root>> \o Nulls(InitialStack - 2), allocation |-> 0,
         base |-> 0, top |-> 2, calls |-> <<>>, execs |-> << first >>, metamethods |-> 0, etraps |-> <<>>,
         open |-> <<>>, failed |-> FALSE, error |-> Null, reported |-> 0, left |-> 0]

Init == vm \in {Ready(program) : program \in DOMAIN Code}

Start ==
    /\ vm.status = "ready"
    /\ vm' = SetCI([StartCall(vm, 2, 1, 1, 1, FALSE) EXCEPT !.status = "running"], "root", TRUE)

(* One instruction.  m is the machine with the instruction pointer moved   *)
(* on, as every instruction finds it.                                      *)
Instruction == Proto(vm.heap[CI(vm).closure].path).ins[CI(vm).ip]
At(ops) == vm.status = "running" /\ Instruction.op \in ops
m == SetCI(vm, "ip", CI(vm).ip + 1)
R(r) == Stk(m, r)
Jump(d, offset) == SetCI(d, "ip", CI(d).ip + offset)

a0 == Instruction.a0
a1 == Instruction.a1
a2 == Instruction.a2
a3 == Instruction.a3

(* What an operator or a look-up gave goes to a register, or is thrown.    *)
Deliver(r, reg) == IF r[1] = "value" THEN Target(m, reg, r[2]) ELSE Throwing(m, r[2])

Line == At({"LINE"}) /\ vm' = m

LoadConstant == At({"LOAD", "LOADINT", "LOADBOOL"}) /\ vm' = SetStk(m, a0, a1)

DLoad == At({"DLOAD"}) /\ vm' = SetStk(SetStk(m, a0, a1), a2, a3)

LoadNulls == At({"LOADNULLS"}) /\ vm' = Clear(m, m.base + a0, m.base + a0 + a1 - 1)

LoadRoot == At({"LOADROOT"}) /\ vm' = SetStk(m, a0, Root)

Move == At({"MOVE"}) /\ vm' = SetStk(m, a0, R(a1))

DMove ==
    /\ At({"DMOVE"})
    /\ vm' = LET d == SetStk(m, a0, R(a1)) IN SetStk(d, a2, Stk(d, a3))

LoadOps == Line \/ LoadConstant \/ DLoad \/ LoadNulls \/ LoadRoot \/ Move \/ DMove

JumpAlways == At({"JMP"}) /\ vm' = Jump(m, a1)

JumpIfFalse == At({"JZ"}) /\ vm' = IF IsFalse(R(a0)) THEN Jump(m, a1) ELSE m

CompareAndJump ==
    /\ At({"JCMP"})
    /\ vm' = LET r == CmpOp(a3, R(a2), R(a0))
             IN  IF r[1] = "error" THEN Throwing(m, r[2]) ELSE IF IsFalse(r[2]) THEN Jump(m, a1) ELSE m

Compare == At({"CMP"}) /\ vm' = Deliver(CmpOp(a3, R(a2), R(a1)), a0)

Equal ==
    /\ At({"EQ", "NE"})
    /\ vm' = LET same == R(a2) = (IF a3 # 0 THEN a1 ELSE R(a1))
             IN  SetStk(m, a0, Bool(same = (Instruction.op = "EQ")))

ShortCircuit ==
    /\ At({"AND", "OR"})
    /\ vm' = IF IsFalse(R(a2)) = (Instruction.op = "AND") THEN Jump(SetStk(m, a0, R(a2)), a1) ELSE m

BranchOps == JumpAlways \/ JumpIfFalse \/ CompareAndJump \/ ShortCircuit

(* What goes wrong in a %, an error of its metamethod among it, is an error*)
(* that nobody throws.                                                     *)
Arithmetic ==
    /\ At({"ADD", "SUB", "MUL", "DIV", "MOD"})
    /\ vm' = LET op == Instruction.op
                 mm == MetaMethod(m, R(a2), ArithMethod(op))
                 r  == ArithOp(op, R(a2), R(a1))
             IN  CASE r[1] = "error" /\ mm # None ->
                        CallMeta(m, mm[2], << R(a2), R(a1) >>, [Result(a0) EXCEPT !.ignored = (op = "MOD")])
                   [] r[1] = "error" /\ mm = None /\ op = "MOD" -> [m EXCEPT !.error = Str(r[2])]
                   [] OTHER -> Deliver(r, a0)

BitwiseOp ==
    /\ At({"BITW"})
    /\ vm' = LET a == R(a2)
                 b == R(a1)
             IN  Deliver(IF Ints(a, b) THEN <<"value", Num(BitwOp(a3, a[2], b[2]))>> ELSE <<"error", "bitwise">>, a0)

Negate ==
    /\ At({"NEG"})
    /\ vm' = LET mm == MetaMethod(m, R(a1), "_unm")
             IN  CASE R(a1)[1] = "int" -> SetStk(m, a0, Num(-R(a1)[2]))
                   [] R(a1)[1] # "int" /\ mm # None -> CallMeta(m, mm[2], << R(a1) >>, Result(a0))
                   [] OTHER -> Throwing(m, "negate")

LogicalNot == At({"NOT"}) /\ vm' = SetStk(m, a0, Bool(IsFalse(R(a1))))

TypeOf ==
    /\ At({"TYPEOF"})
    /\ vm' = LET mm == MetaMethod(m, R(a1), "_typeof")
             IN  IF mm # None THEN CallMeta(m, mm[2], << R(a1) >>, Result(a0)) ELSE SetStk(m, a0, Str(R(a1)[1]))

(* ++ and += on a local variable.                                          *)
Increment ==
    /\ At({"INCL", "PINCL"})
    /\ vm' = LET mm == MetaMethod(m, R(a1), "_add")
                 r  == ArithOp("ADD", R(a1), Num(a3))
                 x  == [Result(a1) EXCEPT !.keep = IF Instruction.op = "PINCL" THEN << a0, a1 >> ELSE <<>>]
             IN  CASE r[1] = "value" -> Deposit(m, x, r[2])
                   [] r[1] = "error" /\ mm # None -> CallMeta(m, mm[2], << R(a1), Num(a3) >>, x)
                   [] r[1] = "error" /\ mm = None -> Throwing(m, r[2])

(* DerefInc: ++ and += on a field that the receiver, or its delegate, has, *)
(* and that holds nothing with a metamethod for it.                        *)
DerefInc ==
    /\ At({"INC", "PINC", "COMPARITH"})
    /\ LET compound == Instruction.op = "COMPARITH"
           selfreg  == IF compound THEN a1[1] ELSE a1
           incr     == IF compound THEN R(a1[2]) ELSE Num(a3)
           self     == R(selfreg)
           key      == R(a2)
           old      == Get(m, self, key, selfreg)
           op       == IF compound THEN a3 ELSE "ADD"
           new      == ArithOp(op, old[2], incr)
           place    == PlaceOf(m, self, key, selfreg)
           d        == SetStk(m, a0, new[2])
       IN  /\ old[1] # "meta" /\ place[1] # "meta"
           /\ old[1] = "value" => MetaMethod(m, old[2], ArithMethod(op)) = None
           /\ vm' = CASE old[1] # "value" -> Throw(Fail(m, IdxError))
                      [] old[1] = "value" /\ new[1] = "error" -> Throwing(m, new[2])
                      [] old[1] = "value" /\ new[1] = "value" /\ place[1] # "slot" ->
                            Throw(Fail(d, IF place[1] = "cannot" THEN Str("set") ELSE IdxError))
                      [] OTHER -> LET e == Store(d, place[2], key, new[2])
                                  IN  IF Instruction.op = "PINC" THEN SetStk(e, a0, old[2]) ELSE e

TestOps == Compare \/ Equal \/ LogicalNot \/ TypeOf

ArithmeticOps == Arithmetic \/ BitwiseOp \/ Negate \/ Increment \/ DerefInc

GetOuter == At({"GETOUTER"}) /\ vm' = SetStk(m, a0, Outer(m, m.heap[CI(m).closure].outers[a1 + 1]))

SetOuterOp ==
    /\ At({"SETOUTER"})
    /\ vm' = LET d == SetOuter(m, m.heap[CI(m).closure].outers[a1 + 1], R(a2))
             IN  Target(d, a0, Stk(d, a2))

CloseOp == At({"CLOSE"}) /\ vm' = CloseOuters(m, m.base + a1)

OuterOps == GetOuter \/ SetOuterOp \/ CloseOp

NewObj ==
    /\ At({"NEWOBJ"})
    /\ a1 \in {"TABLE", "ARRAY"}
    /\ vm' = IF a1 = "TABLE" THEN SetStk(Create(m, Table(<<>>)), a0, <<"table", NewId(m)>>)
             ELSE SetStk(Create(m, Array(<<>>)), a0, <<"array", NewId(m)>>)

(* CLASS_OP.                                                               *)
MakeClass ==
    /\ At({"NEWOBJ"})
    /\ a1 = "CLASS"
    /\ vm' = LET base  == IF a2 = NONE THEN 0 ELSE R(a2)[2]
                 class == <<"class", NewId(m)>>
                 d     == SetStk(Create(m, NewClass(m, base)), a0, class)
                 mm    == ClassMethod(d, class[2], "_inherited")
             IN  CASE a2 # NONE /\ R(a2)[1] # "class" -> Throwing(m, "inherit")
                   [] (a2 = NONE \/ R(a2)[1] = "class") /\ mm # None ->
                        CallFunction(d, mm[2], << class, Null >>, Result(NONE), 0)
                   [] OTHER -> d

(* A member of a class that is being made, which _newmember may receive.   *)
NewSlotA ==
    /\ At({"NEWSLOTA"})
    /\ vm' = LET class == R(a1)
                 mm    == ClassMethod(m, class[2], "_newmember")
             IN  IF mm # None THEN CallMeta(m, mm[2], << class, R(a2), R(a3), Null, Bool(a0) >>, Result(NONE))
                 ELSE IF R(a2) = Null THEN Throwing(m, "newslot")
                 ELSE Guard(NewMember(m, class[2], R(a2), R(a3), a0))

GetBase == At({"GETBASE"}) /\ vm' = SetStk(m, a0, ClassOrNull(m.heap[CI(m).closure].base))

InstanceOf ==
    /\ At({"INSTANCEOF"})
    /\ vm' = IF R(a1)[1] # "class" THEN Throwing(m, "instanceof")
             ELSE SetStk(m, a0, Bool(R(a2)[1] = "instance" /\ Inherits(m, m.heap[R(a2)[2]].class, R(a1)[2])))

AppendArray ==
    /\ At({"APPENDARRAY"})
    /\ vm' = [m EXCEPT !.heap[R(a0)[2]].values = Append(@, IF a2 = "STACK" THEN R(a1) ELSE a1)]

(* CLOSURE_OP: the captured registers become outer variables.              *)
MakeClosure ==
    /\ At({"CLOSURE"})
    /\ vm' = LET self == m.heap[CI(m).closure]
                 path == Append(self.path, a1)
                 Capture(d, o) ==
                      IF o.type = "OUTER" THEN [d EXCEPT !.ids = Append(@, self.outers[o.src + 1])]
                      ELSE LET f == FindOuter(d.m, m.base + o.src) IN [m |-> f.m, ids |-> Append(d.ids, f.id)]
                 c == FoldLeft(Capture, [m |-> m, ids |-> <<>>], Proto(path).outervalues)
                 defaults == [k \in DOMAIN Proto(path).defaults |-> R(Proto(path).defaults[k])]
             IN  SetStk(Create(c.m, [path |-> path, outers |-> c.ids, defaults |-> defaults, base |-> 0]),
                        a0, <<"closure", NewId(c.m)>>)

MakeOps == NewObj \/ AppendArray \/ MakeClosure

ClassOps == MakeClass \/ NewSlotA \/ GetBase \/ InstanceOf

(* GET, GETK and the look-up of a callee, whose receiver becomes its this. *)
GetSlot ==
    /\ At({"GET", "GETK", "PREPCALL", "PREPCALLK"})
    /\ vm' = LET op   == Instruction.op
                 reg  == IF op = "GET" THEN a1 ELSE a2
                 key  == CASE op = "GET" -> R(a2) [] op = "PREPCALL" -> R(a1) [] OTHER -> a1
                 r    == Get(m, R(reg), key, reg)
                 also == IF op \in {"GET", "GETK"} THEN <<>> ELSE << a3, R(reg) >>
                 x    == [Result(a0) EXCEPT !.also = also, !.retry = << "get", R(reg), key, reg >>]
             IN  CASE r[1] = "value" -> Deposit(m, x, r[2])
                   [] r[1] = "meta"  -> CallMeta(m, r[2], << r[3], key >>, x)
                   [] OTHER          -> Throw(Fail(m, IdxError))

SetSlot ==
    /\ At({"SET"})
    /\ vm' = LET p == PlaceOf(m, R(a1), R(a2), a1)
                 x == [Result(NONE) EXCEPT !.also = IF a0 = NONE THEN <<>> ELSE << a0, R(a3) >>,
                                           !.retry = << "set", R(a1), R(a2), a1, R(a3) >>]
             IN  CASE p[1] = "slot"   -> Deposit(Store(m, p[2], R(a2), R(a3)), x, Null)
                   [] p[1] = "meta"   -> CallMeta(m, p[2], << p[3], R(a2), R(a3) >>, x)
                   [] p[1] = "cannot" -> Throwing(m, "set")
                   [] OTHER           -> Throw(Fail(m, IdxError))

NewSlot ==
    /\ At({"NEWSLOT"})
    /\ vm' = LET self == R(a1)
                 mm == IF self[1] = "table" /\ R(a2) \in DOMAIN m.heap[self[2]].slots THEN None
                       ELSE MetaMethod(m, self, "_newslot")
                 x  == [Result(NONE) EXCEPT !.also = IF a0 = NONE THEN <<>> ELSE << a0, R(a3) >>]
                 c  == NewMember(m, self[2], R(a2), R(a3), FALSE)
             IN  CASE R(a2) = Null \/ (self[1] \notin {"table", "class"} /\ mm = None) -> Throwing(m, "newslot")
                   [] R(a2) # Null /\ mm # None -> CallMeta(m, mm[2], << self, R(a2), R(a3) >>, x)
                   [] R(a2) # Null /\ self[1] = "class" -> IF c.failed THEN Throw(c) ELSE Deposit(c, x, Null)
                   [] OTHER -> Deposit(Store(m, self, R(a2), R(a3)), x, Null)

DeleteSlot ==
    /\ At({"DELETE"})
    /\ vm' = LET self == R(a1)
                 mm == MetaMethod(m, self, "_delslot")
                 slots == m.heap[self[2]].slots
             IN  CASE self[1] # "table" /\ mm = None -> Throwing(m, "delete")
                   [] mm # None -> CallMeta(m, mm[2], << self, R(a2) >>, Result(a0))
                   [] self[1] = "table" /\ mm = None /\ R(a2) \in DOMAIN slots ->
                        SetStk([m EXCEPT !.heap[self[2]].slots = [k \in DOMAIN slots \ {R(a2)} |-> slots[k]]],
                               a0, slots[R(a2)])
                   [] OTHER -> Throw(Fail(m, IdxError))

Exists ==
    /\ At({"EXISTS"})
    /\ vm' = LET o == m.heap[R(a1)[2]]
             IN  SetStk(m, a0, Bool(CASE R(a1)[1] = "table" -> R(a2) \in DOMAIN o.slots
                                      [] R(a1)[1] = "array" -> R(a2)[1] = "int" /\ R(a2)[2] + 1 \in DOMAIN o.values
                                      [] OTHER -> HasMember(m, R(a1), R(a2))))

CloneOp ==
    /\ At({"CLONE"})
    /\ vm' = LET new == <<R(a1)[1], NewId(m)>>
                 d   == Create(m, m.heap[R(a1)[2]])
                 mm  == MetaMethod(m, R(a1), "_cloned")
             IN  CASE R(a1)[1] \notin {"table", "array", "instance"} -> Throwing(m, "clone")
                   [] mm # None ->
                        CallMeta(d, mm[2], << new, R(a1) >>, [Result(NONE) EXCEPT !.also = << a0, new >>])
                   [] OTHER -> SetStk(d, a0, new)

SlotOps == GetSlot \/ SetSlot \/ NewSlot \/ DeleteSlot \/ Exists \/ CloneOp

(* A call, in the same Execute; a tail call takes over the frame.          *)
Args == SubSeq(m.stack, m.base + a2 + 1, m.base + a2 + a3)

TailCall ==
    /\ At({"TAILCALL"})
    /\ R(a1)[1] = "closure" /\ ~Proto(m.heap[R(a1)[2]].path).gen
    /\ vm' = LET d == CloseOuters(m, m.base)
             IN  Guard(StartCall(Write(d, m.base, Args), R(a1)[2], CI(m).target, a3, m.base, TRUE))

(* CreateClassInstance and its constructor, whose result is dropped.       *)
Construct(class) ==
    LET c    == m.heap[class]
        inst == <<"instance", NewId(m)>>
        d    == Target(Lock(Create(m, [class |-> class, values |-> c.defaults]), class), a0, inst)
        this == SetStk(d, a2, inst)
        n    == CallNative(this, c.methods[c.ctor][2], a3, m.base + a2)
    IN  IF c.ctor = 0 THEN d
        ELSE CASE c.methods[c.ctor][1] = "closure" ->
                    Guard(StartCall(this, c.methods[c.ctor][2], -1, a3, m.base + a2, FALSE))
               [] c.methods[c.ctor][1] = "native" -> IF n.m.failed THEN Throw(n.m) ELSE n.m
               [] OTHER -> d

Invoke ==
    /\ At({"CALL", "TAILCALL"})
    /\ LET f  == R(a1)
           mm == MetaMethod(m, f, "_call")
           n  == CallNative(m, f[2], a3, m.base + a2)
           target == IF a0 = NONE THEN -1 ELSE a0
       IN  /\ IF Instruction.op = "TAILCALL" /\ f[1] = "closure" THEN Proto(m.heap[f[2]].path).gen ELSE TRUE
           /\ vm' = CASE f[1] = "closure" -> Guard(StartCall(m, f[2], target, a3, m.base + a2, FALSE))
                      [] f[1] = "native"  -> IF n.m.failed THEN Throw(n.m) ELSE Target(n.m, a0, n.v)
                      [] f[1] = "class" -> Construct(f[2])
                      [] mm # None -> CallMeta(m, mm[2], <<f>> \o Args, Result(a0))
                      [] OTHER -> Throwing(m, "call")

ReturnOp ==
    /\ At({"RETURN"})
    /\ vm' = Return(IF CI(m).generator # 0 THEN Kill(m, CI(m).generator) ELSE m, a0, a1)

Trapped(d, n) == [d EXCEPT !.execs[Len(d.execs)].traps = @ + n]

FaultyYieldOp ==
    /\ At({"YIELD"})
    /\ vm' = Return(SetStk(Yield(m, CI(m).generator, a2), a1, R(a1)), a0, a1)

YieldOp ==
    /\ At({"YIELD"})
    /\ vm' = LET y == Yield(m, CI(m).generator, a2)
             IN  Return(SetStk(Trapped(y, -CI(m).etraps), a1, R(a1)), a0, a1)

ResumeOp ==
    /\ At({"RESUME"})
    /\ vm' = LET r == Resume(m, R(a1)[2], a0)
             IN  CASE R(a1)[1] # "generator" -> Throwing(m, "resume")
                   [] R(a1)[1] = "generator" /\ r.failed -> Throw(r)
                   [] OTHER -> Trapped(r, CI(r).etraps)

CallOps == TailCall \/ Invoke \/ ReturnOp \/ YieldOp \/ ResumeOp

(* foreach: the registers after a2 are the index, the value and where the  *)
(* iteration stands.  A generator is resumed for its next value.           *)
ForEach ==
    /\ At({"FOREACH"})
    /\ vm' = LET o    == R(a0)
                 next == IF R(a2 + 2) = Null THEN 0 ELSE R(a2 + 2)[2] + 1
                 At2(d, v) == SetStk(SetStk(d, a2, Num(next)), a2 + 2, v)
                 r    == Resume(At2(m, Num(next)), o[2], a2 + 1)
             IN  CASE o[1] = "array" ->
                        IF next \in 0..(Len(m.heap[o[2]].values) - 1)
                          THEN Jump(SetStk(At2(m, Num(next)), a2 + 1, m.heap[o[2]].values[next + 1]), 1)
                          ELSE Jump(m, a1)
                   [] o[1] = "generator" /\ m.heap[o[2]].state = "dead" -> Jump(m, a1)
                   [] o[1] = "generator" /\ m.heap[o[2]].state = "suspended" -> r
                   [] OTHER -> Throwing(m, "iterate")

PostForEach ==
    /\ At({"POSTFOREACH"})
    /\ vm' = IF m.heap[R(a0)[2]].state = "dead" THEN Jump(m, a1 - 1) ELSE m

LoopOps == ForEach \/ PostForEach

PushTrap ==
    /\ At({"PUSHTRAP"})
    /\ vm' = Trapped([m EXCEPT !.etraps = Append(@, [top |-> m.top, base |-> m.base, ip |-> CI(m).ip + a1, ex |-> a0]),
                               !.calls[Len(m.calls)].etraps = @ + 1], 1)

PopTrap ==
    /\ At({"POPTRAP"})
    /\ vm' = Trapped([m EXCEPT !.etraps = SubSeq(@, 1, Len(@) - a0), !.calls[Len(m.calls)].etraps = @ - a0], -a0)

ThrowOp == At({"THROW"}) /\ vm' = Throw(Fail(m, R(a0)))

Halted == vm.status \in {"done", "error"} /\ UNCHANGED vm

TrapOps == PushTrap \/ PopTrap \/ ThrowOp

(* The switch of Execute: on registers, on objects, and what decides which *)
(* instruction is next.                                                    *)
Registers == LoadOps \/ OuterOps \/ TestOps \/ ArithmeticOps
Objects == MakeOps \/ ClassOps \/ SlotOps
Control == BranchOps \/ LoopOps \/ CallOps \/ TrapOps

Execute == Registers \/ Objects \/ Control

Next == Start \/ Execute \/ Halted

Spec == Init /\ [][Next]_vm
=============================================================================
