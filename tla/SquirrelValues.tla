--------------------------- MODULE SquirrelValues ---------------------------
(***************************************************************************)
(* Values of scripts, the operators on them and the library functions that *)
(* the scripts call.  A value is a tuple with its type first; an object is *)
(* named by its place in heap, whose first object is the root table.       *)
(* Messages of errors are tags.                                            *)
(***************************************************************************)
EXTENDS Integers, SequencesExt, Bitwise

NONE == 255     \* 0xFF, MAX_FUNC_STACKSIZE: no register

Null   == <<"null">>
Num(n) == <<"int", n>>
Str(s) == <<"str", s>>
Bool(b) == <<"bool", b>>

IsFalse(v) == v = Null \/ v = Num(0) \/ v = Bool(FALSE)

Text(v) == CASE v[1] = "str" -> v[2] [] OTHER -> ToString(v[2])

Table(slots)  == [slots |-> slots, delegate |-> 0]
Array(values) == [values |-> values]

Root == <<"table", 1>>

Abs(a) == IF a < 0 THEN -a ELSE a

Truncate(a, b) == LET q == Abs(a) \div Abs(b) IN IF (a < 0) = (b < 0) THEN q ELSE -q

Arith(op, a, b) ==
    CASE op = "ADD" -> a + b [] op = "SUB" -> a - b [] op = "MUL" -> a * b
      [] op = "DIV" -> Truncate(a, b) [] op = "MOD" -> a - b * Truncate(a, b)

ArithMethod(op) ==
    CASE op = "ADD" -> "_add" [] op = "SUB" -> "_sub" [] op = "MUL" -> "_mul"
      [] op = "DIV" -> "_div" [] op = "MOD" -> "_modulo"

Ints(a, b) == a[1] = "int" /\ b[1] = "int"

(* ARITH_OP on anything but a receiver of a metamethod: a value, or an     *)
(* error.                                                                  *)
ArithOp(op, a, b) ==
    IF Ints(a, b)
      THEN IF op \in {"DIV", "MOD"} /\ b[2] = 0 THEN <<"error", "by zero">> ELSE <<"value", Num(Arith(op, a[2], b[2]))>>
    ELSE IF op = "ADD" /\ "str" \in {a[1], b[1]} THEN <<"value", Str(Text(a) \o Text(b))>>
    ELSE <<"error", "arith">>

BitwOp(op, a, b) ==
    CASE op = "AND" -> a & b [] op = "OR" -> a | b [] op = "XOR" -> a ^^ b [] op = "SHIFTL" -> a * 2^b
      [] op = "SHIFTR" -> shiftR(a, b)

(* ObjCmp, on the values that have an order here: null is below the others.*)
CmpOp(op, a, b) ==
    LET r == IF a = b THEN 0
             ELSE IF Ints(a, b) THEN IF a[2] < b[2] THEN -1 ELSE 1
             ELSE IF a = Null THEN -1 ELSE 1
    IN  IF a[1] # b[1] /\ Null \notin {a, b} THEN <<"error", "compare">>
        ELSE <<"value", CASE op = "<" -> Bool(r < 0) [] op = "<=" -> Bool(r <= 0) [] op = ">" -> Bool(r > 0)
                          [] op = ">=" -> Bool(r >= 0) [] op = "<=>" -> Num(r)>>

-----------------------------------------------------------------------------
(* The functions of the base library that the scripts use, and with how    *)
(* many arguments.  sort, without a function to compare with, is defined by*)
(* the machine and by the meaning on their own.                            *)
ClassOrNull(id) == IF id = 0 THEN Null ELSE <<"class", id>>

NativeArguments(name) == IF name \in {"len", "sort", "getclass", "getbase"} THEN 1 ELSE 2

NativeResult(m, name, args) ==
    CASE name = "print"       -> [m |-> [m EXCEPT !.log = Append(@, args[2])], v |-> Null]
      [] name = "getclass"    -> [m |-> m, v |-> <<"class", m.heap[args[1][2]].class>>]
      [] name = "getbase"     -> [m |-> m, v |-> ClassOrNull(m.heap[args[1][2]].base)]
      [] name = "append"      -> [m |-> [m EXCEPT !.heap[args[1][2]].values = Append(@, args[2])], v |-> Null]
      [] name = "len"         -> [m |-> m, v |-> Num(Len(m.heap[args[1][2]].values))]
      [] name = "setdelegate" -> [m |-> [m EXCEPT !.heap[args[1][2]].delegate = args[2][2]], v |-> args[1]]

(* The library functions that a value of a type has without a delegate.    *)
DefaultDelegate(type) ==
    CASE type = "array" -> {"append", "len", "sort"} [] type = "table" -> {"setdelegate"}
      [] type = "instance" -> {"getclass"} [] type = "class" -> {"getbase"} [] OTHER -> {}

None == <<"none">>

(* A table has the metamethods of its delegate, an instance those of its   *)
(* class, which keeps them apart from its members.                         *)
IsMetaName(key) ==
    key[1] = "str" /\ key[2] \in {"_add", "_sub", "_mul", "_div", "_unm", "_modulo", "_set", "_get", "_typeof",
        "_nexti", "_cmp", "_call", "_cloned", "_newslot", "_delslot", "_tostring", "_newmember", "_inherited"}

ClassMethod(m, id, name) ==
    LET metas == m.heap[id].metas IN IF Str(name) \in DOMAIN metas THEN <<"meta", metas[Str(name)]>> ELSE None

MetaMethod(m, self, name) ==
    IF self[1] = "instance" THEN LET c == ClassMethod(m, m.heap[self[2]].class, name)
                                 IN  IF c = None THEN None ELSE Append(c, self)
    ELSE IF self[1] # "table" \/ m.heap[self[2]].delegate = 0 THEN None
    ELSE LET d == m.heap[m.heap[self[2]].delegate].slots
         IN  IF Str(name) \in DOMAIN d THEN <<"meta", d[Str(name)], self>> ELSE None

(* InstanceOf, of the class of an instance.                                *)
RECURSIVE Inherits(_, _, _)
Inherits(m, id, class) == id # 0 /\ (id = class \/ Inherits(m, m.heap[id].base, class))

InvokeDefaultDelegate(self, key) ==
    IF key[1] = "str" /\ key[2] \in DefaultDelegate(self[1]) THEN <<"value", <<"native", key[2]>>>> ELSE None
=============================================================================
