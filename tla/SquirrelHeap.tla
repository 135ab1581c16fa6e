---------------------------- MODULE SquirrelHeap ----------------------------
(***************************************************************************)
(* The objects of the scripts: reference counts (sqobject.h), weak         *)
(* references and delegates (sqobject.cpp), and the collector of cyclic    *)
(* garbage (sqstate.cpp), which walks a chain of all collectable objects.  *)
(* Three kinds of collectable object stand for the rest.  A table may      *)
(* change its link, the delegate, and Finalize drops it (so do userdata,   *)
(* instance and class with theirs).  A closure has its link, the base      *)
(* class, for life: only its destructor drops it.  An array has no link.   *)
(***************************************************************************)
EXTENDS Integers, SequencesExt

CONSTANTS
    Obj,            \* the addresses of objects, 1 .. n
    Slot,           \* the slots of the VM's stack: the roots
    MaxLost         \* objects resurrected at a time, at most

NULL == 0

VARIABLES
    heap,           \* the objects, by address
    gcChain,        \* _gc_chain, the head of the chain
    fault,          \* a freed object was touched
    stack,          \* _stack
    held,           \* a SQObjectPtr local of a native function, in NextNative
    closed          \* ~SQSharedState has run

vars == <<heap, gcChain, fault, stack, held, closed>>

(* The memory, as the functions below pass it on.                          *)
Memory == [heap |-> heap, gc |-> gcChain, fault |-> fault]

Live(S) == DOMAIN S.heap
Collectable(S) == { o \in Live(S) : S.heap[o].kind # "weakref" }

-----------------------------------------------------------------------------
(* The chain.  RemoveFromChain takes an object without predecessor for the *)
(* head of _gc_chain.  tc is the head of the second chain, while marking.  *)
RemoveFromChain(S, o) ==
    LET p == S.heap[o].prev
        n == S.heap[o].next
    IN  [S EXCEPT !.gc   = IF p = NULL THEN n ELSE @,
                  !.heap = [x \in DOMAIN @ |->
                                IF x = o THEN [@[o] EXCEPT !.next = NULL, !.prev = NULL]
                                ELSE IF x = p THEN [@[p] EXCEPT !.next = n]
                                ELSE IF x = n THEN [@[n] EXCEPT !.prev = p] ELSE @[x]]]

Linked(h, o, head) ==
    [x \in DOMAIN h |-> IF x = o THEN [h[o] EXCEPT !.prev = NULL, !.next = head]
                        ELSE IF x = head THEN [h[x] EXCEPT !.prev = o] ELSE h[x]]

AddToChain(S, o) == [S EXCEPT !.heap = Linked(@, o, S.gc), !.gc = o]

RECURSIVE Chain(_, _)
Chain(S, o) == IF o = NULL THEN <<>> ELSE <<o>> \o Chain(S, S.heap[o].next)

-----------------------------------------------------------------------------
AddRef(S, o) ==
    IF o = NULL THEN S
    ELSE IF o \notin Live(S) THEN [S EXCEPT !.fault = TRUE]
    ELSE [S EXCEPT !.heap[o].uiRef = @ + 1]

RECURSIVE Release(_, _), Finalize(_, _), Destroy(_, _)

(* A count with the mark in it does not become 0.                          *)
Release(S, o) ==
    IF o = NULL THEN S
    ELSE IF o \notin Live(S) THEN [S EXCEPT !.fault = TRUE]
    ELSE LET T == [S EXCEPT !.heap[o].uiRef = @ - 1]
         IN  IF T.heap[o].uiRef = 0 /\ ~T.heap[o].marked THEN Destroy(T, o) ELSE T

ReleaseAll(S, refs) == FoldLeft(Release, S, refs)

(* What an object holds is dropped; the link of a closure is not.          *)
Finalize(S, o) ==
    LET x == S.heap[o]
        T == ReleaseAll([S EXCEPT !.heap[o].vals = <<NULL>>], x.vals)
    IN  IF x.kind = "table" THEN Release([T EXCEPT !.heap[o].link = NULL], x.link) ELSE T

(* A weak reference forgets the object that dies, and the other way round. *)
Destroy(S, o) ==
    LET x == S.heap[o]
        Free(T) == [T EXCEPT !.heap = [a \in DOMAIN @ \ {o} |-> @[a]]]
        T == Finalize(S, o)
        U == Release([T EXCEPT !.heap[o].link = NULL], T.heap[o].link)
        V == IF x.marked THEN U ELSE RemoveFromChain(U, o)
        w == V.heap[o].weak
        W == IF w = NULL THEN V ELSE [V EXCEPT !.heap[w].link = NULL]
    IN  IF x.kind = "weakref"
          THEN Free(IF x.link = NULL THEN S ELSE [S EXCEPT !.heap[x.link].weak = NULL])
          ELSE Free(W)

(* Faulty: drops before it counts.                                         *)
AssignReleaseFirst(S, old, new) == AddRef(Release(S, old), new)

(* The assignment of an SQObjectPtr counts the new object before it drops  *)
(* the old one.                                                            *)
Assign(S, old, new) == Release(AddRef(S, new), old)

New(S, kind, link) ==
    LET o == CHOOSE a \in Obj : a \notin Live(S)
        x == [kind |-> kind, uiRef |-> 0, marked |-> FALSE, vals |-> <<NULL>>, link |-> link,
              weak |-> NULL, next |-> NULL, prev |-> NULL]
        T == [S EXCEPT !.heap = [a \in DOMAIN @ \cup {o} |-> IF a = o THEN x ELSE @[a]]]
    IN  [obj |-> o, mem |-> IF kind = "weakref" THEN T ELSE AddToChain(AddRef(T, link), o)]

GetWeakRef(S, o) ==
    IF S.heap[o].weak # NULL THEN [obj |-> S.heap[o].weak, mem |-> S]
    ELSE LET w == New(S, "weakref", o)
         IN  [w EXCEPT !.mem.heap[o].weak = w.obj]

RealVal(S, o) == IF o # NULL /\ S.heap[o].kind = "weakref" THEN S.heap[o].link ELSE o

RECURSIVE Delegates(_, _)
Delegates(S, o) == IF o = NULL THEN {} ELSE {o} \cup Delegates(S, S.heap[o].link)

-----------------------------------------------------------------------------
(* The collector.  Marked objects move to the chain tc, children first.    *)
RECURSIVE Mark(_, _)
Mark(S, o) ==
    IF o = NULL \/ S.heap[o].kind = "weakref" \/ S.heap[o].marked THEN S
    ELSE LET x == S.heap[o]
             T == FoldLeft(Mark, [S EXCEPT !.heap[o].marked = TRUE], <<x.link>> \o x.vals)
             U == RemoveFromChain(T, o)
         IN  [U EXCEPT !.heap = Linked(@, o, U.tc), !.tc = o]

(* Faulty: the last root is forgotten.                                     *)
RunMarkButLast(S, roots) == FoldLeft(Mark, S @@ [tc |-> NULL], Front(roots))

RunMark(S, roots) == FoldLeft(Mark, S @@ [tc |-> NULL], roots)

UnMark(S) == [S EXCEPT !.heap = [o \in DOMAIN @ |-> [@[o] EXCEPT !.marked = FALSE]]]

(* The objects from t on are emptied, and freed when nothing holds them.   *)
RECURSIVE Sweep(_, _)
Sweep(S, t) ==
    IF t = NULL THEN S
    ELSE LET T  == Finalize(S, t)
             nx == T.heap[t].next
         IN  Sweep(Release(AddRef(T, nx), t), nx)

CollectGarbage(S, roots) ==
    LET M == RunMark(S, roots)
        T == Sweep(AddRef(M, M.gc), M.gc)
    IN  UnMark([T EXCEPT !.gc = M.tc])

(* The unreachable objects, in a new array, and back on the chain.         *)
ResurrectUnreachable(S, roots) ==
    LET M    == RunMark(S, roots)
        lost == Chain(M, M.gc)
        new  == New([M EXCEPT !.gc = M.tc], "array", NULL)
        ret  == [FoldLeft(AddRef, new.mem, lost) EXCEPT !.heap[new.obj].vals = lost]
        back == [ret EXCEPT !.heap[Last(lost)].next = ret.gc, !.heap[ret.gc].prev = Last(lost),
                            !.gc = M.gc]
    IN  IF lost = <<>> THEN [obj |-> NULL, mem |-> UnMark([M EXCEPT !.gc = M.tc])]
        ELSE [obj |-> new.obj, mem |-> UnMark(back)]

-----------------------------------------------------------------------------
Roots == SetToSeq({ stack[s] : s \in Slot })
Room == \E a \in Obj : a \notin DOMAIN heap
Kind(s, k) == stack[s] # NULL /\ heap[stack[s]].kind = k

Becomes(S) == heap' = S.heap /\ gcChain' = S.gc /\ fault' = S.fault

(* A slot of the stack gets an object that was just made or fetched.       *)
Put(s, S, o) ==
    /\ Becomes(Assign(S, stack[s], o))
    /\ stack' = [stack EXCEPT ![s] = o]
    /\ UNCHANGED <<held, closed>>

NewTable(s) ==
    /\ Room
    /\ LET t == New(Memory, "table", NULL) IN Put(s, t.mem, t.obj)

(* A method added to a derived class: a closure with its base.             *)
NewClosure(s, base) ==
    /\ Room /\ Kind(base, "table")
    /\ LET c == New(Memory, "closure", stack[base]) IN Put(s, c.mem, c.obj)

Load(s, from) ==
    /\ stack[from] # NULL /\ heap[stack[from]].kind # "weakref"
    /\ Put(s, Memory, RealVal(Memory, Head(heap[stack[from]].vals)))

Clear(s) == Put(s, Memory, NULL)

WeakRef(s, of) ==
    /\ stack[of] # NULL /\ heap[stack[of]].kind # "weakref"
    /\ Room \/ heap[stack[of]].weak # NULL
    /\ LET w == GetWeakRef(Memory, stack[of]) IN Put(s, w.mem, w.obj)

Store(s, to) ==
    /\ stack[to] # NULL /\ heap[stack[to]].kind # "weakref"
    /\ LET old == Head(heap[stack[to]].vals)
       IN  Becomes(Release([AddRef(Memory, stack[s]) EXCEPT
                                !.heap[stack[to]].vals[1] = stack[s]], old))
    /\ UNCHANGED <<stack, held, closed>>

(* A delegate that would close a circle of delegates is refused.           *)
SetDelegate(s, d) ==
    /\ Kind(s, "table") /\ (stack[d] = NULL \/ Kind(d, "table"))
    /\ stack[s] \notin Delegates(Memory, stack[d])
    /\ Becomes([Release(AddRef(Memory, stack[d]), heap[stack[s]].link) EXCEPT
                    !.heap[stack[s]].link = stack[d]])
    /\ UNCHANGED <<stack, held, closed>>

Collect ==
    /\ Becomes(CollectGarbage(Memory, Roots))
    /\ UNCHANGED <<stack, held, closed>>

Resurrect(s) ==
    /\ Room
    /\ LET r == ResurrectUnreachable(Memory, Roots)
       IN  /\ r.obj # NULL => Len(r.mem.heap[r.obj].vals) <= MaxLost
           /\ Put(s, r.mem, r.obj)

(* array.map and filter: the result is in a local while a script runs, and *)
(* on the stack when they return.                                          *)
Hold ==
    /\ Room /\ held = NULL
    /\ LET r == New(Memory, "array", NULL)
       IN  held' = r.obj /\ Becomes(AddRef(r.mem, r.obj))
    /\ UNCHANGED <<stack, closed>>

Return(s) ==
    /\ held # NULL
    /\ held' = NULL
    /\ stack' = [stack EXCEPT ![s] = held]
    /\ Becomes(Release(Assign(Memory, stack[s], held), held))
    /\ UNCHANGED closed

(* Faulty: the chain is not swept.                                         *)
CloseUnswept ==
    /\ held = NULL
    /\ Becomes(ReleaseAll(Memory, [i \in 1 .. Cardinality(Slot) |-> stack[SetToSeq(Slot)[i]]]))
    /\ stack' = [s \in Slot |-> NULL] /\ closed' = TRUE /\ UNCHANGED held

(* sq_close: the root VM lets go of its stack, then the chain is swept.    *)
Close ==
    /\ held = NULL
    /\ LET S == ReleaseAll(Memory, [i \in 1 .. Cardinality(Slot) |-> stack[SetToSeq(Slot)[i]]])
       IN  Becomes(Sweep(AddRef(S, S.gc), S.gc))
    /\ stack' = [s \in Slot |-> NULL] /\ closed' = TRUE /\ UNCHANGED held

Init ==
    /\ heap = <<>> /\ gcChain = NULL /\ fault = FALSE
    /\ stack = [s \in Slot |-> NULL] /\ held = NULL /\ closed = FALSE

Next ==
    /\ ~closed
    /\ \/ \E s \in Slot : NewTable(s) \/ Clear(s) \/ Resurrect(s)
       \/ \E s, t \in Slot :
            \/ NewClosure(s, t) \/ Load(s, t) \/ WeakRef(s, t)
            \/ Store(s, t) \/ SetDelegate(s, t)
       \/ Collect \/ Close

Spec == Init /\ [][Next]_vars

(* The same with a native function that keeps an object for itself.        *)
NextNative == Next \/ (~closed /\ (Hold \/ \E s \in Slot : Return(s)))

SpecNative == Init /\ [][NextNative]_vars

-----------------------------------------------------------------------------
(* The references an object holds.                                         *)
Holds(h, o) == IF h[o].kind = "weakref" THEN <<>> ELSE <<h[o].link>> \o h[o].vals

Count(seq, o) == Cardinality({ i \in DOMAIN seq : seq[i] = o })

RECURSIVE Reach(_, _)
Reach(h, set) ==
    LET more == set \cup (UNION { Range(Holds(h, o)) : o \in set } \ {NULL})
    IN  IF more = set THEN set ELSE Reach(h, more)

Reachable(h, st) == Reach(h, { st[s] : s \in Slot } \ {NULL})

(* Every object has as many references as its count says; no freed object  *)
(* is touched, or referred to, weakly or not; and the chain holds the      *)
(* collectable objects, each of them once.                                 *)
Sound ==
    LET roots == [s \in Slot |-> stack[s]]
    IN  /\ ~fault
        /\ \A o \in DOMAIN heap :
            /\ heap[o].uiRef = Count(roots, o) + (IF held = o THEN 1 ELSE 0)
                                + MapThenSumSet(LAMBDA p : Count(Holds(heap, p), o), DOMAIN heap)
            /\ { heap[o].link, heap[o].weak } \cup Range(heap[o].vals) \subseteq DOMAIN heap \cup {NULL}
            /\ heap[o].kind = "weakref" /\ heap[o].link # NULL => heap[heap[o].link].weak = o
            /\ heap[o].weak # NULL => heap[heap[o].weak].link = o
            /\ ~heap[o].marked
        /\ Range(Chain(Memory, gcChain)) = Collectable(Memory)
        /\ \A o, p \in Collectable(Memory) : heap[o].next = p <=> heap[p].prev = o

(* A collection frees what is out of reach, all of it and nothing else,    *)
(* and leaves the rest as it was; resurrection returns the same objects.   *)
CollectorExact ==
    LET kept  == Reachable(heap, stack)
        lost  == Collectable(Memory) \ kept
        after == CollectGarbage(Memory, Roots).heap
        back  == ResurrectUnreachable(Memory, Roots)
    IN  ~closed =>
        /\ DOMAIN after = kept
        /\ \A o \in kept :
            /\ Holds(after, o) = Holds(heap, o)
            /\ heap[o].kind = "weakref" =>
                after[o].link = IF heap[o].link \in kept THEN heap[o].link ELSE NULL
        /\ Room =>
            /\ lost = IF back.obj = NULL THEN {} ELSE Range(back.mem.heap[back.obj].vals)
            /\ Range(Chain(back.mem, back.mem.gc)) = Collectable(back.mem)

(* sq_close leaves no object, in circles or not.                           *)
ClosesEmpty == closed => heap = <<>> /\ gcChain = NULL

(* The assertion in ~SQSharedState, sqstate.cpp:207.                       *)
ChainEmpty == closed => gcChain = NULL
=============================================================================
