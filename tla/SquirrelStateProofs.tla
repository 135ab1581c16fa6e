------------------------- MODULE SquirrelStateProofs -------------------------
(***************************************************************************)
(* Strings exist once and the references of the host are counted, for      *)
(* every hash function, any texts, and any sequence of operations.         *)
(***************************************************************************)
EXTENDS SquirrelState, FiniteSetTheorems, TLAPS

USE KeyAssumption, StringAssumption

-----------------------------------------------------------------------------
(* The inductive invariant.                                                *)
String == [text : Key, uiRef : Nat]

Node == [obj : Address \cup {null}, refs : Nat]

(* The texts by address: all that the two tables depend on.                *)
Texts(h) == [s \in DOMAIN h |-> h[s].text]

Named(x) ==
    /\ x \in [DOMAIN x -> Key] /\ DOMAIN x \subseteq Address
    /\ \A s, u \in DOMAIN x : x[s] = x[u] => s = u

(* The chains of a string table are those of the strings that exist.       *)
Slots(N, x) == [i \in 1 .. N |-> {s \in DOMAIN x : Hashed(N, x[s]) = i}]

Parts(N, used, c) == [numofslots |-> N, slotused |-> used, slots |-> c]

StringsOk(t, x) ==
    /\ t.numofslots \in Nat \ {0}
    /\ t = Parts(t.numofslots, t.slotused, Slots(t.numofslots, x))

(* A reference table is what its nodes make of it.                         *)
UsedNodes(N, nodes) == {n \in 1 .. N : nodes[n].obj # null}

Buckets(N, nodes, x) ==
    [i \in 1 .. N |-> {n \in UsedNodes(N, nodes) : Hashed(N, x[nodes[n].obj]) = i}]

RefParts(N, used, nodes, b, free) ==
    [numofslots |-> N, slotused |-> used, nodes |-> nodes, buckets |-> b, freelist |-> free]

RefsTable(N, nodes, x) ==
    RefParts(N, Cardinality(UsedNodes(N, nodes)), nodes, Buckets(N, nodes, x),
             (1 .. N) \ UsedNodes(N, nodes))

(* The nodes are one for each string held, with the count of the host.     *)
NodesOk(N, nodes, x, held) ==
    /\ nodes \in [1 .. N -> Node]
    /\ \A n \in UsedNodes(N, nodes) :
          /\ nodes[n].obj \in DOMAIN x
          /\ held[x[nodes[n].obj]] > 0 /\ nodes[n].refs = held[x[nodes[n].obj]]
    /\ \A n, m \in UsedNodes(N, nodes) : nodes[n].obj = nodes[m].obj => n = m
    /\ \A s \in DOMAIN x : held[x[s]] > 0 => \E n \in UsedNodes(N, nodes) : nodes[n].obj = s

RefsOk(r, x, held) ==
    /\ r.numofslots \in Nat \ {0}
    /\ r = RefsTable(r.numofslots, r.nodes, x)
    /\ NodesOk(r.numofslots, r.nodes, x, held)

(* A string has the references of the stack and one of the host's table,   *)
(* and exists as long as there are any.                                    *)
CountsOk(h, onStack, held) ==
    /\ onStack \in [Key -> Nat] /\ held \in [Key -> Nat]
    /\ h \in [DOMAIN h -> String]
    /\ \A s \in DOMAIN h :
          /\ h[s].uiRef > 0
          /\ h[s].uiRef = onStack[h[s].text] + (IF held[h[s].text] > 0 THEN 1 ELSE 0)
    /\ \A k \in Key : onStack[k] + held[k] > 0 => \E s \in DOMAIN h : h[s].text = k

SharedInv ==
    /\ Named(Texts(heap))
    /\ StringsOk(strings, Texts(heap))
    /\ RefsOk(refs, Texts(heap), hostRefs)
    /\ CountsOk(heap, stackRefs, hostRefs)

-----------------------------------------------------------------------------
(* Lemmas about the operators.                                             *)

(* A text has a slot.                                                      *)
LEMMA HashedType ==
    ASSUME NEW N \in Nat \ {0}, NEW k \in Key
    PROVE  Hashed(N, k) \in 1 .. N
  <1>1. Hash[k] \in Nat
    OBVIOUS
  <1>2. Hash[k] % N \in 0 .. N - 1
    BY <1>1
  <1> QED
    BY <1>2 DEF Hashed

IsTable(t) == t = Parts(t.numofslots, t.slotused, t.slots)

(* The parts of a string table.                                            *)
LEMMA StringFields ==
    ASSUME NEW t, NEW x, StringsOk(t, x)
    PROVE  /\ t.numofslots \in Nat \ {0}
           /\ t.slots = Slots(t.numofslots, x)
           /\ IsTable(t)
  BY DEF StringsOk, Parts, IsTable

(* A string table that is put together of them.                            *)
LEMMA StringsFrom ==
    ASSUME NEW N \in Nat \ {0}, NEW used, NEW x
    PROVE  StringsOk(Parts(N, used, Slots(N, x)), x)
  BY DEF StringsOk, Parts

(* The chain of a text holds the string that has it.                       *)
LEMMA InSlot ==
    ASSUME NEW t, NEW x, StringsOk(t, x), Named(x), NEW s \in DOMAIN x
    PROVE  s \in t.slots[Hashed(t.numofslots, x[s])]
  <1>1. x[s] \in Key
    BY DEF Named
  <1>2. t.numofslots \in Nat \ {0} /\ t.slots = Slots(t.numofslots, x)
    BY StringFields
  <1>3. Hashed(t.numofslots, x[s]) \in 1 .. t.numofslots
    BY <1>1, <1>2, HashedType
  <1>4. s \in Slots(t.numofslots, x)[Hashed(t.numofslots, x[s])]
    BY <1>3 DEF Slots
  <1> QED
    BY <1>2, <1>4

(* And nothing that does not exist.                                        *)
LEMMA SlotExists ==
    ASSUME NEW t, NEW x, StringsOk(t, x), NEW k \in Key,
           NEW s \in t.slots[Hashed(t.numofslots, k)]
    PROVE  s \in DOMAIN x
  <1>1. t.numofslots \in Nat \ {0} /\ t.slots = Slots(t.numofslots, x)
    BY StringFields
  <1>2. Hashed(t.numofslots, k) \in 1 .. t.numofslots
    BY <1>1, HashedType
  <1>3. s \in Slots(t.numofslots, x)[Hashed(t.numofslots, k)]
    BY <1>1
  <1> QED
    BY <1>2, <1>3 DEF Slots

(* The parts of a reference table.                                         *)
IsRefTable(r) == r = RefParts(r.numofslots, r.slotused, r.nodes, r.buckets, r.freelist)

LEMMA RefFields ==
    ASSUME NEW r, NEW x, NEW held, RefsOk(r, x, held)
    PROVE  /\ r.numofslots \in Nat \ {0}
           /\ r.slotused = Cardinality(UsedNodes(r.numofslots, r.nodes))
           /\ r.buckets = Buckets(r.numofslots, r.nodes, x)
           /\ r.freelist = (1 .. r.numofslots) \ UsedNodes(r.numofslots, r.nodes)
           /\ NodesOk(r.numofslots, r.nodes, x, held)
           /\ IsRefTable(r)
  BY DEF RefsOk, RefsTable, RefParts, IsRefTable

(* A table that is put together of them.                                   *)
LEMMA RefsFrom ==
    ASSUME NEW N \in Nat \ {0}, NEW nodes, NEW x, NEW held, NodesOk(N, nodes, x, held)
    PROVE  RefsOk(RefsTable(N, nodes, x), x, held)
  <1>1. RefsTable(N, nodes, x).numofslots = N /\ RefsTable(N, nodes, x).nodes = nodes
    BY DEF RefsTable, RefParts
  <1> QED
    BY <1>1 DEF RefsOk

(* The texts of the heap are functions of the strings alive.               *)
LEMMA TextsOf ==
    /\ DOMAIN Texts(heap) = Alive
    /\ \A s \in Alive : Texts(heap)[s] = TextOf(s)
  BY DEF Texts, Alive, TextOf

(* A string has a node exactly when the host holds it, with its count.     *)
LEMMA NodeFound ==
    ASSUME NEW r, NEW held \in [Key -> Nat], RefsOk(r, Texts(heap), held),
           Named(Texts(heap)), NEW s \in Alive
    PROVE  /\ held[TextOf(s)] = 0 => NodeOf(r, s) = 0
           /\ held[TextOf(s)] > 0 =>
                 /\ NodeOf(r, s) \in UsedNodes(r.numofslots, r.nodes)
                 /\ r.nodes[NodeOf(r, s)].obj = s
                 /\ r.nodes[NodeOf(r, s)].refs = held[TextOf(s)]
  <1> DEFINE x == Texts(heap)
             N == r.numofslots
             U == UsedNodes(N, r.nodes)
             b == ObjHash(r, s)
             found == {n \in r.buckets[b] : r.nodes[n].obj = s}
  <1>1. s \in DOMAIN x /\ x[s] = TextOf(s) /\ x[s] \in Key
    BY TextsOf DEF Named
  <1>2. N \in Nat \ {0} /\ r.buckets = Buckets(N, r.nodes, x) /\ NodesOk(N, r.nodes, x, held)
    BY RefFields
  <1>3. b \in 1 .. N /\ b = Hashed(N, x[s])
    BY <1>1, <1>2, HashedType DEF ObjHash
  <1>4. r.buckets[b] = {n \in U : Hashed(N, x[r.nodes[n].obj]) = b}
    BY <1>2, <1>3 DEF Buckets
  <1>5. found = {n \in U : r.nodes[n].obj = s}
    BY <1>3, <1>4
  <1>6. NodeOf(r, s) = IF found = {} THEN 0 ELSE CHOOSE n \in found : TRUE
    BY DEF NodeOf
  <1>7. CASE held[TextOf(s)] = 0
    <2>1. found = {}
      BY <1>1, <1>2, <1>5, <1>7 DEF NodesOk
    <2> QED
      BY <2>1, <1>6, <1>7
  <1>8. CASE held[TextOf(s)] > 0
    <2>1. found # {}
      BY <1>1, <1>2, <1>5, <1>8 DEF NodesOk
    <2>2. NodeOf(r, s) \in found
      BY <2>1, <1>6
    <2>3. NodeOf(r, s) \in U /\ r.nodes[NodeOf(r, s)].obj = s
      BY <2>2, <1>5
    <2>4. r.nodes[NodeOf(r, s)].refs = held[x[s]]
      BY <2>3, <1>2 DEF NodesOk
    <2> QED
      BY <2>3, <2>4, <1>1, <1>8
  <1> QED
    BY <1>1, <1>7, <1>8

(* A reference table depends on the texts of what it holds, nothing else.  *)
LEMMA RefsFrame ==
    ASSUME NEW r, NEW x, NEW y, NEW held, RefsOk(r, x, held),
           \A s \in DOMAIN x : held[x[s]] > 0 => s \in DOMAIN y /\ y[s] = x[s],
           \A s \in DOMAIN y : held[y[s]] > 0 => s \in DOMAIN x /\ y[s] = x[s]
    PROVE  RefsOk(r, y, held)
  <1> DEFINE N == r.numofslots
             U == UsedNodes(N, r.nodes)
  <1>1. NodesOk(N, r.nodes, x, held)
    BY RefFields
  <1>2. \A n \in U : r.nodes[n].obj \in DOMAIN y /\ y[r.nodes[n].obj] = x[r.nodes[n].obj]
    BY <1>1 DEF NodesOk
  <1>3. NodesOk(N, r.nodes, y, held)
    BY <1>1, <1>2 DEF NodesOk
  <1>4. Buckets(N, r.nodes, y) = Buckets(N, r.nodes, x)
    BY <1>2 DEF Buckets
  <1>5. RefsTable(N, r.nodes, y) = RefsTable(N, r.nodes, x)
    BY <1>4 DEF RefsTable
  <1> QED
    BY <1>3, <1>5 DEF RefsOk

-----------------------------------------------------------------------------
(* Strings come and go.                                                    *)

(* Chains with a string more, and with one less.                           *)
With(c, b, a) == [c EXCEPT ![b] = @ \cup {a}]

Without(c, b, a) == [c EXCEPT ![b] = @ \ {a}]

(* What the operations on a string table make of its parts.                *)
Link(t, b, a) == [t EXCEPT !.slots[b] = @ \cup {a}, !.slotused = @ + 1]

Unlink(t, b, a) == [t EXCEPT !.slots[b] = @ \ {a}, !.slotused = @ - 1]

Larger(t, N, c) == [t EXCEPT !.numofslots = N, !.slots = c]

LEMMA OnePart ==
    ASSUME NEW N, NEW u, NEW c
    PROVE  /\ \A m : [Parts(N, u, c) EXCEPT !.numofslots = m] = Parts(m, u, c)
           /\ \A v : [Parts(N, u, c) EXCEPT !.slotused = v] = Parts(N, v, c)
           /\ \A d : [Parts(N, u, c) EXCEPT !.slots = d] = Parts(N, u, d)
           /\ Parts(N, u, c).numofslots = N /\ Parts(N, u, c).slotused = u
           /\ Parts(N, u, c).slots = c
  BY DEF Parts

LEMMA StringParts ==
    ASSUME NEW t, IsTable(t), NEW b, NEW a
    PROVE  /\ Link(t, b, a) = Parts(t.numofslots, t.slotused + 1, With(t.slots, b, a))
           /\ Unlink(t, b, a) = Parts(t.numofslots, t.slotused - 1, Without(t.slots, b, a))
           /\ Larger(t, b, a) = Parts(b, t.slotused, a)
  <1>1. PICK N, u, c : N = t.numofslots /\ u = t.slotused /\ c = t.slots
    OBVIOUS
  <1>2. t = Parts(N, u, c)
    BY <1>1 DEF IsTable, Parts
  <1>3. Link(t, b, a) = Parts(N, u + 1, With(c, b, a))
    <2>1. Link(t, b, a) = [[t EXCEPT !.slots[b] = @ \cup {a}] EXCEPT !.slotused = @ + 1]
      BY DEF Link
    <2>2. [t EXCEPT !.slots[b] = @ \cup {a}] = [t EXCEPT !.slots = With(t.slots, b, a)]
      BY DEF With
    <2>3. [t EXCEPT !.slots = With(t.slots, b, a)] = Parts(N, u, With(c, b, a))
      BY <1>1, <1>2, OnePart
    <2>4. [Parts(N, u, With(c, b, a)) EXCEPT !.slotused = @ + 1] = Parts(N, u + 1, With(c, b, a))
      BY OnePart
    <2> QED
      BY <2>1, <2>2, <2>3, <2>4
  <1>4. Unlink(t, b, a) = Parts(N, u - 1, Without(c, b, a))
    <2>1. Unlink(t, b, a) = [[t EXCEPT !.slots[b] = @ \ {a}] EXCEPT !.slotused = @ - 1]
      BY DEF Unlink
    <2>2. [t EXCEPT !.slots[b] = @ \ {a}] = [t EXCEPT !.slots = Without(t.slots, b, a)]
      BY DEF Without
    <2>3. [t EXCEPT !.slots = Without(t.slots, b, a)] = Parts(N, u, Without(c, b, a))
      BY <1>1, <1>2, OnePart
    <2>4. [Parts(N, u, Without(c, b, a)) EXCEPT !.slotused = @ - 1]
          = Parts(N, u - 1, Without(c, b, a))
      BY OnePart
    <2> QED
      BY <2>1, <2>2, <2>3, <2>4
  <1>5. Larger(t, b, a) = Parts(b, u, a)
    <2>1. Larger(t, b, a) = [[t EXCEPT !.numofslots = b] EXCEPT !.slots = a]
      BY DEF Larger
    <2>2. [t EXCEPT !.numofslots = b] = Parts(b, u, c)
      BY <1>2, OnePart
    <2>3. [Parts(b, u, c) EXCEPT !.slots = a] = Parts(b, u, a)
      BY OnePart
    <2> QED
      BY <2>1, <2>2, <2>3
  <1> QED
    BY <1>1, <1>3, <1>4, <1>5

(* With the string that is new the chains are those of the larger set.     *)
LEMMA SlotsAdd ==
    ASSUME NEW N \in Nat \ {0}, NEW x, NEW y, Named(x), Named(y), NEW a,
           a \notin DOMAIN x, DOMAIN y = DOMAIN x \cup {a}, \A s \in DOMAIN x : y[s] = x[s]
    PROVE  With(Slots(N, x), Hashed(N, y[a]), a) = Slots(N, y)
  <1> DEFINE b == Hashed(N, y[a])
             e == With(Slots(N, x), b, a)
  <1>1. b \in 1 .. N
    BY HashedType DEF Named
  <1>2. DOMAIN e = 1 .. N /\ DOMAIN Slots(N, y) = 1 .. N
    BY DEF Slots, With
  <1>3. \A i \in 1 .. N : e[i] = {s \in DOMAIN x : Hashed(N, x[s]) = i}
                                  \cup (IF i = b THEN {a} ELSE {})
    BY <1>1 DEF Slots, With
  <1>4. ASSUME NEW i \in 1 .. N
        PROVE  e[i] = Slots(N, y)[i]
    <2>1. Slots(N, y)[i] = {s \in DOMAIN y : Hashed(N, y[s]) = i}
      BY DEF Slots
    <2>2. \A s \in DOMAIN y : s # a => s \in DOMAIN x /\ Hashed(N, y[s]) = Hashed(N, x[s])
      BY DEF Hashed
    <2> QED
      BY <1>3, <2>1, <2>2
  <1>5. e = [i \in 1 .. N |-> e[i]]
    BY <1>2 DEF With
  <1>6. Slots(N, y) = [i \in 1 .. N |-> Slots(N, y)[i]]
    BY <1>2 DEF Slots
  <1> QED
    BY <1>4, <1>5, <1>6

(* Without the string that goes they are those of the smaller set.         *)
LEMMA SlotsRemove ==
    ASSUME NEW N \in Nat \ {0}, NEW x, NEW y, Named(x), NEW a \in DOMAIN x,
           DOMAIN y = DOMAIN x \ {a}, \A s \in DOMAIN y : y[s] = x[s]
    PROVE  Without(Slots(N, x), Hashed(N, x[a]), a) = Slots(N, y)
  <1> DEFINE b == Hashed(N, x[a])
             e == Without(Slots(N, x), b, a)
  <1>1. b \in 1 .. N
    BY HashedType DEF Named
  <1>2. DOMAIN e = 1 .. N /\ DOMAIN Slots(N, y) = 1 .. N
    BY DEF Slots, Without
  <1>3. \A i \in 1 .. N : e[i] = {s \in DOMAIN x : Hashed(N, x[s]) = i}
                                  \ (IF i = b THEN {a} ELSE {})
    BY <1>1 DEF Slots, Without
  <1>4. ASSUME NEW i \in 1 .. N
        PROVE  e[i] = Slots(N, y)[i]
    <2>1. Slots(N, y)[i] = {s \in DOMAIN y : Hashed(N, y[s]) = i}
      BY DEF Slots
    <2>2. \A s \in DOMAIN y : Hashed(N, y[s]) = Hashed(N, x[s])
      BY DEF Hashed
    <2> QED
      BY <1>3, <2>1, <2>2
  <1>5. e = [i \in 1 .. N |-> e[i]]
    BY <1>2 DEF Without
  <1>6. Slots(N, y) = [i \in 1 .. N |-> Slots(N, y)[i]]
    BY <1>2 DEF Slots
  <1> QED
    BY <1>4, <1>5, <1>6

(* A larger string table has the strings of the smaller one.               *)
LEMMA ResizeOk ==
    ASSUME NEW h, Named(Texts(h)), NEW t, StringsOk(t, Texts(h)), NEW N \in Nat \ {0}
    PROVE  StringsOk(Resize(t, N, h), Texts(h))
  <1> DEFINE x == Texts(h)
             all == UNION {t.slots[i] : i \in 1 .. t.numofslots}
  <1>1. /\ t.numofslots \in Nat \ {0} /\ t.slots = Slots(t.numofslots, x)
        /\ IsTable(t)
    BY StringFields
  <1>2. \A s \in DOMAIN x : Hashed(t.numofslots, x[s]) \in 1 .. t.numofslots
    BY <1>1, HashedType DEF Named
  <1>3. \A i \in 1 .. t.numofslots : t.slots[i] = {s \in DOMAIN x : Hashed(t.numofslots, x[s]) = i}
    BY <1>1 DEF Slots
  <1>4. all = DOMAIN x
    <2>1. all \subseteq DOMAIN x
      BY <1>3
    <2>2. ASSUME NEW s \in DOMAIN x
          PROVE  s \in all
      <3>1. s \in t.slots[Hashed(t.numofslots, x[s])]
        BY <1>2, <1>3
      <3> QED
        BY <3>1, <1>2
    <2> QED
      BY <2>1, <2>2
  <1>5. \A s \in DOMAIN x : h[s].text = x[s]
    BY DEF Texts
  <1> DEFINE c == [i \in 1 .. N |-> {s \in all : Hashed(N, h[s].text) = i}]
  <1>6. c = Slots(N, x)
    BY <1>4, <1>5 DEF Slots
  <1>7. Resize(t, N, h) = Larger(t, N, c)
    BY DEF Resize, Larger
  <1> HIDE DEF c, x
  <1>8. Resize(t, N, h) = Parts(N, t.slotused, c)
    BY <1>1, <1>7, StringParts
  <1>9. StringsOk(Parts(N, t.slotused, Slots(N, x)), x)
    BY StringsFrom
  <1> QED
    BY <1>6, <1>8, <1>9 DEF x

(* What a string that is made changes.                                     *)
LEMMA NewStringOk ==
    ASSUME Named(Texts(heap)), StringsOk(strings, Texts(heap)), heap \in [Alive -> String],
           NEW text \in Key, NEW a \in Address \ Alive, \A s \in Alive : TextOf(s) # text,
           NewString(text, a)
    PROVE  /\ Named(Texts(heap')) /\ StringsOk(strings', Texts(heap'))
           /\ heap' = [s \in Alive \cup {a} |->
                          IF s = a THEN [text |-> text, uiRef |-> 1] ELSE heap[s]]
  <1> DEFINE x == Texts(heap)
             new == [s \in Alive \cup {a} |->
                        IF s = a THEN [text |-> text, uiRef |-> 1] ELSE heap[s]]
             N == strings.numofslots
             added == [strings EXCEPT !.slots[Hashed(N, text)] = @ \cup {a}, !.slotused = @ + 1]
  <1>1. heap' = new
    BY DEF NewString
  <1>2. /\ DOMAIN x = Alive /\ DOMAIN Texts(new) = Alive \cup {a}
        /\ \A s \in Alive : Texts(new)[s] = x[s] /\ Texts(new)[a] = text
    BY DEF Texts, Alive
  <1>3. Texts(new)[a] = text /\ \A s \in Alive : x[s] = TextOf(s)
    BY TextsOf DEF Texts
  <1>4. Named(Texts(new))
    <2>1. \A s \in DOMAIN Texts(new) : Texts(new)[s] \in Key /\ s \in Address
      BY <1>2, <1>3 DEF Named
    <2>2. Texts(new) = [s \in DOMAIN Texts(new) |-> Texts(new)[s]]
      BY DEF Texts
    <2>3. ASSUME NEW s \in DOMAIN Texts(new), NEW u \in DOMAIN Texts(new),
                 Texts(new)[s] = Texts(new)[u]
          PROVE  s = u
      <3>1. CASE s \in Alive /\ u \in Alive
        BY <3>1, <1>2, <2>3 DEF Named
      <3>2. CASE s = a /\ u \in Alive
        BY <3>2, <1>2, <1>3, <2>3
      <3>3. CASE u = a /\ s \in Alive
        BY <3>3, <1>2, <1>3, <2>3
      <3> QED
        BY <3>1, <3>2, <3>3, <1>2
    <2> QED
      BY <2>1, <2>2, <2>3 DEF Named
  <1>5. /\ N \in Nat \ {0} /\ strings.slots = Slots(N, x)
        /\ IsTable(strings)
    BY StringFields
  <1>6. added = Parts(N, strings.slotused + 1, With(strings.slots, Hashed(N, text), a))
    <2>1. added = Link(strings, Hashed(N, text), a)
      BY DEF Link
    <2> QED
      BY <2>1, <1>5, StringParts
  <1>7. With(Slots(N, x), Hashed(N, text), a) = Slots(N, Texts(new))
    <2> DEFINE y == Texts(new)
    <2>1. /\ Named(x) /\ Named(y) /\ a \notin DOMAIN x /\ DOMAIN y = DOMAIN x \cup {a}
          /\ y[a] = text /\ \A s \in DOMAIN x : y[s] = x[s]
      BY <1>2, <1>3, <1>4
    <2> HIDE DEF x, y, N
    <2>2. With(Slots(N, x), Hashed(N, y[a]), a) = Slots(N, y)
      BY <2>1, <1>5, SlotsAdd
    <2> QED
      BY <2>1, <2>2 DEF y
  <1>8. StringsOk(added, Texts(new))
    <2> DEFINE y == Texts(new)
    <2> HIDE DEF y, x, N, added
    <2>1. StringsOk(Parts(N, strings.slotused + 1, Slots(N, y)), y)
      BY <1>5, StringsFrom
    <2> QED
      BY <2>1, <1>5, <1>6, <1>7 DEF y
  <1>9. added.numofslots = N
    BY <1>6 DEF Parts
  <1>10. 2 * N \in Nat \ {0}
    BY <1>5
  <1>11. StringsOk(Resize(added, 2 * N, new), Texts(new))
    BY <1>4, <1>8, <1>10, ResizeOk
  <1>12. strings' = IF added.slotused > added.numofslots
                      THEN Resize(added, 2 * added.numofslots, new) ELSE added
    BY DEF NewString
  <1>13. strings' = Resize(added, 2 * N, new) \/ strings' = added
    BY <1>9, <1>12
  <1> QED
    BY <1>1, <1>4, <1>8, <1>11, <1>13

(* What a reference to a string changes that is given back: its count, or  *)
(* the string is gone.                                                     *)
LEMMA ReleaseStringOk ==
    ASSUME Named(Texts(heap)), StringsOk(strings, Texts(heap)), heap \in [Alive -> String],
           NEW s \in Alive, ReleaseString(s)
    PROVE  /\ Named(Texts(heap')) /\ StringsOk(strings', Texts(heap'))
           /\ heap' = IF heap[s].uiRef = 1 THEN [a \in Alive \ {s} |-> heap[a]]
                      ELSE [heap EXCEPT ![s].uiRef = @ - 1]
  <1> DEFINE x == Texts(heap)
             N == strings.numofslots
  <1>1. DOMAIN x = Alive /\ \A a \in Alive : x[a] = TextOf(a)
    BY TextsOf
  <1>2. /\ N \in Nat \ {0} /\ strings.slots = Slots(N, x)
        /\ IsTable(strings)
    BY StringFields
  <1>3. CASE heap[s].uiRef = 1
    <2> DEFINE rest == [a \in Alive \ {s} |-> heap[a]]
    <2>1. heap' = rest
      BY <1>3 DEF ReleaseString
    <2>2. DOMAIN Texts(rest) = Alive \ {s} /\ \A a \in Alive \ {s} : Texts(rest)[a] = x[a]
      BY DEF Texts, Alive
    <2>3. Texts(rest) = [a \in DOMAIN Texts(rest) |-> Texts(rest)[a]]
      BY DEF Texts
    <2>4. Named(Texts(rest))
      <3>1. \A a \in DOMAIN Texts(rest) : Texts(rest)[a] \in Key /\ a \in Address
        BY <1>1, <2>2 DEF Named
      <3>2. \A a, u \in DOMAIN Texts(rest) : Texts(rest)[a] = Texts(rest)[u] => a = u
        BY <1>1, <2>2 DEF Named
      <3> QED
        BY <3>1, <3>2, <2>3 DEF Named
    <2>5. strings' = Unlink(strings, Hashed(N, TextOf(s)), s)
      BY <1>3 DEF ReleaseString, Unlink
    <2>6. strings' = Parts(N, strings.slotused - 1, Without(strings.slots, Hashed(N, TextOf(s)), s))
      BY <1>2, <2>5, StringParts
    <2> DEFINE y == Texts(rest)
    <2>7. Without(Slots(N, x), Hashed(N, x[s]), s) = Slots(N, y)
      <3>1. /\ Named(x) /\ s \in DOMAIN x /\ DOMAIN y = DOMAIN x \ {s}
            /\ \A a \in DOMAIN y : y[a] = x[a]
        BY <1>1, <2>2
      <3> HIDE DEF x, y, N
      <3> QED
        BY <3>1, <1>2, SlotsRemove
    <2>8. StringsOk(strings', y)
      <3>1. x[s] = TextOf(s)
        BY <1>1
      <3> HIDE DEF x, y, N
      <3>2. StringsOk(Parts(N, strings.slotused - 1, Slots(N, y)), y)
        BY <1>2, StringsFrom
      <3> QED
        BY <3>1, <3>2, <1>2, <2>6, <2>7
    <2> QED
      BY <1>3, <2>1, <2>4, <2>8
  <1>4. CASE heap[s].uiRef # 1
    <2> DEFINE less == [heap EXCEPT ![s].uiRef = @ - 1]
    <2>1. heap' = less /\ strings' = strings
      BY <1>4 DEF ReleaseString
    <2>2. DOMAIN less = Alive /\ \A a \in Alive : less[a].text = heap[a].text
      BY DEF Alive, String
    <2>3. Texts(less) = x
      BY <2>2 DEF Texts, Alive
    <2> QED
      BY <1>4, <2>1, <2>3
  <1> QED
    BY <1>3, <1>4

-----------------------------------------------------------------------------
(* The host's references.                                                  *)

(* What the operations on a reference table make of its parts.             *)
Put(nodes, n, v) == [nodes EXCEPT ![n] = v]

Taken(r, b, n, v) ==
    [r EXCEPT !.buckets[b] = @ \cup {n}, !.freelist = @ \ {n}, !.nodes[n] = v, !.slotused = @ + 1]

Freed(r, b, n, v) ==
    [r EXCEPT !.buckets[b] = @ \ {n}, !.freelist = @ \cup {n}, !.nodes[n] = v, !.slotused = @ - 1]

Counted(r, n, c) == [r EXCEPT !.nodes[n].refs = c]

LEMMA OneRefPart ==
    ASSUME NEW N, NEW u, NEW nodes, NEW b, NEW f
    PROVE  /\ \A v : [RefParts(N, u, nodes, b, f) EXCEPT !.slotused = v] = RefParts(N, v, nodes, b, f)
           /\ \A v : [RefParts(N, u, nodes, b, f) EXCEPT !.nodes = v] = RefParts(N, u, v, b, f)
           /\ \A v : [RefParts(N, u, nodes, b, f) EXCEPT !.buckets = v] = RefParts(N, u, nodes, v, f)
           /\ \A v : [RefParts(N, u, nodes, b, f) EXCEPT !.freelist = v] = RefParts(N, u, nodes, b, v)
           /\ RefParts(N, u, nodes, b, f).slotused = u /\ RefParts(N, u, nodes, b, f).nodes = nodes
           /\ RefParts(N, u, nodes, b, f).buckets = b /\ RefParts(N, u, nodes, b, f).freelist = f
  BY DEF RefParts

LEMMA RefPartsTaken ==
    ASSUME NEW r, IsRefTable(r), NEW b, NEW n, NEW v
    PROVE  Taken(r, b, n, v) = RefParts(r.numofslots, r.slotused + 1, Put(r.nodes, n, v),
                                        With(r.buckets, b, n), r.freelist \ {n})
  <1>1. PICK N, u, s, c, f : N = r.numofslots /\ u = r.slotused /\ s = r.nodes
                              /\ c = r.buckets /\ f = r.freelist
    OBVIOUS
  <1>0. PICK d, g, w : d = With(c, b, n) /\ g = f \ {n} /\ w = Put(s, n, v)
    OBVIOUS
  <1>2. r = RefParts(N, u, s, c, f)
    BY <1>1 DEF IsRefTable
  <1>3. Taken(r, b, n, v) = [[[[r EXCEPT !.buckets[b] = @ \cup {n}] EXCEPT !.freelist = @ \ {n}]
                                 EXCEPT !.nodes[n] = v] EXCEPT !.slotused = @ + 1]
    BY DEF Taken
  <1>4. [r EXCEPT !.buckets[b] = @ \cup {n}] = [r EXCEPT !.buckets = With(r.buckets, b, n)]
    BY DEF With
  <1>5. [r EXCEPT !.buckets = With(r.buckets, b, n)] = RefParts(N, u, s, d, f)
    BY <1>0, <1>1, <1>2, OneRefPart
  <1>6. [RefParts(N, u, s, d, f) EXCEPT !.freelist = @ \ {n}] = RefParts(N, u, s, d, g)
    BY <1>0 DEF RefParts
  <1>7. [RefParts(N, u, s, d, g) EXCEPT !.nodes[n] = v] = RefParts(N, u, w, d, g)
    BY <1>0 DEF RefParts, Put
  <1>8. [RefParts(N, u, w, d, g) EXCEPT !.slotused = @ + 1] = RefParts(N, u + 1, w, d, g)
    BY DEF RefParts
  <1>9. Taken(r, b, n, v) = RefParts(N, u + 1, w, d, g)
    BY <1>3, <1>4, <1>5, <1>6, <1>7, <1>8
  <1> QED
    BY <1>0, <1>1, <1>9

LEMMA RefPartsFreed ==
    ASSUME NEW r, IsRefTable(r), NEW b, NEW n, NEW v
    PROVE  Freed(r, b, n, v) = RefParts(r.numofslots, r.slotused - 1, Put(r.nodes, n, v),
                                        Without(r.buckets, b, n), r.freelist \cup {n})
  <1>1. PICK N, u, s, c, f : N = r.numofslots /\ u = r.slotused /\ s = r.nodes
                              /\ c = r.buckets /\ f = r.freelist
    OBVIOUS
  <1>0. PICK d, g, w : d = Without(c, b, n) /\ g = f \cup {n} /\ w = Put(s, n, v)
    OBVIOUS
  <1>2. r = RefParts(N, u, s, c, f)
    BY <1>1 DEF IsRefTable
  <1>3. Freed(r, b, n, v) = [[[[r EXCEPT !.buckets[b] = @ \ {n}] EXCEPT !.freelist = @ \cup {n}]
                                 EXCEPT !.nodes[n] = v] EXCEPT !.slotused = @ - 1]
    BY DEF Freed
  <1>4. [r EXCEPT !.buckets[b] = @ \ {n}] = [r EXCEPT !.buckets = Without(r.buckets, b, n)]
    BY DEF Without
  <1>5. [r EXCEPT !.buckets = Without(r.buckets, b, n)] = RefParts(N, u, s, d, f)
    BY <1>0, <1>1, <1>2, OneRefPart
  <1>6. [RefParts(N, u, s, d, f) EXCEPT !.freelist = @ \cup {n}] = RefParts(N, u, s, d, g)
    BY <1>0 DEF RefParts
  <1>7. [RefParts(N, u, s, d, g) EXCEPT !.nodes[n] = v] = RefParts(N, u, w, d, g)
    BY <1>0 DEF RefParts, Put
  <1>8. [RefParts(N, u, w, d, g) EXCEPT !.slotused = @ - 1] = RefParts(N, u - 1, w, d, g)
    BY DEF RefParts
  <1>9. Freed(r, b, n, v) = RefParts(N, u - 1, w, d, g)
    BY <1>3, <1>4, <1>5, <1>6, <1>7, <1>8
  <1> QED
    BY <1>0, <1>1, <1>9

LEMMA RefPartsCounted ==
    ASSUME NEW r, IsRefTable(r), NEW N, NEW n \in 1 .. N, r.nodes \in [1 .. N -> Node], NEW c
    PROVE  Counted(r, n, c)
           = RefParts(r.numofslots, r.slotused,
                      Put(r.nodes, n, [obj |-> r.nodes[n].obj, refs |-> c]), r.buckets, r.freelist)
  <1>1. [r.nodes[n] EXCEPT !.refs = c] = [obj |-> r.nodes[n].obj, refs |-> c]
    <2>1. PICK v \in Node : v = r.nodes[n]
      OBVIOUS
    <2>2. [v EXCEPT !.refs = c] = [obj |-> v.obj, refs |-> c]
      BY DEF Node
    <2> QED
      BY <2>1, <2>2
  <1>2. [r.nodes EXCEPT ![n].refs = c] = Put(r.nodes, n, [obj |-> r.nodes[n].obj, refs |-> c])
    BY <1>1 DEF Put
  <1>3. Counted(r, n, c) = [r EXCEPT !.nodes = [r.nodes EXCEPT ![n].refs = c]]
    BY DEF Counted
  <1> QED
    BY <1>2, <1>3, OneRefPart DEF IsRefTable

(* The nodes when one is changed.                                          *)
Same(N, nodes, new, n) == \A m \in (1 .. N) \ {n} : new[m] = nodes[m]

IsPut(N, nodes, n, v, new) ==
    /\ new \in [1 .. N -> Node] /\ new[n] = v /\ Same(N, nodes, new, n)
    /\ v.obj = null => UsedNodes(N, new) = UsedNodes(N, nodes) \ {n}
    /\ v.obj # null => UsedNodes(N, new) = UsedNodes(N, nodes) \cup {n}

LEMMA PutIs ==
    ASSUME NEW N \in Nat \ {0}, NEW nodes \in [1 .. N -> Node], NEW n \in 1 .. N, NEW v \in Node
    PROVE  IsPut(N, nodes, n, v, Put(nodes, n, v))
  <1> DEFINE new == Put(nodes, n, v)
  <1>1. /\ new \in [1 .. N -> Node] /\ new[n] = v
        /\ \A m \in (1 .. N) \ {n} : new[m] = nodes[m]
    BY DEF Put
  <1>2. /\ v.obj = null => UsedNodes(N, new) = UsedNodes(N, nodes) \ {n}
        /\ v.obj # null => UsedNodes(N, new) = UsedNodes(N, nodes) \cup {n}
    BY <1>1 DEF UsedNodes
  <1> QED
    BY <1>1, <1>2 DEF IsPut, Same

(* The nodes in use are counted.                                           *)
LEMMA UsedFinite ==
    ASSUME NEW N \in Nat \ {0}, NEW nodes
    PROVE  /\ IsFiniteSet(UsedNodes(N, nodes)) /\ Cardinality(UsedNodes(N, nodes)) \in Nat
           /\ Cardinality(UsedNodes(N, nodes)) <= N
           /\ Cardinality(UsedNodes(N, nodes)) # N => (1 .. N) \ UsedNodes(N, nodes) # {}
  <1>1. IsFiniteSet(1 .. N) /\ Cardinality(1 .. N) = N
    BY FS_Interval
  <1>2. UsedNodes(N, nodes) \subseteq 1 .. N
    BY DEF UsedNodes
  <1>3. /\ IsFiniteSet(UsedNodes(N, nodes))
        /\ Cardinality(UsedNodes(N, nodes)) <= Cardinality(1 .. N)
    BY <1>1, <1>2, FS_Subset
  <1>4. Cardinality(UsedNodes(N, nodes)) \in Nat
    BY <1>3, FS_CardinalityType
  <1>5. ASSUME (1 .. N) \ UsedNodes(N, nodes) = {}
        PROVE  UsedNodes(N, nodes) = 1 .. N
    BY <1>2, <1>5
  <1> QED
    BY <1>1, <1>3, <1>4, <1>5

(* A node that is taken is in its bucket, one that is freed in none.       *)
LEMMA BucketsTaken ==
    ASSUME NEW N \in Nat \ {0}, NEW nodes \in [1 .. N -> Node],
           NEW n \in (1 .. N) \ UsedNodes(N, nodes), NEW v \in Node, v.obj # null,
           NEW x, x[v.obj] \in Key
    PROVE  With(Buckets(N, nodes, x), Hashed(N, x[v.obj]), n) = Buckets(N, Put(nodes, n, v), x)
  <1> DEFINE b == Hashed(N, x[v.obj])
             new == Put(nodes, n, v)
             e == With(Buckets(N, nodes, x), b, n)
             U == UsedNodes(N, nodes)
  <1>1. b \in 1 .. N
    BY HashedType
  <1>2. /\ new[n] = v /\ \A m \in (1 .. N) \ {n} : new[m] = nodes[m]
        /\ UsedNodes(N, new) = U \cup {n}
    <2>1. n \in 1 .. N
      OBVIOUS
    <2>2. IsPut(N, nodes, n, v, new)
      BY <2>1, PutIs
    <2> QED
      BY <2>2 DEF Same, IsPut
  <1>3. DOMAIN e = 1 .. N /\ \A i \in 1 .. N :
            e[i] = {m \in U : Hashed(N, x[nodes[m].obj]) = i} \cup (IF i = b THEN {n} ELSE {})
    BY <1>1 DEF With, Buckets
  <1>4. Buckets(N, new, x) = [i \in 1 .. N |-> {m \in U \cup {n} : Hashed(N, x[new[m].obj]) = i}]
    BY <1>2 DEF Buckets
  <1>5. \A m \in U : m \in (1 .. N) \ {n} /\ Hashed(N, x[new[m].obj]) = Hashed(N, x[nodes[m].obj])
    BY <1>2 DEF UsedNodes
  <1>6. ASSUME NEW i \in 1 .. N
        PROVE  e[i] = {m \in U \cup {n} : Hashed(N, x[new[m].obj]) = i}
    BY <1>2, <1>3, <1>5
  <1>7. e = [i \in 1 .. N |-> e[i]]
    BY <1>3 DEF With
  <1> QED
    BY <1>4, <1>6, <1>7

LEMMA BucketsFreed ==
    ASSUME NEW N \in Nat \ {0}, NEW nodes \in [1 .. N -> Node], NEW n \in UsedNodes(N, nodes),
           NEW v \in Node, v.obj = null, NEW x, x[nodes[n].obj] \in Key
    PROVE  Without(Buckets(N, nodes, x), Hashed(N, x[nodes[n].obj]), n)
           = Buckets(N, Put(nodes, n, v), x)
  <1> DEFINE b == Hashed(N, x[nodes[n].obj])
             new == Put(nodes, n, v)
             e == Without(Buckets(N, nodes, x), b, n)
             U == UsedNodes(N, nodes)
  <1>1. b \in 1 .. N /\ n \in 1 .. N
    BY HashedType DEF UsedNodes
  <1>2. /\ \A m \in (1 .. N) \ {n} : new[m] = nodes[m]
        /\ UsedNodes(N, new) = U \ {n}
    <2>1. n \in 1 .. N
      BY <1>1
    <2>2. IsPut(N, nodes, n, v, new)
      BY <2>1, PutIs
    <2> QED
      BY <2>2 DEF Same, IsPut
  <1>3. DOMAIN e = 1 .. N /\ \A i \in 1 .. N :
            e[i] = {m \in U : Hashed(N, x[nodes[m].obj]) = i} \ (IF i = b THEN {n} ELSE {})
    BY <1>1 DEF Without, Buckets
  <1>4. Buckets(N, new, x) = [i \in 1 .. N |-> {m \in U \ {n} : Hashed(N, x[new[m].obj]) = i}]
    BY <1>2 DEF Buckets
  <1>5. \A m \in U \ {n} : Hashed(N, x[new[m].obj]) = Hashed(N, x[nodes[m].obj])
    BY <1>2 DEF UsedNodes
  <1>6. ASSUME NEW i \in 1 .. N
        PROVE  e[i] = {m \in U \ {n} : Hashed(N, x[new[m].obj]) = i}
    BY <1>3, <1>5
  <1>7. e = [i \in 1 .. N |-> e[i]]
    BY <1>3 DEF Without
  <1> QED
    BY <1>4, <1>6, <1>7

(* Counts of the host that differ in the text of s only.                   *)
CountsOf(held, new, k, c) ==
    /\ held \in [Key -> Nat] /\ new \in [Key -> Nat] /\ new[k] = c
    /\ \A j \in Key \ {k} : new[j] = held[j]

(* A string that the host did not hold gets a node.                        *)
LEMMA AddOk ==
    ASSUME NEW r, NEW held, NEW new, RefsOk(r, Texts(heap), held), Named(Texts(heap)),
           NEW s \in Alive, held[TextOf(s)] = 0, CountsOf(held, new, TextOf(s), 1),
           r.slotused # r.numofslots
    PROVE  RefsOk(Add(r, s, 1), Texts(heap), new)
  <1> DEFINE x == Texts(heap)
             N == r.numofslots
             U == UsedNodes(N, r.nodes)
             n == CHOOSE n \in r.freelist : TRUE
             v == [obj |-> s, refs |-> 1]
             nodes == Put(r.nodes, n, v)
  <1>1. /\ s \in DOMAIN x /\ x[s] = TextOf(s) /\ x[s] \in Key /\ s \in Address
        /\ \A u \in DOMAIN x : x[u] = x[s] => u = s
    BY TextsOf DEF Named
  <1>2. /\ N \in Nat \ {0} /\ r.buckets = Buckets(N, r.nodes, x) /\ NodesOk(N, r.nodes, x, held)
        /\ r.slotused = Cardinality(U) /\ r.freelist = (1 .. N) \ U /\ IsRefTable(r)
    BY RefFields
  <1>3. r.nodes \in [1 .. N -> Node]
    BY <1>2 DEF NodesOk
  <1>4. r.freelist # {}
    BY <1>2, UsedFinite
  <1>5. n \in (1 .. N) \ U
    BY <1>2, <1>4
  <1>6. v \in Node /\ v.obj = s /\ s # null
    BY <1>1, StringAssumption DEF Node
  <1> HIDE DEF n, v
  <1>7. Add(r, s, 1) = Taken(r, Hashed(N, x[s]), n, v)
    BY <1>1 DEF Add, Taken, ObjHash, n, v
  <1>8. Add(r, s, 1) = RefParts(N, r.slotused + 1, nodes,
                                With(r.buckets, Hashed(N, x[s]), n), r.freelist \ {n})
    BY <1>2, <1>7, RefPartsTaken
  <1>9. /\ nodes \in [1 .. N -> Node] /\ nodes[n] = v
        /\ \A m \in (1 .. N) \ {n} : nodes[m] = r.nodes[m]
        /\ UsedNodes(N, nodes) = U \cup {n}
    <2>1. n \in 1 .. N /\ N \in Nat \ {0}
      BY <1>2, <1>5
    <2> HIDE DEF N
    <2>3. v \in Node /\ v.obj # null
      BY <1>6
    <2>2. IsPut(N, r.nodes, n, v, nodes)
      BY <2>1, <2>3, <1>3, PutIs
    <2> QED
      BY <2>2, <2>3 DEF Same, IsPut
  <1>10. With(r.buckets, Hashed(N, x[s]), n) = Buckets(N, nodes, x)
    BY <1>1, <1>2, <1>3, <1>5, <1>6, BucketsTaken
  <1>11. Cardinality(UsedNodes(N, nodes)) = r.slotused + 1
    <2>1. IsFiniteSet(U) /\ n \notin U
      BY <1>2, <1>5, UsedFinite
    <2>2. Cardinality(U \cup {n}) = Cardinality(U) + 1
      BY <2>1, FS_AddElement
    <2> QED
      BY <2>2, <1>2, <1>9
  <1>12. r.freelist \ {n} = (1 .. N) \ UsedNodes(N, nodes)
    BY <1>2, <1>9
  <1>13. NodesOk(N, nodes, x, new)
    <2>1. \A m \in U : m \in (1 .. N) \ {n} /\ nodes[m] = r.nodes[m]
      BY <1>5, <1>9 DEF UsedNodes
    <2>2. \A m \in U : /\ r.nodes[m].obj \in DOMAIN x /\ x[r.nodes[m].obj] \in Key
                       /\ held[x[r.nodes[m].obj]] > 0 /\ r.nodes[m].refs = held[x[r.nodes[m].obj]]
      BY <1>2 DEF NodesOk, Named
    <2>3. \A m \in U : x[r.nodes[m].obj] # x[s] /\ r.nodes[m].obj # s
      BY <1>1, <2>2
    <2>4. \A m \in U : new[x[r.nodes[m].obj]] = held[x[r.nodes[m].obj]]
      BY <1>1, <2>2, <2>3 DEF CountsOf
    <2>5. new[x[s]] = 1
      BY <1>1 DEF CountsOf
    <2>6. \A m \in UsedNodes(N, nodes) :
             /\ nodes[m].obj \in DOMAIN x
             /\ new[x[nodes[m].obj]] > 0 /\ nodes[m].refs = new[x[nodes[m].obj]]
      <3>1. ASSUME NEW m \in U
            PROVE  /\ nodes[m].obj \in DOMAIN x
                   /\ new[x[nodes[m].obj]] > 0 /\ nodes[m].refs = new[x[nodes[m].obj]]
        BY <2>1, <2>2, <2>4
      <3>2. nodes[n].obj = s /\ nodes[n].refs = 1
        BY <1>9 DEF v
      <3> QED
        BY <3>1, <3>2, <1>1, <1>9, <2>5
    <2>7. \A m, p \in UsedNodes(N, nodes) : nodes[m].obj = nodes[p].obj => m = p
      <3>1. \A m, p \in U : nodes[m].obj = nodes[p].obj => m = p
        BY <1>2, <2>1 DEF NodesOk
      <3>2. \A m \in U : nodes[m].obj # nodes[n].obj
        BY <1>6, <1>9, <2>1, <2>3
      <3> QED
        BY <3>1, <3>2, <1>9
    <2>8. ASSUME NEW u \in DOMAIN x, new[x[u]] > 0
          PROVE  \E m \in UsedNodes(N, nodes) : nodes[m].obj = u
      <3>1. CASE u = s
        BY <3>1, <1>6, <1>9
      <3>2. CASE u # s
        <4>1. x[u] \in Key /\ x[u] # x[s]
          BY <3>2, <1>1 DEF Named
        <4>2. held[x[u]] > 0
          BY <4>1, <2>8, <1>1 DEF CountsOf
        <4>3. PICK m \in U : r.nodes[m].obj = u
          BY <4>2, <1>2 DEF NodesOk
        <4> QED
          BY <4>3, <2>1, <1>9
      <3> QED
        BY <3>1, <3>2
    <2> QED
      BY <1>9, <2>6, <2>7, <2>8 DEF NodesOk
  <1>14. Add(r, s, 1) = RefsTable(N, nodes, x)
    BY <1>8, <1>10, <1>11, <1>12 DEF RefsTable
  <1> QED
    BY <1>2, <1>13, <1>14, RefsFrom

(* A string that the host holds is counted in its node.                    *)
LEMMA CountedOk ==
    ASSUME NEW r, NEW held, NEW new, RefsOk(r, Texts(heap), held), Named(Texts(heap)),
           NEW s \in Alive, held[TextOf(s)] > 0, NEW c \in Nat \ {0},
           CountsOf(held, new, TextOf(s), c)
    PROVE  RefsOk(Counted(r, NodeOf(r, s), c), Texts(heap), new)
  <1> DEFINE x == Texts(heap)
             N == r.numofslots
             U == UsedNodes(N, r.nodes)
             n == NodeOf(r, s)
             v == [obj |-> r.nodes[n].obj, refs |-> c]
             nodes == Put(r.nodes, n, v)
  <1>1. /\ s \in DOMAIN x /\ x[s] = TextOf(s) /\ x[s] \in Key /\ s \in Address
        /\ \A u \in DOMAIN x : x[u] = x[s] => u = s
    BY TextsOf DEF Named
  <1>2. /\ N \in Nat \ {0} /\ r.buckets = Buckets(N, r.nodes, x) /\ NodesOk(N, r.nodes, x, held)
        /\ r.slotused = Cardinality(U) /\ r.freelist = (1 .. N) \ U /\ IsRefTable(r)
    BY RefFields
  <1>3. r.nodes \in [1 .. N -> Node]
    BY <1>2 DEF NodesOk
  <1>4. n \in U /\ r.nodes[n].obj = s
    BY NodeFound DEF CountsOf
  <1>5. n \in 1 .. N
    BY <1>4 DEF UsedNodes
  <1>6. v \in Node /\ v.obj = s /\ v.refs = c /\ s # null
    BY <1>1, <1>4, StringAssumption DEF Node
  <1>7. Counted(r, n, c) = RefParts(N, r.slotused, nodes, r.buckets, r.freelist)
    BY <1>2, <1>3, <1>5, RefPartsCounted
  <1> HIDE DEF n, v
  <1>8. IsPut(N, r.nodes, n, v, nodes)
    BY <1>2, <1>3, <1>5, <1>6, PutIs
  <1>9. /\ nodes \in [1 .. N -> Node] /\ nodes[n] = v
        /\ \A m \in (1 .. N) \ {n} : nodes[m] = r.nodes[m]
        /\ UsedNodes(N, nodes) = U
    BY <1>4, <1>6, <1>8 DEF IsPut, Same
  <1>10. \A m \in U : nodes[m].obj = r.nodes[m].obj
    BY <1>4, <1>6, <1>9 DEF UsedNodes
  <1>11. Buckets(N, nodes, x) = r.buckets
    BY <1>2, <1>9, <1>10 DEF Buckets
  <1>12. Counted(r, n, c) = RefsTable(N, nodes, x)
    BY <1>2, <1>7, <1>9, <1>11 DEF RefsTable
  <1>13. NodesOk(N, nodes, x, new)
    <2>1. \A m \in U \ {n} : m \in (1 .. N) \ {n} /\ nodes[m] = r.nodes[m]
      BY <1>9 DEF UsedNodes
    <2>2. \A m \in U : /\ r.nodes[m].obj \in DOMAIN x /\ x[r.nodes[m].obj] \in Key
                       /\ held[x[r.nodes[m].obj]] > 0 /\ r.nodes[m].refs = held[x[r.nodes[m].obj]]
      BY <1>2 DEF NodesOk, Named
    <2>3. \A m \in U \ {n} : r.nodes[m].obj # s
      BY <1>2, <1>4 DEF NodesOk
    <2>4. \A m \in U \ {n} : new[x[r.nodes[m].obj]] = held[x[r.nodes[m].obj]]
      BY <1>1, <2>2, <2>3 DEF CountsOf
    <2>5. new[x[s]] = c
      BY <1>1 DEF CountsOf
    <2>6. ASSUME NEW m \in U
          PROVE  /\ nodes[m].obj \in DOMAIN x
                 /\ new[x[nodes[m].obj]] > 0 /\ nodes[m].refs = new[x[nodes[m].obj]]
      <3>1. CASE m = n
        BY <3>1, <1>1, <1>6, <1>9, <2>5
      <3>2. CASE m # n
        BY <3>2, <2>1, <2>2, <2>4
      <3> QED
        BY <3>1, <3>2
    <2>7. \A m, p \in U : nodes[m].obj = nodes[p].obj => m = p
      BY <1>2, <1>10 DEF NodesOk
    <2>8. ASSUME NEW u \in DOMAIN x, new[x[u]] > 0
          PROVE  \E m \in U : nodes[m].obj = u
      <3>1. CASE u = s
        BY <3>1, <1>4, <1>10
      <3>2. CASE u # s
        <4>1. x[u] \in Key /\ x[u] # x[s]
          BY <3>2, <1>1 DEF Named
        <4>2. held[x[u]] > 0
          BY <4>1, <2>8, <1>1 DEF CountsOf
        <4> QED
          BY <4>2, <1>2, <1>10 DEF NodesOk
      <3> QED
        BY <3>1, <3>2
    <2> QED
      BY <1>9, <2>6, <2>7, <2>8 DEF NodesOk
  <1> QED
    BY <1>2, <1>12, <1>13, RefsFrom DEF n

(* The node of a string that the host gives up is free again.              *)
LEMMA FreedOk ==
    ASSUME NEW r, NEW held, NEW new, RefsOk(r, Texts(heap), held), Named(Texts(heap)),
           NEW s \in Alive, held[TextOf(s)] > 0, CountsOf(held, new, TextOf(s), 0)
    PROVE  RefsOk(Freed(r, ObjHash(r, s), NodeOf(r, s), RefNode), Texts(heap), new)
  <1> DEFINE x == Texts(heap)
             N == r.numofslots
             U == UsedNodes(N, r.nodes)
             n == NodeOf(r, s)
             v == RefNode
             nodes == Put(r.nodes, n, v)
             less == Freed(r, ObjHash(r, s), n, v)
  <1>1. /\ s \in DOMAIN x /\ x[s] = TextOf(s) /\ x[s] \in Key /\ s \in Address
        /\ \A u \in DOMAIN x : x[u] = x[s] => u = s
    BY TextsOf DEF Named
  <1>2. /\ N \in Nat \ {0} /\ r.buckets = Buckets(N, r.nodes, x) /\ NodesOk(N, r.nodes, x, held)
        /\ r.slotused = Cardinality(U) /\ r.freelist = (1 .. N) \ U /\ IsRefTable(r)
    BY RefFields
  <1>3. r.nodes \in [1 .. N -> Node]
    BY <1>2 DEF NodesOk
  <1>4. n \in U /\ r.nodes[n].obj = s
    BY NodeFound DEF CountsOf
  <1>5. n \in 1 .. N
    BY <1>4 DEF UsedNodes
  <1>6. v \in Node /\ v.obj = null
    BY DEF Node, RefNode
  <1>7. ObjHash(r, s) = Hashed(N, x[s])
    BY <1>1 DEF ObjHash
  <1>8. less = RefParts(N, r.slotused - 1, nodes, Without(r.buckets, Hashed(N, x[s]), n),
                        r.freelist \cup {n})
    BY <1>2, <1>7, RefPartsFreed
  <1> HIDE DEF n, v, less
  <1>9. IsPut(N, r.nodes, n, v, nodes)
    BY <1>2, <1>3, <1>5, <1>6, PutIs
  <1>10. /\ nodes \in [1 .. N -> Node]
         /\ \A m \in (1 .. N) \ {n} : nodes[m] = r.nodes[m]
         /\ UsedNodes(N, nodes) = U \ {n}
    BY <1>6, <1>9 DEF IsPut, Same
  <1>11. Without(r.buckets, Hashed(N, x[s]), n) = Buckets(N, nodes, x)
    <2>1. /\ N \in Nat \ {0} /\ n \in U /\ v \in Node /\ v.obj = null
          /\ x[r.nodes[n].obj] \in Key /\ x[r.nodes[n].obj] = x[s]
          /\ r.buckets = Buckets(N, r.nodes, x)
      BY <1>1, <1>2, <1>4, <1>6
    <2> HIDE DEF x, N
    <2>2. Without(Buckets(N, r.nodes, x), Hashed(N, x[r.nodes[n].obj]), n) = Buckets(N, nodes, x)
      BY <2>1, <1>3, BucketsFreed
    <2> QED
      BY <2>1, <2>2
  <1>12. Cardinality(UsedNodes(N, nodes)) = r.slotused - 1
    <2>1. IsFiniteSet(U)
      BY <1>2, UsedFinite
    <2>2. Cardinality(U \ {n}) = Cardinality(U) - 1
      BY <2>1, <1>4, FS_RemoveElement
    <2> QED
      BY <2>2, <1>2, <1>10
  <1>13. r.freelist \cup {n} = (1 .. N) \ UsedNodes(N, nodes)
    BY <1>2, <1>5, <1>10
  <1>14. less = RefsTable(N, nodes, x)
    BY <1>8, <1>11, <1>12, <1>13 DEF RefsTable
  <1>15. NodesOk(N, nodes, x, new)
    <2>1. \A m \in U \ {n} : m \in (1 .. N) \ {n} /\ nodes[m] = r.nodes[m]
      BY <1>10 DEF UsedNodes
    <2>2. \A m \in U : /\ r.nodes[m].obj \in DOMAIN x /\ x[r.nodes[m].obj] \in Key
                       /\ held[x[r.nodes[m].obj]] > 0 /\ r.nodes[m].refs = held[x[r.nodes[m].obj]]
      BY <1>2 DEF NodesOk, Named
    <2>3. \A m \in U \ {n} : r.nodes[m].obj # s
      BY <1>2, <1>4 DEF NodesOk
    <2>4. \A m \in U \ {n} : new[x[r.nodes[m].obj]] = held[x[r.nodes[m].obj]]
      BY <1>1, <2>2, <2>3 DEF CountsOf
    <2>5. new[x[s]] = 0
      BY <1>1 DEF CountsOf
    <2>6. \A m \in U \ {n} :
             /\ nodes[m].obj \in DOMAIN x
             /\ new[x[nodes[m].obj]] > 0 /\ nodes[m].refs = new[x[nodes[m].obj]]
      BY <2>1, <2>2, <2>4
    <2>7. \A m, p \in U \ {n} : nodes[m].obj = nodes[p].obj => m = p
      BY <1>2, <2>1 DEF NodesOk
    <2>8. ASSUME NEW u \in DOMAIN x, new[x[u]] > 0
          PROVE  \E m \in U \ {n} : nodes[m].obj = u
      <3>1. u # s
        BY <2>5, <2>8
      <3>2. x[u] \in Key /\ x[u] # x[s]
        BY <3>1, <1>1 DEF Named
      <3>3. held[x[u]] > 0
        BY <3>2, <2>8, <1>1 DEF CountsOf
      <3>4. PICK m \in U : r.nodes[m].obj = u
        BY <3>3, <1>2 DEF NodesOk
      <3> QED
        BY <3>1, <3>4, <1>4, <2>1
    <2> QED
      BY <1>10, <2>6, <2>7, <2>8 DEF NodesOk
  <1> QED
    BY <1>2, <1>14, <1>15, RefsFrom DEF less, n, v

(* A larger table holds what the smaller one did, and has room.            *)
LEMMA ResizeRefsOk ==
    ASSUME NEW r, NEW held, RefsOk(r, Texts(heap), held), NEW M \in Nat, M > r.numofslots
    PROVE  /\ RefsOk(ResizeRefs(r, M), Texts(heap), held)
           /\ ResizeRefs(r, M).slotused # ResizeRefs(r, M).numofslots
  <1> DEFINE x == Texts(heap)
             N == r.numofslots
             U == UsedNodes(N, r.nodes)
             nodes == [n \in 1 .. M |-> IF n <= N THEN r.nodes[n] ELSE RefNode]
  <1>1. N \in Nat \ {0} /\ NodesOk(N, r.nodes, x, held)
    BY RefFields
  <1>2. r.nodes \in [1 .. N -> Node] /\ RefNode \in Node /\ RefNode.obj = null
    BY <1>1 DEF NodesOk, RefNode, Node
  <1>3. nodes \in [1 .. M -> Node]
    BY <1>1, <1>2
  <1>4. UsedNodes(M, nodes) = U
    BY <1>1, <1>2 DEF UsedNodes
  <1>5. \A n \in U : nodes[n] = r.nodes[n]
    BY <1>1 DEF UsedNodes
  <1>6. NodesOk(M, nodes, x, held)
    <2> HIDE DEF nodes
    <2>1. \A n \in U : /\ nodes[n].obj \in DOMAIN x
                       /\ held[x[nodes[n].obj]] > 0 /\ nodes[n].refs = held[x[nodes[n].obj]]
      BY <1>1, <1>5 DEF NodesOk
    <2>2. \A n, m \in U : nodes[n].obj = nodes[m].obj => n = m
      BY <1>1, <1>5 DEF NodesOk
    <2>3. \A s \in DOMAIN x : held[x[s]] > 0 => \E n \in U : nodes[n].obj = s
      BY <1>1, <1>5 DEF NodesOk
    <2> QED
      BY <1>3, <1>4, <2>1, <2>2, <2>3 DEF NodesOk
  <1>7. \A n \in U : r.nodes[n].obj \in Alive
    BY <1>1, TextsOf DEF NodesOk
  <1>8. ResizeRefs(r, M) = Moved(r, M, nodes)
    BY DEF ResizeRefs
  <1> HIDE DEF nodes
  <1>9. Buckets(M, nodes, x)
        = [i \in 1 .. M |-> {n \in U : Hashed(M, TextOf(nodes[n].obj)) = i}]
    BY <1>4, <1>5, <1>7, TextsOf DEF Buckets
  <1>10. Moved(r, M, nodes) = RefsTable(M, nodes, x)
    <2>1. UsedNodes(M, nodes) = {n \in 1 .. M : nodes[n].obj # null}
      BY DEF UsedNodes
    <2> QED
      BY <1>4, <1>9, <2>1 DEF Moved, RefsTable, RefParts
  <1>11. M \in Nat \ {0}
    BY <1>1
  <1>12. RefsOk(ResizeRefs(r, M), x, held)
    BY <1>6, <1>8, <1>10, <1>11, RefsFrom
  <1>13. /\ ResizeRefs(r, M).numofslots = M
         /\ ResizeRefs(r, M).slotused = Cardinality(U)
    BY <1>4, <1>8, <1>10 DEF RefsTable, RefParts
  <1>14. Cardinality(U) \in Nat /\ Cardinality(U) <= N
    BY <1>1, UsedFinite
  <1> QED
    BY <1>1, <1>12, <1>13, <1>14

(* sq_addref: one more reference of the host.                              *)
LEMMA AddRefOk ==
    ASSUME NEW r, NEW held, NEW new, RefsOk(r, Texts(heap), held), Named(Texts(heap)),
           NEW s \in Alive, CountsOf(held, new, TextOf(s), held[TextOf(s)] + 1)
    PROVE  /\ RefsOk(AddRef(r, s), Texts(heap), new)
           /\ NodeOf(r, s) = 0 <=> held[TextOf(s)] = 0
  <1>1. TextOf(s) \in Key
    BY TextsOf DEF Named
  <1>2. held \in [Key -> Nat] /\ held[TextOf(s)] \in Nat
    BY <1>1 DEF CountsOf
  <1>3. r.numofslots \in Nat \ {0}
    BY RefFields
  <1>4. CASE held[TextOf(s)] = 0
    <2>1. NodeOf(r, s) = 0
      BY <1>2, <1>4, NodeFound
    <2>2. CountsOf(held, new, TextOf(s), 1)
      BY <1>4
    <2>3. CASE r.slotused = r.numofslots
      <3> DEFINE large == ResizeRefs(r, 2 * r.numofslots)
      <3>1. RefsOk(large, Texts(heap), held) /\ large.slotused # large.numofslots
        BY <1>3, ResizeRefsOk
      <3>2. AddRef(r, s) = Add(large, s, 1)
        BY <2>1, <2>3 DEF AddRef
      <3> HIDE DEF large
      <3>3. RefsOk(Add(large, s, 1), Texts(heap), new)
        BY <1>4, <2>2, <3>1, AddOk
      <3> QED
        BY <1>4, <2>1, <3>2, <3>3
    <2>4. CASE r.slotused # r.numofslots
      <3>1. AddRef(r, s) = Add(r, s, 1)
        BY <2>1, <2>4 DEF AddRef
      <3> QED
        BY <1>4, <2>1, <2>2, <2>4, <3>1, AddOk
    <2> QED
      BY <2>3, <2>4
  <1>5. CASE held[TextOf(s)] # 0
    <2>1. held[TextOf(s)] > 0
      BY <1>2, <1>5
    <2> DEFINE n == NodeOf(r, s)
    <2>2. /\ n \in UsedNodes(r.numofslots, r.nodes) /\ r.nodes[n].refs = held[TextOf(s)]
      BY <1>2, <2>1, NodeFound
    <2>3. n # 0
      BY <1>3, <2>2 DEF UsedNodes
    <2>4. AddRef(r, s) = Counted(r, n, held[TextOf(s)] + 1)
      <3>1. AddRef(r, s) = [r EXCEPT !.nodes[n].refs = @ + 1]
        BY <2>3 DEF AddRef
      <3>2. [r EXCEPT !.nodes[n].refs = @ + 1] = [r EXCEPT !.nodes[n].refs = r.nodes[n].refs + 1]
        OBVIOUS
      <3> QED
        BY <2>2, <3>1, <3>2 DEF Counted
    <2>5. held[TextOf(s)] + 1 \in Nat \ {0}
      BY <1>2
    <2>6. RefsOk(Counted(r, n, held[TextOf(s)] + 1), Texts(heap), new)
      BY <2>1, <2>5, CountedOk
    <2> QED
      BY <1>5, <2>3, <2>4, <2>6
  <1> QED
    BY <1>4, <1>5

(* sq_release: one reference less; with the last the node is free.         *)
LEMMA ReleaseOk ==
    ASSUME NEW r, NEW held, NEW new, RefsOk(r, Texts(heap), held), Named(Texts(heap)),
           NEW s \in Alive, held[TextOf(s)] > 0,
           CountsOf(held, new, TextOf(s), held[TextOf(s)] - 1)
    PROVE  /\ RefsOk(Release(r, s), Texts(heap), new)
           /\ LastRef(r, s) <=> held[TextOf(s)] = 1
  <1>1. TextOf(s) \in Key
    BY TextsOf DEF Named
  <1>2. held \in [Key -> Nat] /\ held[TextOf(s)] \in Nat
    BY <1>1 DEF CountsOf
  <1> DEFINE n == NodeOf(r, s)
  <1>3. r.nodes[n].refs = held[TextOf(s)]
    BY <1>2, NodeFound
  <1>4. LastRef(r, s) <=> held[TextOf(s)] = 1
    BY <1>3 DEF LastRef
  <1>5. CASE held[TextOf(s)] = 1
    <2>1. CountsOf(held, new, TextOf(s), 0)
      BY <1>5
    <2>2. Release(r, s) = Freed(r, ObjHash(r, s), n, RefNode)
      BY <1>4, <1>5 DEF Release, Freed
    <2>3. RefsOk(Freed(r, ObjHash(r, s), n, RefNode), Texts(heap), new)
      BY <2>1, FreedOk
    <2> QED
      BY <1>4, <2>2, <2>3
  <1>6. CASE held[TextOf(s)] # 1
    <2>1. Release(r, s) = [r EXCEPT !.nodes[n].refs = @ - 1]
      BY <1>4, <1>6 DEF Release
    <2>2. [r EXCEPT !.nodes[n].refs = @ - 1] = [r EXCEPT !.nodes[n].refs = r.nodes[n].refs - 1]
      OBVIOUS
    <2>3. Release(r, s) = Counted(r, n, held[TextOf(s)] - 1)
      BY <1>3, <2>1, <2>2 DEF Counted
    <2>4. held[TextOf(s)] - 1 \in Nat \ {0}
      BY <1>2, <1>6
    <2>5. RefsOk(Counted(r, n, held[TextOf(s)] - 1), Texts(heap), new)
      BY <2>4, CountedOk
    <2> QED
      BY <1>4, <2>3, <2>5
  <1> QED
    BY <1>5, <1>6

-----------------------------------------------------------------------------
(* Every step keeps the invariant.                                         *)

(* A text that is in use has a string, and no other has one.               *)
LEMMA InUse ==
    ASSUME CountsOk(heap, stackRefs, hostRefs), NEW k \in Key
    PROVE  /\ stackRefs[k] \in Nat /\ hostRefs[k] \in Nat
           /\ (\A s \in Alive : TextOf(s) # k) => stackRefs[k] = 0 /\ hostRefs[k] = 0
  BY DEF CountsOk, Alive, TextOf

(* The count of a string, and its parts.                                   *)
LEMMA CountIs ==
    ASSUME CountsOk(heap, stackRefs, hostRefs), Named(Texts(heap)), NEW s \in Alive
    PROVE  /\ TextOf(s) \in Key /\ heap[s].uiRef \in Nat \ {0}
           /\ heap[s].uiRef = stackRefs[TextOf(s)] + (IF hostRefs[TextOf(s)] > 0 THEN 1 ELSE 0)
           /\ heap \in [Alive -> String]
           /\ \A u \in Alive : TextOf(u) = TextOf(s) => u = s
  <1>1. heap[s] \in String
    BY DEF CountsOk, Alive
  <1>2. \A u \in Alive : TextOf(u) = TextOf(s) => u = s
    BY TextsOf DEF Named
  <1> QED
    BY <1>1, <1>2 DEF CountsOk, Alive, TextOf, String

(* A string with another count, in step with the references to its text.   *)
Recount(s, d) == [heap EXCEPT ![s].uiRef = @ + d]

LEMMA RecountOk ==
    ASSUME CountsOk(heap, stackRefs, hostRefs), Named(Texts(heap)), NEW s \in Alive,
           NEW sr \in [Key -> Nat], NEW hr \in [Key -> Nat], NEW d \in Int,
           \A k \in Key \ {TextOf(s)} : sr[k] = stackRefs[k] /\ hr[k] = hostRefs[k],
           heap[s].uiRef + d > 0,
           heap[s].uiRef + d = sr[TextOf(s)] + (IF hr[TextOf(s)] > 0 THEN 1 ELSE 0)
    PROVE  CountsOk(Recount(s, d), sr, hr) /\ Texts(Recount(s, d)) = Texts(heap)
  <1> DEFINE h == Recount(s, d)
  <1>1. /\ TextOf(s) \in Key /\ heap[s].uiRef \in Nat \ {0} /\ heap \in [Alive -> String]
        /\ \A u \in Alive : TextOf(u) = TextOf(s) => u = s
    BY CountIs
  <1>2. /\ h \in [Alive -> [text : Key, uiRef : Int]] /\ DOMAIN h = Alive
        /\ h[s].uiRef = heap[s].uiRef + d /\ h[s].text = TextOf(s)
        /\ \A u \in Alive \ {s} : h[u] = heap[u]
    BY <1>1 DEF Recount, String, TextOf
  <1>3. \A u \in Alive : h[u].text = TextOf(u)
    BY <1>2 DEF TextOf
  <1> HIDE DEF h
  <1>4. h[s] \in String
    BY <1>2 DEF String
  <1>5. h \in [DOMAIN h -> String]
    BY <1>1, <1>2, <1>4
  <1>6. ASSUME NEW u \in Alive
        PROVE  /\ h[u].uiRef > 0
               /\ h[u].uiRef = sr[h[u].text] + (IF hr[h[u].text] > 0 THEN 1 ELSE 0)
    <2>1. CASE u = s
      BY <2>1, <1>2
    <2>2. CASE u # s
      <3>1. TextOf(u) \in Key \ {TextOf(s)}
        BY <2>2, <1>1, CountIs
      <3>2. h[u] = heap[u]
        BY <2>2, <1>2
      <3>3. /\ heap[u].uiRef > 0
            /\ heap[u].uiRef = stackRefs[TextOf(u)] + (IF hostRefs[TextOf(u)] > 0 THEN 1 ELSE 0)
        BY CountIs
      <3> QED
        BY <1>3, <3>1, <3>2, <3>3
    <2> QED
      BY <2>1, <2>2
  <1>7. ASSUME NEW k \in Key, sr[k] + hr[k] > 0
        PROVE  \E u \in Alive : h[u].text = k
    <2>1. CASE k = TextOf(s)
      BY <2>1, <1>3
    <2>2. CASE k # TextOf(s)
      <3>1. stackRefs[k] + hostRefs[k] > 0
        BY <2>2, <1>7
      <3>2. \E u \in Alive : TextOf(u) = k
        BY <3>1 DEF CountsOk, Alive, TextOf
      <3> QED
        BY <3>2, <1>3
    <2> QED
      BY <2>1, <2>2
  <1>8. Texts(h) = Texts(heap)
    BY <1>2, <1>3 DEF Texts, Alive, TextOf
  <1>9. CountsOk(h, sr, hr)
    BY <1>2, <1>5, <1>6, <1>7 DEF CountsOk
  <1> QED
    BY <1>8, <1>9 DEF h

(* A string that nothing refers to any more goes.                          *)
LEMMA GoneOk ==
    ASSUME CountsOk(heap, stackRefs, hostRefs), Named(Texts(heap)), NEW s \in Alive,
           NEW sr \in [Key -> Nat], NEW hr \in [Key -> Nat],
           \A k \in Key \ {TextOf(s)} : sr[k] = stackRefs[k] /\ hr[k] = hostRefs[k],
           sr[TextOf(s)] = 0, hr[TextOf(s)] = 0,
           NEW h, h = [a \in Alive \ {s} |-> heap[a]], NEW r, RefsOk(r, Texts(heap), hr)
    PROVE  CountsOk(h, sr, hr) /\ RefsOk(r, Texts(h), hr)
  <1>1. /\ TextOf(s) \in Key /\ heap \in [Alive -> String]
        /\ \A u \in Alive : TextOf(u) = TextOf(s) => u = s
    BY CountIs
  <1>2. DOMAIN h = Alive \ {s} /\ \A u \in Alive \ {s} : h[u] = heap[u] /\ h[u].text = TextOf(u)
    BY DEF TextOf
  <1>3. h \in [DOMAIN h -> String]
    BY <1>1
  <1>4. ASSUME NEW u \in Alive \ {s}
        PROVE  /\ h[u].uiRef > 0
               /\ h[u].uiRef = sr[h[u].text] + (IF hr[h[u].text] > 0 THEN 1 ELSE 0)
    <2>1. TextOf(u) \in Key \ {TextOf(s)}
      BY <1>1, CountIs
    <2>2. /\ heap[u].uiRef > 0
          /\ heap[u].uiRef = stackRefs[TextOf(u)] + (IF hostRefs[TextOf(u)] > 0 THEN 1 ELSE 0)
      BY CountIs
    <2> QED
      BY <1>2, <2>1, <2>2
  <1>5. ASSUME NEW k \in Key, sr[k] + hr[k] > 0
        PROVE  \E u \in Alive \ {s} : h[u].text = k
    <2>1. k # TextOf(s)
      BY <1>5
    <2>2. stackRefs[k] + hostRefs[k] > 0
      BY <2>1, <1>5
    <2>3. PICK u \in Alive : TextOf(u) = k
      BY <2>2 DEF CountsOk, Alive, TextOf
    <2> QED
      BY <1>2, <2>1, <2>3
  <1>6. CountsOk(h, sr, hr)
    BY <1>2, <1>3, <1>4, <1>5 DEF CountsOk
  <1>7. /\ DOMAIN Texts(heap) = Alive /\ DOMAIN Texts(h) = Alive \ {s}
        /\ \A u \in Alive : Texts(heap)[u] = TextOf(u)
        /\ \A u \in Alive \ {s} : Texts(h)[u] = TextOf(u)
    BY <1>2, TextsOf DEF Texts
  <1>8. RefsOk(r, Texts(h), hr)
    <2>1. \A u \in Alive : hr[Texts(heap)[u]] > 0 =>
             u \in Alive \ {s} /\ Texts(h)[u] = Texts(heap)[u]
      BY <1>7
    <2>2. \A u \in Alive \ {s} : hr[Texts(h)[u]] > 0 =>
             u \in Alive /\ Texts(h)[u] = Texts(heap)[u]
      BY <1>7
    <2> QED
      BY <1>7, <2>1, <2>2, RefsFrame
  <1> QED
    BY <1>6, <1>8

(* One reference more, or less, where a reference is counted.              *)
LEMMA OneMore ==
    ASSUME NEW f \in [Key -> Nat], NEW k \in Key, NEW d \in Int, f[k] + d >= 0
    PROVE  /\ [f EXCEPT ![k] = f[k] + d] \in [Key -> Nat]
           /\ [f EXCEPT ![k] = f[k] + d][k] = f[k] + d
           /\ \A j \in Key \ {k} : [f EXCEPT ![k] = f[k] + d][j] = f[j]
  <1>1. f[k] + d \in Nat
    OBVIOUS
  <1> QED
    BY <1>1

LEMMA PushKeeps ==
    ASSUME SharedInv, NEW text \in Key, Push(text)
    PROVE  SharedInv'
  <1>1. /\ Named(Texts(heap)) /\ StringsOk(strings, Texts(heap))
        /\ RefsOk(refs, Texts(heap), hostRefs) /\ CountsOk(heap, stackRefs, hostRefs)
    BY DEF SharedInv
  <1>2. /\ AddString(text) /\ stackRefs' = [stackRefs EXCEPT ![text] = stackRefs[text] + 1]
        /\ refs' = refs /\ hostRefs' = hostRefs
    BY DEF Push
  <1>3. stackRefs \in [Key -> Nat] /\ hostRefs \in [Key -> Nat] /\ heap \in [Alive -> String]
    BY <1>1 DEF CountsOk, Alive
  <1>4. /\ stackRefs' \in [Key -> Nat] /\ stackRefs'[text] = stackRefs[text] + 1
        /\ \A k \in Key \ {text} : stackRefs'[k] = stackRefs[k]
    BY <1>2, <1>3, OneMore
  <1> DEFINE found == {s \in strings.slots[Hashed(strings.numofslots, text)] : TextOf(s) = text}
  <1>5. CASE \E s \in found : heap' = [heap EXCEPT ![s].uiRef = @ + 1] /\ UNCHANGED strings
    <2>1. PICK s \in found : heap' = [heap EXCEPT ![s].uiRef = @ + 1] /\ strings' = strings
      BY <1>5
    <2>2. s \in Alive /\ TextOf(s) = text
      BY <1>1, <2>1, SlotExists, TextsOf
    <2>3. heap' = Recount(s, 1)
      BY <2>1 DEF Recount
    <2>4. /\ heap[s].uiRef \in Nat \ {0}
          /\ heap[s].uiRef = stackRefs[text] + (IF hostRefs[text] > 0 THEN 1 ELSE 0)
      BY <1>1, <2>2, CountIs
    <2>5. /\ heap[s].uiRef + 1 > 0
          /\ heap[s].uiRef + 1 = stackRefs'[text] + (IF hostRefs[text] > 0 THEN 1 ELSE 0)
      BY <1>3, <1>4, <2>4
    <2>6. CountsOk(heap', stackRefs', hostRefs) /\ Texts(heap') = Texts(heap)
      BY <1>1, <1>3, <1>4, <2>2, <2>3, <2>5, RecountOk
    <2> QED
      BY <1>1, <1>2, <2>1, <2>6 DEF SharedInv
  <1>6. CASE found = {} /\ \E a \in Address \ Alive : NewString(text, a)
    <2>1. PICK a \in Address \ Alive : NewString(text, a)
      BY <1>6
    <2>2. \A s \in Alive : TextOf(s) # text
      <3>1. ASSUME NEW s \in Alive, TextOf(s) = text
            PROVE  FALSE
        <4>1. s \in strings.slots[Hashed(strings.numofslots, text)]
          BY <1>1, <3>1, InSlot, TextsOf
        <4> QED
          BY <1>6, <3>1, <4>1
      <3> QED
        BY <3>1
    <2>3. /\ Named(Texts(heap')) /\ StringsOk(strings', Texts(heap'))
          /\ heap' = [s \in Alive \cup {a} |->
                         IF s = a THEN [text |-> text, uiRef |-> 1] ELSE heap[s]]
      BY <1>1, <1>3, <2>1, <2>2, NewStringOk
    <2>4. stackRefs[text] = 0 /\ hostRefs[text] = 0
      BY <1>1, <2>2, InUse
    <2>5. /\ DOMAIN heap' = Alive \cup {a} /\ a \notin Alive
          /\ heap'[a].text = text /\ heap'[a].uiRef = 1
          /\ \A s \in Alive : heap'[s] = heap[s] /\ heap'[s].text = TextOf(s)
      BY <2>1, <2>3 DEF TextOf
    <2>6. heap' \in [DOMAIN heap' -> String]
      BY <1>3, <2>3, <2>5 DEF String
    <2>7. ASSUME NEW s \in Alive
          PROVE  /\ heap[s].uiRef > 0 /\ TextOf(s) \in Key \ {text}
                 /\ heap[s].uiRef = stackRefs'[TextOf(s)]
                                    + (IF hostRefs[TextOf(s)] > 0 THEN 1 ELSE 0)
      <3>1. TextOf(s) \in Key \ {text}
        BY <1>1, <2>2, CountIs
      <3>2. /\ heap[s].uiRef \in Nat \ {0}
            /\ heap[s].uiRef = stackRefs[TextOf(s)] + (IF hostRefs[TextOf(s)] > 0 THEN 1 ELSE 0)
        BY <1>1, CountIs
      <3> QED
        BY <3>1, <3>2, <1>4
    <2>8. ASSUME NEW k \in Key, stackRefs'[k] + hostRefs[k] > 0
          PROVE  \E s \in DOMAIN heap' : heap'[s].text = k
      <3>1. CASE k = text
        BY <3>1, <2>5
      <3>2. CASE k # text
        <4>1. stackRefs[k] + hostRefs[k] > 0
          BY <3>2, <1>4, <2>8
        <4>2. PICK s \in Alive : TextOf(s) = k
          BY <1>1, <4>1 DEF CountsOk, Alive, TextOf
        <4> QED
          BY <4>2, <2>5
      <3> QED
        BY <3>1, <3>2
    <2>9. CountsOk(heap', stackRefs', hostRefs)
      <3>1. stackRefs'[text] = 1
        BY <1>4, <2>4
      <3>2. \A s \in DOMAIN heap' :
               /\ heap'[s].uiRef > 0
               /\ heap'[s].uiRef = stackRefs'[heap'[s].text]
                                   + (IF hostRefs[heap'[s].text] > 0 THEN 1 ELSE 0)
        BY <3>1, <2>4, <2>5, <2>7
      <3> QED
        BY <3>2, <1>3, <1>4, <2>6, <2>8 DEF CountsOk
    <2>10. /\ DOMAIN Texts(heap) = Alive /\ DOMAIN Texts(heap') = Alive \cup {a}
           /\ Texts(heap')[a] = text
           /\ \A s \in Alive : Texts(heap)[s] = TextOf(s) /\ Texts(heap')[s] = TextOf(s)
      BY <2>5, TextsOf DEF Texts
    <2>11. RefsOk(refs, Texts(heap'), hostRefs)
      <3> DEFINE x == Texts(heap)
                 y == Texts(heap')
      <3>1. \A s \in DOMAIN x : hostRefs[x[s]] > 0 => s \in DOMAIN y /\ y[s] = x[s]
        BY <2>10
      <3>2. \A s \in DOMAIN y : hostRefs[y[s]] > 0 => s \in DOMAIN x /\ y[s] = x[s]
        BY <2>4, <2>10
      <3> HIDE DEF x, y
      <3>3. RefsOk(refs, x, hostRefs) => RefsOk(refs, y, hostRefs)
        BY <3>1, <3>2, RefsFrame
      <3> QED
        BY <1>1, <3>3 DEF x, y
    <2> QED
      BY <1>2, <2>3, <2>9, <2>11 DEF SharedInv
  <1> QED
    BY <1>2, <1>5, <1>6 DEF AddString

LEMMA PopKeeps ==
    ASSUME SharedInv, NEW s, Pop(s)
    PROVE  SharedInv'
  <1>1. /\ Named(Texts(heap)) /\ StringsOk(strings, Texts(heap))
        /\ RefsOk(refs, Texts(heap), hostRefs) /\ CountsOk(heap, stackRefs, hostRefs)
    BY DEF SharedInv
  <1> DEFINE text == TextOf(s)
  <1>2. /\ s \in Alive /\ stackRefs[text] > 0 /\ ReleaseString(s)
        /\ stackRefs' = [stackRefs EXCEPT ![text] = stackRefs[text] - 1]
        /\ refs' = refs /\ hostRefs' = hostRefs
    BY DEF Pop
  <1>3. stackRefs \in [Key -> Nat] /\ hostRefs \in [Key -> Nat] /\ heap \in [Alive -> String]
    BY <1>1 DEF CountsOk, Alive
  <1>4. /\ text \in Key /\ heap[s].uiRef \in Nat \ {0}
        /\ heap[s].uiRef = stackRefs[text] + (IF hostRefs[text] > 0 THEN 1 ELSE 0)
    BY <1>1, <1>2, CountIs
  <1>5. /\ stackRefs' \in [Key -> Nat] /\ stackRefs'[text] = stackRefs[text] - 1
        /\ \A k \in Key \ {text} : stackRefs'[k] = stackRefs[k]
    <2> HIDE DEF text
    <2>1. stackRefs' = [stackRefs EXCEPT ![text] = stackRefs[text] + (-1)]
      BY <1>2, <1>3, <1>4
    <2>2. stackRefs[text] + (-1) >= 0 /\ stackRefs[text] + (-1) = stackRefs[text] - 1
      BY <1>2, <1>3, <1>4
    <2> QED
      BY <1>3, <1>4, <2>1, <2>2, OneMore
  <1>6. /\ Named(Texts(heap')) /\ StringsOk(strings', Texts(heap'))
        /\ heap' = IF heap[s].uiRef = 1 THEN [a \in Alive \ {s} |-> heap[a]]
                   ELSE [heap EXCEPT ![s].uiRef = @ - 1]
    BY <1>1, <1>2, <1>3, ReleaseStringOk
  <1>7. CASE heap[s].uiRef = 1
    <2>1. heap' = [a \in Alive \ {s} |-> heap[a]]
      BY <1>6, <1>7
    <2>2. stackRefs'[text] = 0 /\ hostRefs[text] = 0
      BY <1>2, <1>3, <1>4, <1>5, <1>7
    <2>3. CountsOk(heap', stackRefs', hostRefs) /\ RefsOk(refs, Texts(heap'), hostRefs)
      BY <1>1, <1>2, <1>3, <1>5, <2>1, <2>2, GoneOk
    <2> QED
      BY <1>2, <1>6, <2>3 DEF SharedInv
  <1>8. CASE heap[s].uiRef # 1
    <2>1. PICK d \in Int : d = -1
      OBVIOUS
    <2>2. heap' = Recount(s, d)
      <3>1. heap' = [heap EXCEPT ![s].uiRef = heap[s].uiRef - 1]
        BY <1>6, <1>8
      <3>2. heap[s].uiRef - 1 = heap[s].uiRef + d
        BY <1>4, <2>1
      <3> QED
        BY <3>1, <3>2 DEF Recount
    <2>3. /\ heap[s].uiRef + d > 0
          /\ heap[s].uiRef + d = stackRefs'[text] + (IF hostRefs[text] > 0 THEN 1 ELSE 0)
      BY <1>3, <1>4, <1>5, <1>8, <2>1
    <2>4. /\ s \in Alive
          /\ \A k \in Key \ {text} : stackRefs'[k] = stackRefs[k] /\ hostRefs[k] = hostRefs[k]
      BY <1>2, <1>5
    <2>5. CountsOk(Recount(s, d), stackRefs', hostRefs) /\ Texts(Recount(s, d)) = Texts(heap)
      BY <1>1, <1>3, <1>5, <2>3, <2>4, RecountOk
    <2>6. CountsOk(heap', stackRefs', hostRefs) /\ Texts(heap') = Texts(heap)
      BY <2>2, <2>5
    <2> QED
      BY <1>1, <1>2, <1>6, <2>6 DEF SharedInv
  <1> QED
    BY <1>7, <1>8

LEMMA SqAddRefKeeps ==
    ASSUME SharedInv, NEW s, SqAddRef(s)
    PROVE  SharedInv'
  <1>1. /\ Named(Texts(heap)) /\ StringsOk(strings, Texts(heap))
        /\ RefsOk(refs, Texts(heap), hostRefs) /\ CountsOk(heap, stackRefs, hostRefs)
    BY DEF SharedInv
  <1> DEFINE text == TextOf(s)
  <1>2. /\ s \in Alive /\ stackRefs[text] > 0 /\ refs' = AddRef(refs, s)
        /\ heap' = IF NodeOf(refs, s) = 0 THEN [heap EXCEPT ![s].uiRef = @ + 1] ELSE heap
        /\ hostRefs' = [hostRefs EXCEPT ![text] = hostRefs[text] + 1]
        /\ strings' = strings /\ stackRefs' = stackRefs
    BY DEF SqAddRef
  <1>3. stackRefs \in [Key -> Nat] /\ hostRefs \in [Key -> Nat] /\ heap \in [Alive -> String]
    BY <1>1 DEF CountsOk, Alive
  <1>4. /\ text \in Key /\ heap[s].uiRef \in Nat \ {0}
        /\ heap[s].uiRef = stackRefs[text] + (IF hostRefs[text] > 0 THEN 1 ELSE 0)
    BY <1>1, <1>2, CountIs
  <1>5. /\ hostRefs' \in [Key -> Nat] /\ hostRefs'[text] = hostRefs[text] + 1
        /\ \A k \in Key \ {text} : hostRefs'[k] = hostRefs[k]
    BY <1>2, <1>3, <1>4, OneMore
  <1>6. CountsOf(hostRefs, hostRefs', text, hostRefs[text] + 1)
    BY <1>3, <1>5 DEF CountsOf
  <1>7. RefsOk(refs', Texts(heap), hostRefs') /\ (NodeOf(refs, s) = 0 <=> hostRefs[text] = 0)
    BY <1>1, <1>2, <1>6, AddRefOk
  <1>8. PICK d \in Int : d = IF hostRefs[text] = 0 THEN 1 ELSE 0
    OBVIOUS
  <1>9. heap' = Recount(s, d)
    <2>1. CASE hostRefs[text] = 0
      BY <2>1, <1>2, <1>7, <1>8 DEF Recount
    <2>2. CASE hostRefs[text] # 0
      <3>1. [heap EXCEPT ![s].uiRef = @ + 0] = heap
        <4>1. PICK v \in String : v = heap[s]
          BY <1>2, <1>3
        <4>2. [v EXCEPT !.uiRef = @ + 0] = v
          BY DEF String
        <4>3. [heap EXCEPT ![s] = v] = heap
          BY <1>3, <4>1
        <4> QED
          BY <4>1, <4>2, <4>3
      <3> QED
        BY <2>2, <3>1, <1>2, <1>7, <1>8 DEF Recount
    <2> QED
      BY <2>1, <2>2
  <1>10. /\ heap[s].uiRef + d > 0
         /\ heap[s].uiRef + d = stackRefs[text] + (IF hostRefs'[text] > 0 THEN 1 ELSE 0)
    BY <1>3, <1>4, <1>5, <1>8
  <1>11. /\ s \in Alive
         /\ \A k \in Key \ {text} : stackRefs[k] = stackRefs[k] /\ hostRefs'[k] = hostRefs[k]
    BY <1>2, <1>5
  <1>12. CountsOk(Recount(s, d), stackRefs, hostRefs') /\ Texts(Recount(s, d)) = Texts(heap)
    BY <1>1, <1>3, <1>5, <1>10, <1>11, RecountOk
  <1>13. CountsOk(heap', stackRefs', hostRefs') /\ Texts(heap') = Texts(heap)
    BY <1>2, <1>9, <1>12
  <1> QED
    BY <1>1, <1>2, <1>7, <1>13 DEF SharedInv

LEMMA SqReleaseKeeps ==
    ASSUME SharedInv, NEW s, SqRelease(s)
    PROVE  SharedInv'
  <1>1. /\ Named(Texts(heap)) /\ StringsOk(strings, Texts(heap))
        /\ RefsOk(refs, Texts(heap), hostRefs) /\ CountsOk(heap, stackRefs, hostRefs)
    BY DEF SharedInv
  <1> DEFINE text == TextOf(s)
  <1>2. /\ s \in Alive /\ hostRefs[text] > 0 /\ refs' = Release(refs, s)
        /\ IF LastRef(refs, s) THEN ReleaseString(s) ELSE heap' = heap /\ strings' = strings
        /\ hostRefs' = [hostRefs EXCEPT ![text] = hostRefs[text] - 1]
        /\ stackRefs' = stackRefs
    BY DEF SqRelease
  <1>3. stackRefs \in [Key -> Nat] /\ hostRefs \in [Key -> Nat] /\ heap \in [Alive -> String]
    BY <1>1 DEF CountsOk, Alive
  <1>4. /\ text \in Key /\ heap[s].uiRef \in Nat \ {0}
        /\ heap[s].uiRef = stackRefs[text] + (IF hostRefs[text] > 0 THEN 1 ELSE 0)
    BY <1>1, <1>2, CountIs
  <1>5. /\ hostRefs' \in [Key -> Nat] /\ hostRefs'[text] = hostRefs[text] - 1
        /\ \A k \in Key \ {text} : hostRefs'[k] = hostRefs[k]
    <2> HIDE DEF text
    <2>1. hostRefs' = [hostRefs EXCEPT ![text] = hostRefs[text] + (-1)]
      BY <1>2, <1>3, <1>4
    <2>2. hostRefs[text] + (-1) >= 0 /\ hostRefs[text] + (-1) = hostRefs[text] - 1
      BY <1>2, <1>3, <1>4
    <2> QED
      BY <1>3, <1>4, <2>1, <2>2, OneMore
  <1>6. CountsOf(hostRefs, hostRefs', text, hostRefs[text] - 1)
    BY <1>3, <1>5 DEF CountsOf
  <1>7. RefsOk(refs', Texts(heap), hostRefs') /\ (LastRef(refs, s) <=> hostRefs[text] = 1)
    BY <1>1, <1>2, <1>6, ReleaseOk
  <1>8. PICK d \in Int : d = IF hostRefs[text] = 1 THEN -1 ELSE 0
    OBVIOUS
  <1>9. /\ s \in Alive
        /\ \A k \in Key \ {text} : stackRefs[k] = stackRefs[k] /\ hostRefs'[k] = hostRefs[k]
    BY <1>2, <1>5
  <1>10. CASE hostRefs[text] = 1
    <2>1. ReleaseString(s)
      BY <1>2, <1>7, <1>10
    <2>2. /\ Named(Texts(heap')) /\ StringsOk(strings', Texts(heap'))
          /\ heap' = IF heap[s].uiRef = 1 THEN [a \in Alive \ {s} |-> heap[a]]
                     ELSE [heap EXCEPT ![s].uiRef = @ - 1]
      BY <1>1, <1>2, <1>3, <2>1, ReleaseStringOk
    <2>3. hostRefs'[text] = 0
      BY <1>5, <1>10
    <2>4. CASE heap[s].uiRef = 1
      <3>1. heap' = [a \in Alive \ {s} |-> heap[a]]
        BY <2>2, <2>4
      <3>2. stackRefs[text] = 0
        BY <1>3, <1>4, <1>10, <2>4
      <3>3. CountsOk(heap', stackRefs, hostRefs') /\ RefsOk(refs', Texts(heap'), hostRefs')
        BY <1>1, <1>3, <1>5, <1>7, <1>9, <2>3, <3>1, <3>2, GoneOk
      <3> QED
        BY <1>2, <2>2, <3>3 DEF SharedInv
    <2>5. CASE heap[s].uiRef # 1
      <3>1. heap' = Recount(s, d)
        <4>1. heap' = [heap EXCEPT ![s].uiRef = heap[s].uiRef - 1]
          BY <2>2, <2>5
        <4>2. heap[s].uiRef - 1 = heap[s].uiRef + d
          BY <1>4, <1>8, <1>10
        <4> QED
          BY <4>1, <4>2 DEF Recount
      <3>2. /\ heap[s].uiRef + d > 0
            /\ heap[s].uiRef + d = stackRefs[text] + (IF hostRefs'[text] > 0 THEN 1 ELSE 0)
        BY <1>3, <1>4, <1>8, <1>10, <2>3, <2>5
      <3>3. CountsOk(Recount(s, d), stackRefs, hostRefs') /\ Texts(Recount(s, d)) = Texts(heap)
        BY <1>1, <1>3, <1>5, <1>9, <3>2, RecountOk
      <3>4. CountsOk(heap', stackRefs', hostRefs') /\ Texts(heap') = Texts(heap)
        BY <1>2, <3>1, <3>3
      <3> QED
        BY <1>2, <1>7, <2>2, <3>4 DEF SharedInv
    <2> QED
      BY <2>4, <2>5
  <1>11. CASE hostRefs[text] # 1
    <2>1. heap' = heap /\ strings' = strings
      BY <1>2, <1>7, <1>11
    <2>2. hostRefs'[text] > 0
      BY <1>2, <1>3, <1>4, <1>5, <1>11
    <2>3. CountsOk(heap, stackRefs, hostRefs')
      <3>1. \A u \in Alive :
               /\ heap[u].uiRef > 0 /\ TextOf(u) \in Key
               /\ heap[u].uiRef = stackRefs[TextOf(u)] + (IF hostRefs[TextOf(u)] > 0 THEN 1 ELSE 0)
        BY <1>1, CountIs
      <3>2. \A k \in Key : hostRefs'[k] > 0 <=> hostRefs[k] > 0
        BY <1>2, <1>5, <2>2
      <3>3. \A u \in Alive :
               /\ heap[u].uiRef > 0
               /\ heap[u].uiRef = stackRefs[TextOf(u)] + (IF hostRefs'[TextOf(u)] > 0 THEN 1 ELSE 0)
        BY <3>1, <3>2
      <3>4. ASSUME NEW k \in Key, stackRefs[k] + hostRefs'[k] > 0
            PROVE  \E u \in Alive : TextOf(u) = k
        <4>1. stackRefs[k] + hostRefs[k] > 0
          BY <1>3, <1>5, <3>2, <3>4
        <4> QED
          BY <1>1, <4>1 DEF CountsOk, Alive, TextOf
      <3> QED
        BY <1>3, <1>5, <3>3, <3>4 DEF CountsOk, Alive, TextOf
    <2> QED
      BY <1>1, <1>2, <1>7, <2>1, <2>3 DEF SharedInv
  <1> QED
    BY <1>10, <1>11

LEMMA InitHas ==
    ASSUME SharedInit
    PROVE  SharedInv
  <1> DEFINE x == Texts(heap)
             N == InitialSlots
             free == [i \in 1 .. N |-> RefNode]
  <1>1. DOMAIN heap = {} /\ DOMAIN x = {}
    BY DEF SharedInit, Texts
  <1>2. Named(x)
    BY <1>1 DEF Named, Texts
  <1>3. N \in Nat \ {0}
    BY StringAssumption
  <1>4. strings = Parts(N, 0, Slots(N, x))
    BY <1>1 DEF SharedInit, AllocSlots, Slots, Parts
  <1>5. StringsOk(strings, x)
    BY <1>3, <1>4, StringsFrom
  <1>6. free \in [1 .. N -> Node] /\ UsedNodes(N, free) = {}
    BY DEF Node, RefNode, UsedNodes
  <1>7. NodesOk(N, free, x, hostRefs)
    BY <1>1, <1>6 DEF NodesOk
  <1>8. Cardinality({}) = 0
    BY FS_EmptySet
  <1>9. refs = RefsTable(N, free, x)
    BY <1>6, <1>8 DEF SharedInit, AllocRefNodes, RefsTable, RefParts, Buckets
  <1>10. RefsOk(refs, x, hostRefs)
    BY <1>3, <1>7, <1>9, RefsFrom
  <1>11. CountsOk(heap, stackRefs, hostRefs)
    BY <1>1 DEF SharedInit, CountsOk
  <1> QED
    BY <1>2, <1>5, <1>10, <1>11 DEF SharedInv

(* The invariant holds, whatever the host and the machine do.              *)
THEOREM SharedInvHolds == SharedSpec => []SharedInv
  <1>1. SharedInit => SharedInv
    BY InitHas
  <1>2. SharedInv /\ [SharedNext]_sharedVars => SharedInv'
    <2> SUFFICES ASSUME SharedInv, [SharedNext]_sharedVars PROVE SharedInv'
      OBVIOUS
    <2>1. ASSUME NEW text \in Key, Push(text) PROVE SharedInv'
      BY <2>1, PushKeeps
    <2>2. ASSUME NEW s \in Address, Pop(s) PROVE SharedInv'
      BY <2>2, PopKeeps
    <2>3. ASSUME NEW s \in Address, SqAddRef(s) PROVE SharedInv'
      BY <2>3, SqAddRefKeeps
    <2>4. ASSUME NEW s \in Address, SqRelease(s) PROVE SharedInv'
      BY <2>4, SqReleaseKeeps
    <2>5. CASE UNCHANGED sharedVars
      BY <2>5 DEF sharedVars, SharedInv
    <2> QED
      BY <2>1, <2>2, <2>3, <2>4, <2>5 DEF SharedNext
  <1> QED
    BY <1>1, <1>2, PTL DEF SharedSpec

-----------------------------------------------------------------------------
(* What follows from it.                                                   *)

(* A text in use has exactly one string, which is found under its hash, so *)
(* that two strings are equal exactly when their addresses are: whatever   *)
(* collides, and however the string table has grown (SQStringTable::Add,   *)
(* Resize and Remove).                                                     *)
THEOREM InternedHolds == SharedSpec => []Interned
  <1>1. SharedInv => Interned
    <2> SUFFICES ASSUME SharedInv, NEW t \in Key
                 PROVE  LET same == {s \in Alive : TextOf(s) = t}
                        IN  /\ Cardinality(same)
                               = (IF stackRefs[t] + hostRefs[t] > 0 THEN 1 ELSE 0)
                            /\ \A s \in same : s \in strings.slots[Hashed(strings.numofslots, t)]
      BY DEF Interned
    <2> DEFINE same == {s \in Alive : TextOf(s) = t}
    <2>1. /\ Named(Texts(heap)) /\ StringsOk(strings, Texts(heap))
          /\ CountsOk(heap, stackRefs, hostRefs)
      BY DEF SharedInv
    <2>2. \A s \in same : s \in strings.slots[Hashed(strings.numofslots, t)]
      BY <2>1, InSlot, TextsOf
    <2>3. stackRefs[t] \in Nat /\ hostRefs[t] \in Nat
      BY <2>1, InUse
    <2>4. CASE same = {}
      <3>1. stackRefs[t] = 0 /\ hostRefs[t] = 0
        BY <2>1, <2>4, InUse
      <3> QED
        BY <2>2, <2>4, <3>1, FS_EmptySet
    <2>5. CASE same # {}
      <3>1. PICK s \in Alive : TextOf(s) = t
        BY <2>5
      <3>2. same = {s}
        BY <2>1, <3>1, CountIs
      <3>3. stackRefs[t] + hostRefs[t] > 0
        BY <2>1, <2>3, <3>1, CountIs
      <3>4. Cardinality({s}) = 1
        BY FS_Singleton
      <3> QED
        BY <2>2, <3>2, <3>3, <3>4
    <2> QED
      BY <2>4, <2>5
  <1> QED
    BY <1>1, SharedInvHolds, PTL

(* An object that the host holds has a node in the table with exactly as   *)
(* many references as the host has to give back, and no other object has   *)
(* one: whatever collides, and across every resize (RefTable::AddRef,      *)
(* Release and Resize).                                                    *)
THEOREM HeldByHostHolds == SharedSpec => []HeldByHost
  <1>1. SharedInv => HeldByHost
    <2> SUFFICES ASSUME SharedInv, NEW s \in Alive
                 PROVE  IF hostRefs[TextOf(s)] = 0 THEN NodeOf(refs, s) = 0
                        ELSE /\ NodeOf(refs, s) # 0
                             /\ refs.nodes[NodeOf(refs, s)].refs = hostRefs[TextOf(s)]
      BY DEF HeldByHost
    <2>1. /\ Named(Texts(heap)) /\ RefsOk(refs, Texts(heap), hostRefs)
          /\ CountsOk(heap, stackRefs, hostRefs) /\ hostRefs \in [Key -> Nat]
      BY DEF SharedInv, CountsOk
    <2>2. TextOf(s) \in Key /\ hostRefs[TextOf(s)] \in Nat
      BY <2>1, CountIs
    <2>3. CASE hostRefs[TextOf(s)] = 0
      BY <2>1, <2>3, NodeFound
    <2>4. CASE hostRefs[TextOf(s)] > 0
      <3>1. /\ NodeOf(refs, s) \in UsedNodes(refs.numofslots, refs.nodes)
            /\ refs.nodes[NodeOf(refs, s)].refs = hostRefs[TextOf(s)]
        BY <2>1, <2>4, NodeFound
      <3>2. NodeOf(refs, s) # 0
        BY <3>1 DEF UsedNodes
      <3> QED
        BY <2>4, <3>1, <3>2
    <2> QED
      BY <2>2, <2>3, <2>4
  <1> QED
    BY <1>1, SharedInvHolds, PTL
=============================================================================
