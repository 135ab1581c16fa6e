---------------------------- MODULE SquirrelTable ----------------------------
(***************************************************************************)
(* SQTable, the hash table behind every table, class and scope of the      *)
(* scripts: a chained scatter table without buckets.  The nodes of a chain *)
(* are nodes of the array; a key that finds its main position taken moves  *)
(* to the last free node, or moves the key it finds there when that one    *)
(* is not at home.  A removed key leaves its node in the chain.            *)
(***************************************************************************)
EXTENDS SquirrelConstants

CONSTANT Value

MINPOWER2 == 4

VARIABLES
    table,      \* numofnodes, nodes, firstfree, usednodes
    op          \* history: the operation last performed and what it returned

vars == <<table, op>>

(* A pointer to a node is its index, NULL is 0.                            *)
HashNode == [key |-> null, val |-> null, next |-> 0]

AllocNodes(size) ==
    [numofnodes |-> size, nodes |-> [i \in 1 .. size |-> HashNode],
     firstfree  |-> size, usednodes |-> 0]

MainPos(t, k) == 1 + (Hash[k] % t.numofnodes)

(* The nodes that a loop over next meets from node i on.                   *)
Chain(t, i) ==
    LET node[n \in 0 .. t.numofnodes] ==
            IF n = 0 THEN i
            ELSE LET before == node[n - 1]
                 IN  IF before = 0 THEN 0 ELSE t.nodes[before].next
    IN  { node[n] : n \in 0 .. t.numofnodes } \ {0}

(* The node of the key, which is in one at most; 0 if it is in none.       *)
Get(t, k) ==
    LET found == { n \in Chain(t, MainPos(t, k)) : t.nodes[n].key = k }
    IN  IF found = {} THEN 0 ELSE CHOOSE n \in found : TRUE

(* The node before node mp in the chain from node i.                       *)
Before(t, i, mp) == CHOOSE n \in Chain(t, i) : t.nodes[n].next = mp

(* Faulty: the node before the key that is moved still leads to its old    *)
(* place.                                                                  *)
PutAtUnlinked(t, k) ==
    LET mp    == MainPos(t, k)
        n     == t.firstfree
        other == MainPos(t, t.nodes[mp].key)
    IN  IF t.nodes[mp].key = null
          THEN [at |-> mp, nodes |-> [t.nodes EXCEPT ![mp].key = k]]
        ELSE IF mp > n /\ other # mp
          THEN [at |-> mp, nodes |-> [t.nodes EXCEPT ![n]  = t.nodes[mp],
                                                     ![mp] = [HashNode EXCEPT !.key = k]]]
        ELSE [at |-> n, nodes |-> [t.nodes EXCEPT ![n].next = t.nodes[mp].next,
                                                  ![mp].next = n, ![n].key = k]]

(* Where a new key goes: the nodes with it, without its value, and where.  *)
PutAt(t, k) ==
    LET mp    == MainPos(t, k)
        n     == t.firstfree
        other == MainPos(t, t.nodes[mp].key)    \* home of the key at mp
    IN  IF t.nodes[mp].key = null
          THEN [at |-> mp, nodes |-> [t.nodes EXCEPT ![mp].key = k]]
        ELSE IF mp > n /\ other # mp
          THEN [at |-> mp, nodes |-> [t.nodes EXCEPT ![Before(t, other, mp)].next = n,
                                                     ![n]  = t.nodes[mp],
                                                     ![mp] = [HashNode EXCEPT !.key = k]]]
        ELSE [at |-> n, nodes |-> [t.nodes EXCEPT ![n].next = t.nodes[mp].next,
                                                  ![mp].next = n, ![n].key = k]]

Used(t)  == { i \in 1 .. t.numofnodes : t.nodes[i].key # null }
Free(nodes) == { i \in DOMAIN nodes : nodes[i].key = null /\ nodes[i].next = 0 }

(* Where firstfree can go when k has been put.                             *)
Left(t, k) == { i \in Free(PutAt(t, k).nodes) : i <= t.firstfree }

(* A new key with its value, when a free node is left.                     *)
Insert(t, k, v) ==
    LET put  == PutAt(t, k)
        left == Left(t, k)
    IN  [t EXCEPT !.nodes     = [put.nodes EXCEPT ![put.at].val = v],
                  !.firstfree = CHOOSE i \in left : \A j \in left : j <= i,
                  !.usednodes = @ + 1]

(* A new table with the keys of t.  It has room for all of them, so that   *)
(* NewSlot comes to Insert.                                                *)
Copy(t, size) ==
    LET new[i \in 0 .. t.numofnodes] ==
            IF i = 0 THEN AllocNodes(size)
            ELSE IF t.nodes[i].key = null THEN new[i - 1]
            ELSE Insert(new[i - 1], t.nodes[i].key, t.nodes[i].val)
    IN  new[t.numofnodes]

Rehash(t, force) ==
    LET old == t.numofnodes
    IN  IF t.usednodes >= old - old \div 4 THEN Copy(t, 2 * old)
        ELSE IF t.usednodes <= old \div 4 /\ old > MINPOWER2 THEN Copy(t, old \div 2)
        ELSE IF force THEN Copy(t, old)
        ELSE t

SetVal(t, k, v) == [t EXCEPT !.nodes[Get(t, k)].val = v]

(* Without a free node left the key, without its value, goes with the      *)
(* others into a new table, in which the second NewSlot finds it.          *)
NewSlot(t, k, v) ==
    IF Get(t, k) # 0
      THEN [table |-> SetVal(t, k, v), new |-> FALSE]
    ELSE IF Left(t, k) # {}
      THEN [table |-> Insert(t, k, v), new |-> TRUE]
    ELSE [table |-> SetVal(Rehash([t EXCEPT !.nodes = PutAt(t, k).nodes], TRUE), k, v),
          new   |-> FALSE]

(* Faulty: the removed key is still counted.                               *)
RemoveSlotUncounted(t, k) ==
    LET n == Get(t, k)
    IN  IF n = 0 THEN t
        ELSE Rehash([t EXCEPT !.nodes[n].key = null, !.nodes[n].val = null], FALSE)

RemoveSlot(t, k) ==
    LET n == Get(t, k)
    IN  IF n = 0 THEN t
        ELSE Rehash([t EXCEPT !.nodes[n].key = null, !.nodes[n].val = null,
                              !.usednodes = @ - 1], FALSE)

Clone(t) == Copy(t, t.numofnodes)

ClearNodes(t) ==
    [t EXCEPT !.nodes = [i \in 1 .. t.numofnodes |-> [@[i] EXCEPT !.key = null, !.val = null]]]

-----------------------------------------------------------------------------
Did(name, k, v, result) == op' = [name |-> name, key |-> k, val |-> v, result |-> result]

DoNewSlot(k, v) ==
    LET r == NewSlot(table, k, v)
    IN  table' = r.table /\ Did("newslot", k, v, r.new)

DoSet(k, v) ==
    /\ table' = IF Get(table, k) = 0 THEN table ELSE SetVal(table, k, v)
    /\ Did("set", k, v, Get(table, k) # 0)

DoRemove(k) == table' = RemoveSlot(table, k) /\ Did("remove", k, null, TRUE)

DoClear ==
    /\ table' = Rehash([ClearNodes(table) EXCEPT !.usednodes = 0], TRUE)
    /\ Did("clear", null, null, TRUE)

DoClone == table' = Clone(table) /\ Did("clone", null, null, TRUE)

Init ==
    /\ table = AllocNodes(MINPOWER2)
    /\ op = [name |-> "clear", key |-> null, val |-> null, result |-> TRUE]

Next ==
    \/ \E k \in Key, v \in Value : DoNewSlot(k, v) \/ DoSet(k, v)
    \/ \E k \in Key : DoRemove(k)
    \/ DoClear \/ DoClone

Spec == Init /\ [][Next]_vars

-----------------------------------------------------------------------------
Keys(t) == { t.nodes[i].key : i \in Used(t) }

(* What is found of the table.                                             *)
Contents == [ k \in { j \in Keys(table) : Get(table, j) # 0 } |-> table.nodes[Get(table, k)].val ]

(* The table is a map from keys to values: every operation has the effect  *)
(* it has on one, whatever the collisions and the removed nodes.           *)
Map == INSTANCE SquirrelMap WITH map <- Contents, op <- [op EXCEPT !.result = TRUE]
TableIsMap == Map!Spec

(* A key is in one node at most and found from its main position, the      *)
(* count is that of the keys, and there is a free node: what lets NewSlot  *)
(* and the search for a key end.                                           *)
TableSound ==
    /\ Keys(table) = DOMAIN Contents
    /\ \A i, j \in Used(table) : table.nodes[i].key = table.nodes[j].key => i = j
    /\ table.usednodes = Cardinality(Used(table))
    /\ table.firstfree \in Free(table.nodes)
=============================================================================
