---------------------------- MODULE SquirrelState ----------------------------
(***************************************************************************)
(* SQSharedState's two hash tables with buckets: SQStringTable, in which   *)
(* every string exists once, so that strings are compared by their         *)
(* addresses, and RefTable, the objects that the host holds (sq_addref,    *)
(* sq_release).  Here the objects held are strings, and a Key is the text  *)
(* of one.  A chain is the set of what is linked in it: nothing depends on *)
(* the order.                                                              *)
(***************************************************************************)
EXTENDS SquirrelConstants

CONSTANTS
    MaxStackRefs,   \* references from the VM, of each text, at most
    MaxHostRefs     \* references from the host, of each text, at most

VARIABLES
    heap,           \* the strings, by address: text and _uiRef
    strings,        \* SQStringTable: numofslots, slotused, slots
    refs,           \* RefTable: numofslots, slotused, buckets, nodes, freelist
    stackRefs,      \* history: references to a text on the VM's stack
    hostRefs        \* history: sq_addref's of a text that are not undone

sharedVars == <<heap, strings, refs, stackRefs, hostRefs>>

Alive == DOMAIN heap
TextOf(s) == heap[s].text

(* The slot or bucket of a text, where there are size of them.             *)
Hashed(size, text) == 1 + (Hash[text] % size)

-----------------------------------------------------------------------------
(* SQStringTable.                                                          *)
AllocSlots(size) ==
    [numofslots |-> size, slotused |-> 0, slots |-> [i \in 1 .. size |-> {}]]

(* Every string moves to the chain of its hash; h has their texts.         *)
Resize(t, size, h) ==
    LET all == UNION { t.slots[i] : i \in 1 .. t.numofslots }
    IN  [t EXCEPT !.numofslots = size,
                  !.slots = [i \in 1 .. size |-> { s \in all : Hashed(size, h[s].text) = i }]]

(* A string in a, the only one with its text so far, is made and chained.  *)
NewString(text, a) ==
    LET new   == [s \in Alive \cup {a} |-> IF s = a THEN [text |-> text, uiRef |-> 1] ELSE heap[s]]
        added == [strings EXCEPT !.slots[Hashed(strings.numofslots, text)] = @ \cup {a},
                                 !.slotused = @ + 1]
    IN  /\ heap' = new
        /\ strings' = IF added.slotused > added.numofslots
                        THEN Resize(added, 2 * added.numofslots, new) ELSE added

(* Faulty: a string that exists is not looked for.                         *)
AddStringAlways(text) == \E a \in Address \ Alive : NewString(text, a)

(* The string with this text, made when there is none; one more reference. *)
AddString(text) ==
    LET found == { s \in strings.slots[Hashed(strings.numofslots, text)] : TextOf(s) = text }
    IN  \/ \E s \in found : heap' = [heap EXCEPT ![s].uiRef = @ + 1] /\ UNCHANGED strings
        \/ found = {} /\ \E a \in Address \ Alive : NewString(text, a)

(* __Release: the last reference removes the string from its chain.        *)
ReleaseString(s) ==
    IF heap[s].uiRef = 1
      THEN /\ heap' = [a \in Alive \ {s} |-> heap[a]]
           /\ strings' = [strings EXCEPT !.slots[Hashed(strings.numofslots, TextOf(s))] = @ \ {s},
                                         !.slotused = @ - 1]
      ELSE heap' = [heap EXCEPT ![s].uiRef = @ - 1] /\ UNCHANGED strings

-----------------------------------------------------------------------------
(* RefTable.  A node is in a bucket or free; 0 is no node, obj an address. *)
RefNode == [obj |-> null, refs |-> 0]

AllocRefNodes(size) ==
    [numofslots |-> size, slotused |-> 0, buckets |-> [i \in 1 .. size |-> {}],
     nodes |-> [i \in 1 .. size |-> RefNode], freelist |-> 1 .. size]

ObjHash(r, s) == Hashed(r.numofslots, TextOf(s))

(* The node of the object; it is in one at most.                           *)
NodeOf(r, s) ==
    LET found == { n \in r.buckets[ObjHash(r, s)] : r.nodes[n].obj = s }
    IN  IF found = {} THEN 0 ELSE CHOOSE n \in found : TRUE

(* A node for the object, to which the caller gives its references.        *)
Add(r, s, count) ==
    LET n == CHOOSE n \in r.freelist : TRUE
    IN  [r EXCEPT !.buckets[ObjHash(r, s)] = @ \cup {n}, !.freelist = @ \ {n},
                  !.nodes[n] = [obj |-> s, refs |-> count], !.slotused = @ + 1]

(* The nodes in use are added to a larger table.  It is of no account to   *)
(* which of its nodes: here to those with their numbers.                   *)
Moved(r, size, nodes) ==
    LET used == { n \in 1 .. size : nodes[n].obj # null }
    IN  [numofslots |-> size, slotused |-> Cardinality(used), nodes |-> nodes,
         buckets    |-> [i \in 1 .. size |->
                            { n \in used : Hashed(size, TextOf(nodes[n].obj)) = i }],
         freelist   |-> (1 .. size) \ used]

(* Faulty: the nodes move without their counts.                            *)
ResizeRefsBare(r, size) ==
    Moved(r, size, [n \in 1 .. size |->
        IF n <= r.numofslots THEN [r.nodes[n] EXCEPT !.refs = 0] ELSE RefNode])

ResizeRefs(r, size) ==
    Moved(r, size, [n \in 1 .. size |-> IF n <= r.numofslots THEN r.nodes[n] ELSE RefNode])

AddRef(r, s) ==
    IF NodeOf(r, s) # 0 THEN [r EXCEPT !.nodes[NodeOf(r, s)].refs = @ + 1]
    ELSE IF r.slotused = r.numofslots THEN Add(ResizeRefs(r, 2 * r.numofslots), s, 1)
    ELSE Add(r, s, 1)

(* The node goes back to the free list with the last reference.            *)
LastRef(r, s) == r.nodes[NodeOf(r, s)].refs = 1

Release(r, s) ==
    LET n == NodeOf(r, s)
    IN  IF LastRef(r, s)
          THEN [r EXCEPT !.buckets[ObjHash(r, s)] = @ \ {n}, !.freelist = @ \cup {n},
                         !.nodes[n] = RefNode, !.slotused = @ - 1]
          ELSE [r EXCEPT !.nodes[n].refs = @ - 1]

-----------------------------------------------------------------------------
(* A string is pushed on the VM's stack, and popped again.                 *)
Push(text) ==
    /\ stackRefs[text] < MaxStackRefs
    /\ AddString(text)
    /\ stackRefs' = [stackRefs EXCEPT ![text] = @ + 1]
    /\ UNCHANGED <<refs, hostRefs>>

Pop(s) ==
    /\ s \in Alive /\ stackRefs[TextOf(s)] > 0
    /\ ReleaseString(s)
    /\ stackRefs' = [stackRefs EXCEPT ![TextOf(s)] = @ - 1]
    /\ UNCHANGED <<refs, hostRefs>>

(* sq_addref on a string of the stack: the node of the table holds it.     *)
SqAddRef(s) ==
    /\ s \in Alive /\ stackRefs[TextOf(s)] > 0 /\ hostRefs[TextOf(s)] < MaxHostRefs
    /\ refs' = AddRef(refs, s)
    /\ heap' = IF NodeOf(refs, s) = 0 THEN [heap EXCEPT ![s].uiRef = @ + 1] ELSE heap
    /\ hostRefs' = [hostRefs EXCEPT ![TextOf(s)] = @ + 1]
    /\ UNCHANGED <<strings, stackRefs>>

(* sq_release of what the host holds.                                      *)
SqRelease(s) ==
    /\ s \in Alive /\ hostRefs[TextOf(s)] > 0
    /\ refs' = Release(refs, s)
    /\ IF LastRef(refs, s) THEN ReleaseString(s) ELSE UNCHANGED <<heap, strings>>
    /\ hostRefs' = [hostRefs EXCEPT ![TextOf(s)] = @ - 1]
    /\ UNCHANGED stackRefs

SharedInit ==
    /\ heap = [a \in {} |-> null]
    /\ strings = AllocSlots(InitialSlots) /\ refs = AllocRefNodes(InitialSlots)
    /\ stackRefs = [t \in Key |-> 0] /\ hostRefs = [t \in Key |-> 0]

SharedNext ==
    \/ \E text \in Key : Push(text)
    \/ \E s \in Address : Pop(s) \/ SqAddRef(s) \/ SqRelease(s)

SharedSpec == SharedInit /\ [][SharedNext]_sharedVars

-----------------------------------------------------------------------------
(* Every string in use exists, once, and is found under its hash.          *)
Interned ==
    \A t \in Key :
        LET same == { s \in Alive : TextOf(s) = t }
        IN  /\ Cardinality(same) = (IF stackRefs[t] + hostRefs[t] > 0 THEN 1 ELSE 0)
            /\ \A s \in same : s \in strings.slots[Hashed(strings.numofslots, t)]

(* The host's references are counted, across resizes: an object it holds   *)
(* is in the table that often, another one not at all.                     *)
HeldByHost ==
    \A s \in Alive :
        IF hostRefs[TextOf(s)] = 0 THEN NodeOf(refs, s) = 0
        ELSE NodeOf(refs, s) # 0 /\ refs.nodes[NodeOf(refs, s)].refs = hostRefs[TextOf(s)]
=============================================================================
