------------------------- MODULE SquirrelTableProofs -------------------------
(***************************************************************************)
(* A table is a map, for every hash function, any keys and values, and any *)
(* sequence of operations.                                                 *)
(***************************************************************************)
EXTENDS SquirrelTable, Recursion

USE KeyAssumption

(* Nodes, where there are N of them.                                       *)
Node(N) == [key : Key \cup {null}, val : Value \cup {null}, next : 0 .. N]

-----------------------------------------------------------------------------
(* Chains as sets: what every set that has i and is closed under next has. *)
Closed(s, S) == \A x \in S : s[x].next # 0 => s[x].next \in S

Reach(s, i) ==
    { j \in DOMAIN s : \A S \in SUBSET DOMAIN s : i \in S /\ Closed(s, S) => j \in S }

(* The nodes that are reached are a closed set.                            *)
LEMMA ReachClosed ==
    ASSUME NEW N \in Nat \ {0}, NEW s \in [1 .. N -> Node(N)], NEW i \in 1 .. N
    PROVE  /\ i \in Reach(s, i) /\ Reach(s, i) \subseteq 1 .. N
           /\ Closed(s, Reach(s, i))
           /\ \A S \in SUBSET (1 .. N) : i \in S /\ Closed(s, S) => Reach(s, i) \subseteq S
  <1>1. DOMAIN s = 1 .. N
    OBVIOUS
  <1>2. ASSUME NEW x \in Reach(s, i), s[x].next # 0
        PROVE  s[x].next \in Reach(s, i)
    <2>1. s[x].next \in 1 .. N
      BY <1>1, <1>2 DEF Reach, Node
    <2>2. ASSUME NEW S \in SUBSET (1 .. N), i \in S, Closed(s, S)
          PROVE  s[x].next \in S
      BY <1>1, <1>2, <2>2 DEF Reach, Closed
    <2> QED
      BY <1>1, <2>1, <2>2 DEF Reach
  <1>3. Closed(s, Reach(s, i))
    BY <1>2 DEF Closed
  <1> QED
    BY <1>1, <1>3 DEF Reach

(* A node that is reached, but for the first, is the next of another one   *)
(* that is reached.                                                        *)
LEMMA ReachBefore ==
    ASSUME NEW N \in Nat \ {0}, NEW s \in [1 .. N -> Node(N)], NEW i \in 1 .. N,
           NEW j \in Reach(s, i), j # i
    PROVE  \E x \in Reach(s, i) : x # j /\ s[x].next = j
  <1> DEFINE S == Reach(s, i) \ {j}
  <1>1. i \in S /\ S \in SUBSET (1 .. N) /\ ~(Reach(s, i) \subseteq S)
    BY ReachClosed
  <1>2. ~Closed(s, S)
    BY <1>1, ReachClosed
  <1>3. PICK x \in S : s[x].next # 0 /\ s[x].next \notin S
    BY <1>2 DEF Closed
  <1>4. s[x].next \in Reach(s, i)
    BY <1>3, ReachClosed DEF Closed
  <1> QED
    BY <1>3, <1>4

(* N + 1 numbers among N are not all different.                            *)
LEMMA Pigeons ==
    ASSUME NEW N \in Nat, NEW f \in [0 .. N -> 1 .. N]
    PROVE  \E x, y \in 0 .. N : x # y /\ f[x] = f[y]
  <1> DEFINE S == 0 .. N
             T == 1 .. N
  <1>1. Cardinality(S) = N + 1 /\ IsFiniteSet(S)
    BY FS_Interval
  <1>2. Cardinality(T) = N /\ IsFiniteSet(T)
    BY FS_Interval
  <1>3. f \in [S -> T]
    OBVIOUS
  <1>4. Cardinality(T) < Cardinality(S)
    BY <1>1, <1>2
  <1>5. \E x, y \in S : x # y /\ f[x] = f[y]
    <2> HIDE DEF S, T
    <2> QED
      BY <1>1, <1>2, <1>3, <1>4, FS_PigeonHole
  <1> QED
    BY <1>5

(* A chain has no more nodes than the table: a walk of as many steps as    *)
(* there are nodes has seen all of it.                                     *)
LEMMA ChainIs ==
    ASSUME NEW N \in Nat \ {0}, NEW t, t.numofnodes = N, t.nodes \in [1 .. N -> Node(N)],
           NEW i \in 1 .. N
    PROVE  Chain(t, i) = Reach(t.nodes, i)
  <1> DEFINE s == t.nodes
             next(x) == IF x = 0 THEN 0 ELSE s[x].next
             step == [n \in 1 .. N |-> [x \in 0 .. N |-> next(x)]]
             isWalk(f) == f = [n \in 0 .. N |-> IF n = 0 THEN i ELSE next(f[n - 1])]
             walk == CHOOSE f : isWalk(f)
  <1>0. s \in [1 .. N -> Node(N)] /\ DOMAIN s = 1 .. N
    OBVIOUS
  <1>a. \A x \in 0 .. N : next(x) \in 0 .. N
    BY <1>0 DEF Node
  <1>1. \E f : isWalk(f) /\ f \in [0 .. N -> 0 .. N]
    <2>1. step \in [1 .. N -> [0 .. N -> 0 .. N]]
      BY <1>a
    <2>2. PICK f \in [0 .. N -> 0 .. N] : Iterates(f, N, i, step)
      <3>1. i \in 0 .. N /\ N \in Nat
        OBVIOUS
      <3> HIDE DEF step
      <3> QED
        BY <2>1, <3>1, Iteration
    <2>3. f[0] = i /\ \A n \in 1 .. N : f[n] = step[n][f[n - 1]]
      BY <2>2 DEF Iterates
    <2>4. \A n \in 1 .. N : f[n] = next(f[n - 1])
      <3> TAKE n \in 1 .. N
      <3>1. f[n - 1] \in 0 .. N
        OBVIOUS
      <3> QED
        BY <2>3, <3>1
    <2>5. isWalk(f)
      <3> HIDE DEF next
      <3> DEFINE g == [n \in 0 .. N |-> IF n = 0 THEN i ELSE next(f[n - 1])]
      <3>1. \A n \in 0 .. N : f[n] = g[n]
        BY <2>3, <2>4
      <3> QED
        BY <3>1
    <2> QED
      BY <2>5
  <1>2. isWalk(walk)
    <2> HIDE DEF isWalk
    <2> QED
      BY <1>1
  <1>3. Chain(t, i) = {walk[n] : n \in 0 .. N} \ {0}
    BY DEF Chain
  <1> HIDE DEF walk
  <1>4. walk[0] = i /\ \A n \in 1 .. N : walk[n] = next(walk[n - 1])
    <2> HIDE DEF next
    <2> QED
      BY <1>2
  <1>5. \A n \in 0 .. N : walk[n] \in 0 .. N
    <2> DEFINE S == {n \in 0 .. N : walk[n] \in 0 .. N}
    <2>1. 0 \in S
      BY <1>4
    <2>2. ASSUME NEW n \in 0 .. N, n < N, n \in S PROVE n + 1 \in S
      <3>1. n + 1 \in 1 .. N /\ n + 1 - 1 = n
        BY <2>2
      <3>2. walk[n + 1] = next(walk[n])
        <4> HIDE DEF next
        <4> QED
          BY <1>4, <3>1
      <3>3. walk[n] \in 0 .. N
        BY <2>2
      <3> HIDE DEF next
      <3>4. walk[n + 1] \in 0 .. N
        BY <1>a, <3>2, <3>3
      <3> QED
        BY <2>2, <3>4
    <2>3. \A n \in 0 .. N : n \in S
      <3> HIDE DEF S
      <3> QED
        BY <2>1, <2>2, Induct
    <2> QED
      BY <2>3
  <1> DEFINE W == {walk[n] : n \in 0 .. N} \ {0}
  <1>s. \A x \in 1 .. N : next(x) = s[x].next
    OBVIOUS
  <1>z. next(0) = 0
    OBVIOUS
  <1> HIDE DEF next, s
  <1>6. W \subseteq Reach(s, i)
    <2> DEFINE S == {n \in 0 .. N : walk[n] \in Reach(s, i) \cup {0}}
    <2>1. 0 \in S
      <3>1. i \in Reach(s, i)
        BY <1>0, ReachClosed
      <3> QED
        BY <1>4, <3>1
    <2>2. ASSUME NEW n \in 0 .. N, n < N, n \in S PROVE n + 1 \in S
      <3>1. n + 1 \in 1 .. N /\ n + 1 - 1 = n
        BY <2>2
      <3>2. walk[n + 1] = next(walk[n])
        BY <1>4, <3>1
      <3>3. walk[n] \in Reach(s, i) \cup {0} /\ Reach(s, i) \subseteq 1 .. N
        BY <1>0, <2>2, ReachClosed
      <3>4. walk[n + 1] \in Reach(s, i) \cup {0}
        <4>1. Closed(s, Reach(s, i))
          BY <1>0, ReachClosed
        <4> QED
          BY <1>s, <1>z, <3>2, <3>3, <4>1 DEF Closed
      <3> QED
        BY <3>1, <3>4
    <2>3. \A n \in 0 .. N : n \in S
      <3> HIDE DEF S
      <3> QED
        BY <2>1, <2>2, Induct
    <2> QED
      BY <2>3
  (* A walk that meets a node twice goes no further. *)
  <1>7. ASSUME NEW a \in 0 .. N, NEW b \in 0 .. N, a < b, walk[a] = walk[b]
        PROVE  \E n \in 0 .. N : next(walk[N]) = walk[n]
    <2> DEFINE T == {walk[m] : m \in 0 .. b - 1}
               S == {n \in 0 .. N : walk[n] \in T}
    <2>1. \A x \in T : next(x) \in T
      <3> TAKE x \in T
      <3>1. PICK m \in 0 .. b - 1 : x = walk[m]
        OBVIOUS
      <3>2. m + 1 \in 1 .. N /\ m + 1 - 1 = m
        BY <1>7, <3>1
      <3>3. next(x) = walk[m + 1]
        BY <1>4, <3>1, <3>2
      <3>4. CASE m + 1 = b
        <4>1. a \in 0 .. b - 1
          BY <1>7
        <4> QED
          BY <1>7, <3>3, <3>4, <4>1
      <3>5. CASE m + 1 # b
        <4>1. m + 1 \in 0 .. b - 1
          BY <1>7, <3>1, <3>5
        <4> QED
          BY <3>3, <4>1
      <3> QED
        BY <3>4, <3>5
    <2>2. 0 \in S
      BY <1>7
    <2>3. ASSUME NEW n \in 0 .. N, n < N, n \in S PROVE n + 1 \in S
      <3>1. n + 1 \in 1 .. N /\ n + 1 - 1 = n
        BY <2>3
      <3>2. walk[n + 1] = next(walk[n])
        BY <1>4, <3>1
      <3>3. walk[n] \in T
        BY <2>3
      <3> HIDE DEF T
      <3> QED
        BY <2>1, <3>1, <3>2, <3>3
    <2>4. \A n \in 0 .. N : n \in S
      <3> HIDE DEF S
      <3> QED
        BY <2>2, <2>3, Induct
    <2>5. walk[N] \in T
      BY <2>4
    <2>6. PICK m \in 0 .. b - 1 : next(walk[N]) = walk[m]
      <3>1. next(walk[N]) \in T
        <4> HIDE DEF T
        <4> QED
          BY <2>1, <2>5
      <3> QED
        BY <3>1
    <2> QED
      BY <1>7, <2>6
  <1>8. \E a, b \in 0 .. N : (a < b /\ walk[a] = walk[b]) \/ walk[N] = 0
    <2> SUFFICES ASSUME walk[N] # 0, \A a, b \in 0 .. N : a < b => walk[a] # walk[b]
                 PROVE  FALSE
      OBVIOUS
    <2>1. ASSUME NEW n \in 0 .. N, walk[n] = 0 PROVE FALSE
      <3>1. n < N
        BY <2>1
      <3>2. n + 1 \in 1 .. N /\ n + 1 - 1 = n /\ n < n + 1
        BY <3>1
      <3>3. walk[n + 1] = 0
        BY <1>4, <1>z, <2>1, <3>2
      <3> QED
        BY <2>1, <3>2, <3>3
    <2> DEFINE f == [n \in 0 .. N |-> walk[n]]
    <2>2. \A n \in 0 .. N : walk[n] \in 1 .. N
      BY <1>5, <2>1
    <2>3. f \in [0 .. N -> 1 .. N]
      BY <2>2
    <2>5. PICK x, y \in 0 .. N : x # y /\ f[x] = f[y]
      <3> HIDE DEF f
      <3> QED
        BY <2>3, Pigeons
    <2>6. x < y \/ y < x
      BY <2>5
    <2> QED
      BY <2>5, <2>6
  <1>9. Closed(s, W)
    <2> SUFFICES ASSUME NEW x \in W, s[x].next # 0 PROVE s[x].next \in W
      BY DEF Closed
    <2>1. PICK n \in 0 .. N : x = walk[n]
      OBVIOUS
    <2>2. x \in 1 .. N /\ s[x].next = next(walk[n])
      BY <1>5, <1>s, <2>1
    <2>3. \E m \in 0 .. N : next(walk[n]) = walk[m]
      <3>1. CASE n < N
        <4>1. n + 1 \in 1 .. N /\ n + 1 - 1 = n /\ n + 1 \in 0 .. N
          BY <3>1
        <4>2. walk[n + 1] = next(walk[n])
          BY <1>4, <4>1
        <4> QED
          BY <4>1, <4>2
      <3>2. CASE n = N
        BY <1>7, <1>8, <2>1, <3>2
      <3> QED
        BY <3>1, <3>2
    <2> QED
      BY <2>2, <2>3
  <1>10. Reach(s, i) \subseteq W
    <2>1. i \in W /\ W \in SUBSET (1 .. N)
      BY <1>4, <1>5
    <2> HIDE DEF W
    <2> QED
      BY <1>0, <1>9, <2>1, ReachClosed
  <1>11. Chain(t, i) = W
    BY <1>3
  <1> HIDE DEF W
  <1>12. Chain(t, i) = Reach(s, i)
    BY <1>6, <1>10, <1>11
  <1> QED
    BY <1>12 DEF s

-----------------------------------------------------------------------------
(* The links of nodes s, N of them, of which those up to f are the next of *)
(* none: every key is in the chain of its home, once, a node is the next   *)
(* of one at most, and when there is a key with home h, and a key in h,    *)
(* the one in h is at home.                                                *)
Home(N, k) == 1 + (Hash[k] % N)

UsedIn(s) == { i \in DOMAIN s : s[i].key # null }

Linked(N, s, f) ==
    /\ \A i \in UsedIn(s) : i \in Reach(s, Home(N, s[i].key))
    /\ \A i, j \in UsedIn(s) : s[i].key = s[j].key => i = j
    /\ \A i, j \in DOMAIN s : s[i].next = s[j].next /\ s[i].next # 0 => i = j
    /\ \A i \in DOMAIN s : s[i].next # 0 => s[i].next > f
    /\ \A i \in UsedIn(s) : Home(N, s[i].key) \in UsedIn(s)
                            => Home(N, s[Home(N, s[i].key)].key) = Home(N, s[i].key)

(* Nodes s hold the map m.                                                 *)
Holds(s, m) ==
    /\ m = [k \in DOMAIN m |-> m[k]]
    /\ \A i \in UsedIn(s) : s[i].key \in DOMAIN m /\ m[s[i].key] = s[i].val
    /\ \A k \in DOMAIN m : \E i \in UsedIn(s) : s[i].key = k

With(m, k, v) == [j \in DOMAIN m \cup {k} |-> IF j = k THEN v ELSE m[j]]

(* What is true of nodes w, which are s with the key k and its value v.    *)
PutOk(N, s, f, k, v, w) ==
    /\ w \in [1 .. N -> Node(N)]
    /\ \E new \in 1 .. N : s[new].key = null /\ UsedIn(w) = UsedIn(s) \cup {new}
    /\ \A g \in 0 .. f : (g = f => w[f].key = null /\ w[f].next = 0) => Linked(N, w, g)
    /\ \A m : Holds(s, m) => Holds(w, With(m, k, v))
    /\ \A i \in 1 .. N : w[i].key = null => s[i].key = null /\ (w[i].next # 0 => s[i].next # 0)

LEMMA HomeType == ASSUME NEW N \in Nat \ {0}, NEW k \in Key PROVE Home(N, k) \in 1 .. N
  <1>1. Hash[k] \in Nat
    OBVIOUS
  <1>2. Hash[k] % N \in 0 .. N - 1
    BY <1>1
  <1> QED
    BY <1>2 DEF Home

(* Chains depend on the links alone.                                       *)
LEMMA ReachSame ==
    ASSUME NEW N, NEW s \in [1 .. N -> Node(N)], NEW w \in [1 .. N -> Node(N)],
           \A i \in 1 .. N : w[i].next = s[i].next, NEW i
    PROVE  Reach(w, i) = Reach(s, i)
  <1>1. DOMAIN s = 1 .. N /\ DOMAIN w = 1 .. N
    OBVIOUS
  <1>2. \A S \in SUBSET (1 .. N) : Closed(s, S) <=> Closed(w, S)
    BY DEF Closed
  <1> QED
    BY <1>1, <1>2 DEF Reach

(* What holds of the nodes holds with other values.                        *)
LEMMA LinkedSame ==
    ASSUME NEW N \in Nat \ {0}, NEW s \in [1 .. N -> Node(N)], NEW w \in [1 .. N -> Node(N)],
           \A i \in 1 .. N : w[i].next = s[i].next /\ w[i].key = s[i].key, NEW f, Linked(N, s, f)
    PROVE  Linked(N, w, f)
  <1>1. DOMAIN s = 1 .. N /\ DOMAIN w = 1 .. N
    OBVIOUS
  <1>2. UsedIn(w) = UsedIn(s) /\ UsedIn(s) \subseteq 1 .. N
    BY <1>1 DEF UsedIn
  <1>3. \A i \in 1 .. N : w[i].next = s[i].next
    OBVIOUS
  <1>4. \A i : Reach(w, i) = Reach(s, i)
    <2>1. \A a, b \in [1 .. N -> Node(N)] :
            (\A i \in 1 .. N : b[i].next = a[i].next) => \A i : Reach(b, i) = Reach(a, i)
      BY ReachSame
    <2> QED
      BY <1>3, <2>1
  <1> QED
    BY <1>1, <1>2, <1>4 DEF Linked

(* A key more: it is in node n.                                            *)
Adds(s, w, n, k, v) ==
    /\ \A i \in UsedIn(s) : s[i].key # k
    /\ n \in UsedIn(w) /\ w[n].key = k /\ w[n].val = v
    /\ \A j \in UsedIn(w) \ {n} : \E i \in UsedIn(s) : w[j].key = s[i].key /\ w[j].val = s[i].val
    /\ \A i \in UsedIn(s) : \E j \in UsedIn(w) : w[j].key = s[i].key

LEMMA HoldsWith ==
    ASSUME NEW s, NEW w, NEW n, NEW k, NEW v, Adds(s, w, n, k, v), NEW m, Holds(s, m)
    PROVE  Holds(w, With(m, k, v))
  <1> DEFINE r == With(m, k, v)
  <1>1. /\ DOMAIN r = DOMAIN m \cup {k} /\ r[k] = v /\ r = [j \in DOMAIN r |-> r[j]]
        /\ \A j \in DOMAIN m : j # k => r[j] = m[j]
    BY DEF With
  <1> HIDE DEF r
  <1>2. /\ \A i \in UsedIn(s) : s[i].key \in DOMAIN m /\ m[s[i].key] = s[i].val
        /\ \A j \in DOMAIN m : \E i \in UsedIn(s) : s[i].key = j
    BY DEF Holds
  <1>3. \A j \in UsedIn(w) : w[j].key \in DOMAIN r /\ r[w[j].key] = w[j].val
    <2> TAKE j \in UsedIn(w)
    <2>1. CASE j = n
      BY <1>1, <2>1 DEF Adds
    <2>2. CASE j # n
      <3>1. PICK i \in UsedIn(s) : w[j].key = s[i].key /\ w[j].val = s[i].val
        BY <2>2 DEF Adds
      <3>2. s[i].key # k
        BY DEF Adds
      <3> QED
        BY <1>1, <1>2, <3>1, <3>2
    <2> QED
      BY <2>1, <2>2
  <1>4. \A j \in DOMAIN r : \E i \in UsedIn(w) : w[i].key = j
    <2> TAKE j \in DOMAIN r
    <2>1. CASE j = k
      BY <2>1 DEF Adds
    <2>2. CASE j # k
      <3>1. PICK i \in UsedIn(s) : s[i].key = j
        BY <1>1, <1>2, <2>2
      <3> QED
        BY <3>1 DEF Adds
    <2> QED
      BY <2>1, <2>2
  <1>5. Holds(w, r)
    BY <1>1, <1>3, <1>4 DEF Holds
  <1> QED
    BY <1>5 DEF r

-----------------------------------------------------------------------------
(* The main position has no key: the new one goes there.                   *)
LEMMA PutThere ==
    ASSUME NEW N \in Nat \ {0}, NEW s \in [1 .. N -> Node(N)], NEW w \in [1 .. N -> Node(N)],
           NEW f \in 1 .. N, Linked(N, s, f), NEW k \in Key, NEW v,
           \A i \in UsedIn(s) : s[i].key # k,
           NEW mp \in 1 .. N, mp = Home(N, k), s[mp].key = null,
           w[mp].key = k, w[mp].val = v, w[mp].next = s[mp].next,
           \A x \in 1 .. N \ {mp} : w[x] = s[x]
    PROVE  PutOk(N, s, f, k, v, w)
  <1>1. DOMAIN s = 1 .. N /\ DOMAIN w = 1 .. N /\ k # null
    OBVIOUS
  <1>2. UsedIn(s) \subseteq 1 .. N /\ mp \notin UsedIn(s)
    BY <1>1 DEF UsedIn
  <1>3. UsedIn(w) = UsedIn(s) \cup {mp}
    BY <1>1 DEF UsedIn
  <1>4. \A i : Reach(w, i) = Reach(s, i)
    BY ReachSame
  <1>5. \A i \in UsedIn(s) : i # mp /\ w[i] = s[i]
    BY <1>2
  <1>6. \A i \in 1 .. N : w[i].next = s[i].next
    OBVIOUS
  <1>7. ASSUME NEW g \in 0 .. f PROVE Linked(N, w, g)
    <2>1. \A i \in UsedIn(w) : i \in Reach(w, Home(N, w[i].key))
      <3>1. mp \in Reach(w, mp)
        BY ReachClosed
      <3> QED
        BY <1>3, <1>4, <1>5, <3>1 DEF Linked
    <2>2. \A i, j \in UsedIn(w) : w[i].key = w[j].key => i = j
      BY <1>3, <1>5 DEF Linked
    <2>3. \A i, j \in DOMAIN w : w[i].next = w[j].next /\ w[i].next # 0 => i = j
      BY <1>1, <1>6 DEF Linked
    <2>4. \A i \in DOMAIN w : w[i].next # 0 => w[i].next > g
      <3> TAKE i \in DOMAIN w
      <3>1. s[i].next # 0 => s[i].next > f
        BY <1>1 DEF Linked
      <3>2. s[i].next \in Nat
        BY <1>1 DEF Node
      <3> QED
        BY <1>1, <1>6, <3>1, <3>2
    <2>5. \A i \in UsedIn(w) : Home(N, w[i].key) \in UsedIn(w)
                               => Home(N, w[Home(N, w[i].key)].key) = Home(N, w[i].key)
      BY <1>3, <1>5 DEF Linked
    <2> QED
      BY <2>1, <2>2, <2>3, <2>4, <2>5 DEF Linked
  <1>8. ASSUME NEW m, Holds(s, m) PROVE Holds(w, With(m, k, v))
    <2>1. Adds(s, w, mp, k, v)
      BY <1>3, <1>5 DEF Adds
    <2> QED
      BY <1>8, <2>1, HoldsWith
  <1> QED
    BY <1>1, <1>2, <1>3, <1>6, <1>7, <1>8 DEF PutOk, UsedIn

-----------------------------------------------------------------------------
(* A node with another key, or another value.                              *)
HasKey(N, s, i, k, r) ==
    /\ r \in [1 .. N -> Node(N)]
    /\ r[i].key = k /\ r[i].val = s[i].val /\ r[i].next = s[i].next
    /\ \A x \in 1 .. N \ {i} : r[x] = s[x]

HasValue(N, s, i, v, r) ==
    /\ r \in [1 .. N -> Node(N)]
    /\ r[i].key = s[i].key /\ r[i].val = v /\ r[i].next = s[i].next
    /\ \A x \in 1 .. N \ {i} : r[x] = s[x]

(* A key that moves from mp to n, for k, and one that is put behind it.    *)
Moved(s, mp, n, p, k, v, r) ==
    /\ r[p].key = s[p].key /\ r[p].val = s[p].val /\ r[p].next = n
    /\ r[n] = s[mp]
    /\ r[mp].key = k /\ r[mp].val = v /\ r[mp].next = 0
    /\ \A x \in DOMAIN s \ {p, n, mp} : r[x] = s[x]

Behind(s, mp, n, k, v, r) ==
    /\ r[n].key = k /\ r[n].val = v /\ r[n].next = s[mp].next
    /\ r[mp].key = s[mp].key /\ r[mp].val = s[mp].val /\ r[mp].next = n
    /\ \A x \in DOMAIN s \ {n, mp} : r[x] = s[x]

LEMMA SetKey ==
    ASSUME NEW N \in Nat, NEW s \in [1 .. N -> Node(N)], NEW i \in 1 .. N, NEW k \in Key \cup {null},
           NEW r, r = [s EXCEPT ![i].key = k]
    PROVE  HasKey(N, s, i, k, r)
  BY DEF Node, HasKey

LEMMA SetValue ==
    ASSUME NEW N \in Nat, NEW s \in [1 .. N -> Node(N)], NEW i \in 1 .. N, NEW v \in Value \cup {null},
           NEW r, r = [s EXCEPT ![i].val = v]
    PROVE  HasValue(N, s, i, v, r)
  BY DEF Node, HasValue

(* Where a key that is not at home moves.                                  *)
LEMMA SetMoving ==
    ASSUME NEW N \in Nat, NEW s \in [1 .. N -> Node(N)], NEW k \in Key,
           NEW p \in 1 .. N, NEW n \in 1 .. N, NEW mp \in 1 .. N, p # n, mp # n, p # mp,
           NEW r, r = [s EXCEPT ![p].next = n, ![n] = s[mp], ![mp] = [HashNode EXCEPT !.key = k]]
    PROVE  r \in [1 .. N -> Node(N)] /\ Moved(s, mp, n, p, k, null, r)
  <1>1. /\ r = [x \in 1 .. N |-> r[x]]
        /\ r[p] = [s[p] EXCEPT !.next = n] /\ r[n] = s[mp] /\ r[mp] = [HashNode EXCEPT !.key = k]
        /\ \A x \in 1 .. N \ {p, n, mp} : r[x] = s[x]
    OBVIOUS
  <1>2. r[p] \in Node(N) /\ r[p].key = s[p].key /\ r[p].val = s[p].val /\ r[p].next = n
    <2>1. s[p] \in Node(N)
      OBVIOUS
    <2> QED
      BY <1>1, <2>1 DEF Node
  <1>3. r[mp] \in Node(N) /\ r[mp].key = k /\ r[mp].val = null /\ r[mp].next = 0
    BY <1>1 DEF Node, HashNode
  <1>4. \A x \in 1 .. N : r[x] \in Node(N)
    BY <1>1, <1>2, <1>3
  <1>5. r \in [1 .. N -> Node(N)]
    BY <1>1, <1>4
  <1> QED
    BY <1>1, <1>2, <1>3, <1>5 DEF Moved

(* Where a key goes behind the one at its main position.                   *)
LEMMA SetBehind ==
    ASSUME NEW N \in Nat, NEW s \in [1 .. N -> Node(N)], NEW k \in Key,
           NEW n \in 1 .. N, NEW mp \in 1 .. N, mp # n,
           NEW r, r = [s EXCEPT ![n].next = s[mp].next, ![mp].next = n, ![n].key = k]
    PROVE  r \in [1 .. N -> Node(N)] /\ Behind(s, mp, n, k, s[n].val, r)
  <1>1. /\ r = [x \in 1 .. N |-> r[x]]
        /\ r[mp] = [s[mp] EXCEPT !.next = n]
        /\ r[n] = [[s[n] EXCEPT !.next = s[mp].next] EXCEPT !.key = k]
        /\ \A x \in 1 .. N \ {n, mp} : r[x] = s[x]
    OBVIOUS
  <1>2. r[mp] \in Node(N) /\ r[mp].key = s[mp].key /\ r[mp].val = s[mp].val /\ r[mp].next = n
    <2>1. s[mp] \in Node(N)
      OBVIOUS
    <2> QED
      BY <1>1, <2>1 DEF Node
  <1>3. r[n] \in Node(N) /\ r[n].key = k /\ r[n].val = s[n].val /\ r[n].next = s[mp].next
    <2>1. s[n] \in Node(N) /\ s[mp].next \in 0 .. N
      BY DEF Node
    <2> QED
      BY <1>1, <2>1 DEF Node
  <1>4. \A x \in 1 .. N : r[x] \in Node(N)
    BY <1>1, <1>2, <1>3
  <1>5. r \in [1 .. N -> Node(N)]
    BY <1>1, <1>4
  <1> QED
    BY <1>1, <1>2, <1>3, <1>5 DEF Behind

(* No key has the free node f as its home.                                 *)
LEMMA NotHome ==
    ASSUME NEW N \in Nat \ {0}, NEW s \in [1 .. N -> Node(N)], NEW f \in 1 .. N,
           Linked(N, s, f), s[f].key = null, s[f].next = 0, NEW i \in UsedIn(s)
    PROVE  Home(N, s[i].key) # f
  <1>1. DOMAIN s = 1 .. N
    OBVIOUS
  <1>2. Closed(s, {f})
    BY DEF Closed
  <1>3. Reach(s, f) \subseteq {f}
    BY <1>2, ReachClosed
  <1>4. i # f /\ i \in Reach(s, Home(N, s[i].key))
    BY <1>1 DEF UsedIn, Linked
  <1> QED
    BY <1>3, <1>4

(* The key at the main position is not at home: it moves to node f, and p, *)
(* the node before it, leads there.                                        *)
LEMMA PutMoving ==
    ASSUME NEW N \in Nat \ {0}, NEW s \in [1 .. N -> Node(N)], NEW w \in [1 .. N -> Node(N)],
           NEW f \in 1 .. N, Linked(N, s, f), s[f].key = null, s[f].next = 0,
           NEW k \in Key, NEW v, \A i \in UsedIn(s) : s[i].key # k,
           NEW mp \in 1 .. N, mp = Home(N, k), s[mp].key # null, Home(N, s[mp].key) # mp,
           NEW p \in 1 .. N, s[p].next = mp,
           Moved(s, mp, f, p, k, v, w)
    PROVE  PutOk(N, s, f, k, v, w)
  <1>1. DOMAIN s = 1 .. N /\ DOMAIN w = 1 .. N /\ k # null
    OBVIOUS
  <1>a. /\ w[mp].key = k /\ w[mp].val = v /\ w[mp].next = 0 /\ w[f] = s[mp]
        /\ w[p].key = s[p].key /\ w[p].val = s[p].val /\ w[p].next = f
        /\ \A x \in 1 .. N \ {mp, f, p} : w[x] = s[x]
    BY <1>1 DEF Moved
  <1> USE <1>a
  <1>2. UsedIn(s) \subseteq 1 .. N /\ mp \in UsedIn(s) /\ f \notin UsedIn(s)
    BY <1>1 DEF UsedIn
  <1>3. mp # f /\ p # f
    OBVIOUS
  <1>4. /\ \A i, j \in 1 .. N : s[i].next = s[j].next /\ s[i].next # 0 => i = j
        /\ \A i \in 1 .. N : s[i].next # f
    <2>1. \A i \in 1 .. N : s[i].next # 0 => s[i].next > f
      BY <1>1 DEF Linked
    <2> QED
      BY <1>1, <2>1 DEF Linked
  (* p is not mp: mp would be the first node of a chain it is not home of. *)
  <1>5. p # mp
    <2>1. mp \in Reach(s, Home(N, s[mp].key))
      BY <1>2 DEF Linked
    <2>2. Home(N, s[mp].key) \in 1 .. N
      <3>1. s[mp].key \in Key
        BY DEF Node
      <3> QED
        BY <3>1, HomeType
    <2>3. PICK x \in Reach(s, Home(N, s[mp].key)) : x # mp /\ s[x].next = mp
      BY <2>1, <2>2, ReachBefore
    <2>4. x \in 1 .. N
      BY <1>1, <2>3 DEF Reach
    <2> QED
      BY <1>4, <2>3, <2>4
  <1>6. \A x \in 1 .. N \ {mp, f, p} : w[x] = s[x] /\ s[x].next # mp
    BY <1>4
  <1>7. UsedIn(w) = UsedIn(s) \cup {f}
    <2>1. \A x \in 1 .. N : w[x].key # null <=> s[x].key # null \/ x = f
      BY <1>3, <1>5
    <2> QED
      BY <1>1, <2>1 DEF UsedIn
  <1>8. \A i \in UsedIn(s) : Home(N, s[i].key) # mp /\ Home(N, s[i].key) # f
    <2> TAKE i \in UsedIn(s)
    <2>1. Home(N, s[i].key) # mp
      BY <1>2 DEF Linked
    <2> QED
      BY <2>1, NotHome
  <1> DEFINE at(i) == IF i = mp THEN f ELSE i
  (* What was reached is reached where it is now. *)
  <1>9. ASSUME NEW h \in 1 .. N, h # mp, NEW i \in Reach(s, h)
        PROVE  at(i) \in Reach(w, h)
    <2>1. i \in 1 .. N
      BY <1>1 DEF Reach
    <2>2. ASSUME NEW S \in SUBSET (1 .. N), h \in S, Closed(w, S)
          PROVE  at(i) \in S
      <3> DEFINE T == {x \in 1 .. N : at(x) \in S}
      <3>1. h \in T
        BY <1>9, <2>2
      <3>2. ASSUME NEW x \in T, s[x].next # 0 PROVE s[x].next \in T
        <4>1. s[x].next \in 1 .. N
          BY <3>2 DEF Node
        <4>2. CASE x = p
          <5>1. w[p].next \in S
            BY <1>3, <1>5, <2>2, <4>2 DEF Closed
          <5> QED
            BY <4>2, <5>1
        <4>3. CASE x = mp
          <5>1. f \in S /\ w[f].next = s[x].next
            BY <4>3
          <5>2. s[x].next \in S
            BY <2>2, <3>2, <5>1 DEF Closed
          <5>3. s[x].next # mp
            BY <1>4, <1>5, <4>3
          <5> QED
            BY <4>1, <5>2, <5>3
        <4>4. CASE x \notin {mp, p}
          <5>1. x # f
            BY <3>2
          <5>2. w[x] = s[x] /\ s[x].next # mp /\ x \in S
            BY <1>6, <4>4, <5>1
          <5>3. s[x].next \in S
            BY <2>2, <3>2, <5>2 DEF Closed
          <5> QED
            BY <4>1, <5>2, <5>3
        <4> QED
          BY <4>2, <4>3, <4>4
      <3>3. T \in SUBSET (1 .. N) /\ Closed(s, T)
        BY <3>2 DEF Closed
      <3>4. i \in T
        <4> HIDE DEF T
        <4> QED
          BY <1>1, <1>9, <3>1, <3>3 DEF Reach
      <3> QED
        BY <3>4
    <2> QED
      BY <1>1, <2>1, <2>2 DEF Reach
  <1>10. \A i \in UsedIn(s) : /\ at(i) \in UsedIn(w) /\ at(i) # mp
                              /\ w[at(i)].key = s[i].key /\ w[at(i)].val = s[i].val
    <2> TAKE i \in UsedIn(s)
    <2>1. CASE i = mp
      BY <1>3, <1>7, <2>1
    <2>2. CASE i # mp
      BY <1>2, <1>7, <2>2
    <2> QED
      BY <2>1, <2>2
  <1>11. \A j \in UsedIn(w) : j = mp \/ \E i \in UsedIn(s) : j = at(i)
    BY <1>2, <1>7
  <1>12. ASSUME NEW g \in 0 .. f, g = f => w[f].key = null /\ w[f].next = 0
         PROVE  Linked(N, w, g)
    <2>1. \A i \in UsedIn(w) : i \in Reach(w, Home(N, w[i].key))
      <3>1. mp \in Reach(w, mp)
        BY ReachClosed
      <3>2. \A i \in UsedIn(s) : at(i) \in Reach(w, Home(N, s[i].key))
        <4> TAKE i \in UsedIn(s)
        <4>1. s[i].key \in Key
          BY <1>1 DEF Node, UsedIn
        <4>2. Home(N, s[i].key) \in 1 .. N
          BY <4>1, HomeType
        <4>3. i \in Reach(s, Home(N, s[i].key))
          BY DEF Linked
        <4> HIDE DEF at
        <4> QED
          BY <1>8, <1>9, <4>2, <4>3
      <3> HIDE DEF at
      <3> QED
        BY <1>10, <1>11, <3>1, <3>2
    <2>2. \A i, j \in UsedIn(w) : w[i].key = w[j].key => i = j
      <3>1. \A i, j \in UsedIn(s) : s[i].key = s[j].key => i = j
        BY DEF Linked
      <3> HIDE DEF at
      <3> QED
        BY <1>10, <1>11, <3>1
    <2>3. \A i, j \in DOMAIN w : w[i].next = w[j].next /\ w[i].next # 0 => i = j
      <3>1. \A x \in 1 .. N \ {mp, f, p} : w[x].next # 0 => w[x].next # f /\ w[x].next # w[f].next
        BY <1>4, <1>6
      <3>2. \A x, y \in 1 .. N \ {mp, f, p} : w[x].next = w[y].next /\ w[x].next # 0 => x = y
        BY <1>4, <1>6
      <3>3. w[p].next = f /\ w[f].next # f /\ w[mp].next = 0
        BY <1>4
      <3> QED
        BY <1>1, <3>1, <3>2, <3>3
    <2>4. \A i \in DOMAIN w : w[i].next # 0 => w[i].next > g
      <3>1. g < f
        <4>1. w[f].key # null
          OBVIOUS
        <4> QED
          BY <1>12, <4>1
      <3>2. \A x \in 1 .. N : s[x].next # 0 => s[x].next > f
        BY <1>1 DEF Linked
      <3>3. \A x \in 1 .. N : s[x].next \in Nat
        BY DEF Node
      <3>4. \A x \in 1 .. N : w[x].next # 0 => w[x].next >= f
        <4> TAKE x \in 1 .. N
        <4>1. CASE x = p
          BY <4>1
        <4>2. CASE x = f
          BY <3>2, <3>3, <4>2
        <4>3. CASE x \notin {p, f, mp}
          BY <3>2, <3>3, <4>3
        <4> QED
          BY <4>1, <4>2, <4>3
      <3>5. \A x \in 1 .. N : w[x].next \in Nat
        BY DEF Node
      <3> QED
        BY <1>1, <3>1, <3>4, <3>5
    <2>5. \A i \in UsedIn(w) : Home(N, w[i].key) \in UsedIn(w)
                               => Home(N, w[Home(N, w[i].key)].key) = Home(N, w[i].key)
      <3> SUFFICES ASSUME NEW j \in UsedIn(w), Home(N, w[j].key) \in UsedIn(w)
                   PROVE  Home(N, w[Home(N, w[j].key)].key) = Home(N, w[j].key)
        OBVIOUS
      <3>1. CASE j = mp
        BY <3>1
      <3>2. CASE j # mp
        <4>1. PICK i \in UsedIn(s) : j = at(i)
          BY <1>11, <3>2
        <4>2. w[j].key = s[i].key
          BY <1>10, <4>1
        <4>3. Home(N, s[i].key) \notin {mp, f}
          BY <1>8
        <4>4. Home(N, s[i].key) \in UsedIn(s)
          BY <1>7, <4>2, <4>3
        <4>5. w[Home(N, s[i].key)].key = s[Home(N, s[i].key)].key
          BY <1>10, <4>3, <4>4
        <4>6. Home(N, s[Home(N, s[i].key)].key) = Home(N, s[i].key)
          BY <4>4 DEF Linked
        <4> QED
          BY <4>2, <4>5, <4>6
      <3> QED
        BY <3>1, <3>2
    <2> QED
      BY <2>1, <2>2, <2>3, <2>4, <2>5 DEF Linked
  <1>13. ASSUME NEW m, Holds(s, m) PROVE Holds(w, With(m, k, v))
    <2>1. mp \in UsedIn(w)
      BY <1>2, <1>7
    <2> HIDE DEF at
    <2>2. ASSUME NEW j \in UsedIn(w) \ {mp}
          PROVE  \E i \in UsedIn(s) : w[j].key = s[i].key /\ w[j].val = s[i].val
      <3>1. PICK i \in UsedIn(s) : j = at(i)
        BY <1>11
      <3> QED
        BY <1>10, <3>1
    <2>3. \A i \in UsedIn(s) : \E j \in UsedIn(w) : w[j].key = s[i].key
      BY <1>10
    <2>4. Adds(s, w, mp, k, v)
      BY <2>1, <2>2, <2>3 DEF Adds
    <2> QED
      BY <1>13, <2>4, HoldsWith
  <1>14. \A i \in 1 .. N : w[i].key = null => s[i].key = null /\ (w[i].next # 0 => s[i].next # 0)
    <2> TAKE i \in 1 .. N
    <2>1. CASE i = p
      BY <2>1
    <2>2. CASE i \in {mp, f}
      BY <2>2
    <2>3. CASE i \notin {mp, f, p}
      BY <2>3
    <2> QED
      BY <2>1, <2>2, <2>3
  <1>15. \E new \in 1 .. N : s[new].key = null /\ UsedIn(w) = UsedIn(s) \cup {new}
    BY <1>7
  <1> HIDE DEF at
  <1> QED
    BY <1>12, <1>13, <1>14, <1>15 DEF PutOk

(* The key at the main position mp is at home: the new one goes to node f, *)
(* behind it.                                                              *)
LEMMA PutBehind ==
    ASSUME NEW N \in Nat \ {0}, NEW s \in [1 .. N -> Node(N)], NEW w \in [1 .. N -> Node(N)],
           NEW f \in 1 .. N, Linked(N, s, f), s[f].key = null, s[f].next = 0,
           NEW k \in Key, NEW v, \A i \in UsedIn(s) : s[i].key # k,
           NEW mp \in 1 .. N, mp = Home(N, k), s[mp].key # null, Home(N, s[mp].key) = mp,
           Behind(s, mp, f, k, v, w)
    PROVE  PutOk(N, s, f, k, v, w)
  <1>1. DOMAIN s = 1 .. N /\ DOMAIN w = 1 .. N /\ k # null
    OBVIOUS
  <1>a. /\ w[mp].key = s[mp].key /\ w[mp].val = s[mp].val /\ w[mp].next = f
        /\ w[f].key = k /\ w[f].val = v /\ w[f].next = s[mp].next
        /\ \A x \in 1 .. N \ {mp, f} : w[x] = s[x]
    BY <1>1 DEF Behind
  <1> USE <1>a
  <1>2. UsedIn(s) \subseteq 1 .. N /\ mp \in UsedIn(s) /\ f \notin UsedIn(s) /\ mp # f
    BY <1>1 DEF UsedIn
  <1>3. UsedIn(w) = UsedIn(s) \cup {f}
    <2>1. \A x \in 1 .. N : w[x].key # null <=> s[x].key # null \/ x = f
      BY <1>1, <1>2
    <2> QED
      BY <1>1, <2>1 DEF UsedIn
  <1>4. \A i \in UsedIn(s) : w[i].key = s[i].key /\ w[i].val = s[i].val
    <2> TAKE i \in UsedIn(s)
    <2>1. i \in 1 .. N /\ i # f
      BY <1>2
    <2> QED
      BY <2>1
  <1>5. \A i \in 1 .. N : s[i].next # 0 => s[i].next > f
    BY <1>1 DEF Linked
  <1>6. \A i \in 1 .. N : s[i].next # f
    BY <1>5
  (* The new node is on the way from mp to what came after it. *)
  <1>7. ASSUME NEW S \in SUBSET (1 .. N), Closed(w, S)
        PROVE  Closed(s, S)
    <2> SUFFICES ASSUME NEW x \in S, s[x].next # 0 PROVE s[x].next \in S
      BY DEF Closed
    <2>1. CASE x = mp
      <3>1. f \in S
        BY <1>7, <2>1 DEF Closed
      <3> QED
        BY <1>7, <2>1, <3>1 DEF Closed
    <2>2. CASE x \notin {mp, f}
      <3>1. w[x] = s[x]
        BY <2>2
      <3> QED
        BY <1>7, <3>1 DEF Closed
    <2> QED
      BY <2>1, <2>2
  <1>8. ASSUME NEW h \in 1 .. N PROVE Reach(s, h) \subseteq Reach(w, h)
    BY <1>1, <1>7 DEF Reach
  <1>9. f \in Reach(w, mp)
    <2>1. mp \in Reach(w, mp) /\ Closed(w, Reach(w, mp))
      BY ReachClosed
    <2> QED
      BY <2>1 DEF Closed
  <1>10. \A i \in UsedIn(s) : s[i].key \in Key /\ Home(N, s[i].key) \in 1 .. N \ {f}
    <2> TAKE i \in UsedIn(s)
    <2>1. s[i].key \in Key
      BY <1>1 DEF Node, UsedIn
    <2>2. Home(N, s[i].key) \in 1 .. N
      BY <2>1, HomeType
    <2>3. Home(N, s[i].key) # f
      BY NotHome
    <2> QED
      BY <2>1, <2>2, <2>3
  <1>11. ASSUME NEW g \in 0 .. f, g = f => w[f].key = null /\ w[f].next = 0
         PROVE  Linked(N, w, g)
    <2>1. \A i \in UsedIn(w) : i \in Reach(w, Home(N, w[i].key))
      <3>1. \A i \in UsedIn(s) : i \in Reach(w, Home(N, s[i].key))
        BY <1>8, <1>10 DEF Linked
      <3> QED
        BY <1>3, <1>4, <1>9, <3>1
    <2>2. \A i, j \in UsedIn(w) : w[i].key = w[j].key => i = j
      <3>1. \A i, j \in UsedIn(s) : s[i].key = s[j].key => i = j
        BY DEF Linked
      <3> QED
        BY <1>3, <1>4, <3>1
    <2>3. \A i, j \in DOMAIN w : w[i].next = w[j].next /\ w[i].next # 0 => i = j
      <3>1. \A i, j \in 1 .. N : s[i].next = s[j].next /\ s[i].next # 0 => i = j
        BY <1>1 DEF Linked
      <3>2. \A x \in 1 .. N \ {mp, f} : w[x].next # 0 => w[x].next # f /\ w[x].next # w[f].next
        BY <1>6, <3>1
      <3>3. \A x, y \in 1 .. N \ {mp, f} : w[x].next = w[y].next /\ w[x].next # 0 => x = y
        BY <3>1
      <3>4. w[mp].next = f /\ w[f].next # f
        BY <1>6
      <3> QED
        BY <1>1, <3>2, <3>3, <3>4
    <2>4. \A i \in DOMAIN w : w[i].next # 0 => w[i].next > g
      <3>1. g < f
        BY <1>1, <1>11
      <3>2. \A x \in 1 .. N : s[x].next \in Nat /\ w[x].next \in Nat
        BY DEF Node
      <3>3. \A x \in 1 .. N : w[x].next # 0 => w[x].next >= f
        <4> TAKE x \in 1 .. N
        <4>1. CASE x = mp
          BY <4>1
        <4>2. CASE x = f
          BY <1>5, <3>2, <4>2
        <4>3. CASE x \notin {f, mp}
          BY <1>5, <3>2, <4>3
        <4> QED
          BY <4>1, <4>2, <4>3
      <3> QED
        BY <1>1, <3>1, <3>2, <3>3
    <2>5. \A i \in UsedIn(w) : Home(N, w[i].key) \in UsedIn(w)
                               => Home(N, w[Home(N, w[i].key)].key) = Home(N, w[i].key)
      <3> SUFFICES ASSUME NEW i \in UsedIn(w), Home(N, w[i].key) \in UsedIn(w)
                   PROVE  Home(N, w[Home(N, w[i].key)].key) = Home(N, w[i].key)
        OBVIOUS
      <3>1. CASE i = f
        BY <3>1
      <3>2. CASE i # f
        <4>1. i \in UsedIn(s) /\ w[i].key = s[i].key
          BY <1>3, <1>4, <3>2
        <4>2. Home(N, s[i].key) \in UsedIn(s)
          BY <1>3, <1>10, <4>1
        <4>3. Home(N, s[Home(N, s[i].key)].key) = Home(N, s[i].key)
          BY <4>1, <4>2 DEF Linked
        <4> QED
          BY <1>4, <4>1, <4>2, <4>3
      <3> QED
        BY <3>1, <3>2
    <2> QED
      BY <2>1, <2>2, <2>3, <2>4, <2>5 DEF Linked
  <1>12. ASSUME NEW m, Holds(s, m) PROVE Holds(w, With(m, k, v))
    <2>1. Adds(s, w, f, k, v)
      BY <1>3, <1>4 DEF Adds
    <2> QED
      BY <1>12, <2>1, HoldsWith
  <1>13. \A i \in 1 .. N : w[i].key = null => s[i].key = null /\ (w[i].next # 0 => s[i].next # 0)
    <2> TAKE i \in 1 .. N
    <2>1. CASE i \in {mp, f}
      BY <1>1, <2>1
    <2>2. CASE i \notin {mp, f}
      BY <2>2
    <2> QED
      BY <2>1, <2>2
  <1> QED
    BY <1>3, <1>11, <1>12, <1>13 DEF PutOk

(* A key that is in no node: the nodes are those with it.                  *)
Nodes(t, k, v) == [PutAt(t, k).nodes EXCEPT ![PutAt(t, k).at].val = v]

LEMMA PutAtOk ==
    ASSUME NEW N \in Nat \ {0}, NEW t, t.numofnodes = N, t.nodes \in [1 .. N -> Node(N)],
           t.firstfree \in Free(t.nodes), Linked(N, t.nodes, t.firstfree),
           NEW k \in Key, NEW v \in Value \cup {null}, \A i \in UsedIn(t.nodes) : t.nodes[i].key # k
    PROVE  /\ PutAt(t, k).at \in 1 .. N /\ PutAt(t, k).nodes \in [1 .. N -> Node(N)]
           /\ PutAt(t, k).nodes[PutAt(t, k).at].key = k
           /\ PutOk(N, t.nodes, t.firstfree, k, v, Nodes(t, k, v))
  <1> DEFINE s == t.nodes
             n == t.firstfree
             mp == MainPos(t, k)
             other == MainPos(t, s[mp].key)
             p == Before(t, other, mp)
             put == PutAt(t, k)
             r == put.nodes
             w == Nodes(t, k, v)
  <1>1. s \in [1 .. N -> Node(N)] /\ DOMAIN s = 1 .. N
    OBVIOUS
  <1>2. n \in 1 .. N /\ s[n].key = null /\ s[n].next = 0
    BY <1>1 DEF Free
  <1>3. mp = Home(N, k) /\ mp \in 1 .. N /\ other = Home(N, s[mp].key)
    BY HomeType DEF MainPos, Home
  <1>4. Linked(N, s, n) /\ \A i \in UsedIn(s) : s[i].key # k
    OBVIOUS
  <1>5. w = [r EXCEPT ![put.at].val = v]
    BY DEF Nodes
  <1>6. SUFFICES put.at \in 1 .. N /\ r \in [1 .. N -> Node(N)] /\ r[put.at].key = k
                 /\ PutOk(N, s, n, k, v, w)
    OBVIOUS
  <1>7. put = IF s[mp].key = null
                THEN [at |-> mp, nodes |-> [s EXCEPT ![mp].key = k]]
              ELSE IF mp > n /\ other # mp
                THEN [at |-> mp, nodes |-> [s EXCEPT ![p].next = n, ![n] = s[mp],
                                                     ![mp] = [HashNode EXCEPT !.key = k]]]
              ELSE [at |-> n, nodes |-> [s EXCEPT ![n].next = s[mp].next, ![mp].next = n, ![n].key = k]]
    BY DEF PutAt
  <1> DEFINE at == put.at
  <1>8. w = [r EXCEPT ![at].val = v]
    BY <1>5
  <1>12. N \in Nat /\ v \in Value \cup {null}
    OBVIOUS
  <1> HIDE DEF s, n, mp, other, p, put, w
  <1>9. CASE s[mp].key = null
    <2>1. at = mp /\ r = [s EXCEPT ![mp].key = k]
      BY <1>7, <1>9
    <2> HIDE DEF r, at
    <2>2. HasKey(N, s, mp, k, r)
      BY <1>1, <1>3, <1>12, <2>1, SetKey
    <2>3. HasValue(N, r, mp, v, w)
      <3>1. w = [r EXCEPT ![mp].val = v] /\ r \in [1 .. N -> Node(N)]
        BY <1>8, <2>1, <2>2 DEF HasKey
      <3> QED
        BY <1>3, <1>12, <3>1, SetValue
    <2>4. /\ w \in [1 .. N -> Node(N)] /\ w[mp].key = k /\ w[mp].val = v /\ w[mp].next = s[mp].next
          /\ \A x \in 1 .. N \ {mp} : w[x] = s[x]
      BY <2>2, <2>3 DEF HasKey, HasValue
    <2>5. PutOk(N, s, n, k, v, w)
      BY <1>1, <1>2, <1>3, <1>4, <1>9, <2>4, PutThere
    <2>6. r \in [1 .. N -> Node(N)] /\ r[mp].key = k
      BY <2>2 DEF HasKey
    <2> QED
      BY <1>3, <2>1, <2>5, <2>6 DEF r, at
  <1>10. CASE s[mp].key # null /\ mp > n /\ other # mp
    <2>1. mp \in UsedIn(s) /\ s[mp].key \in Key
      BY <1>1, <1>3, <1>10 DEF UsedIn, Node
    <2>2. other \in 1 .. N
      BY <1>3, <2>1, HomeType
    <2>3. mp \in Reach(s, other)
      BY <1>3, <1>4, <2>1 DEF Linked
    <2>4. \E x \in Reach(s, other) : x # mp /\ s[x].next = mp
      BY <1>1, <1>10, <2>2, <2>3, ReachBefore
    <2>5. Chain(t, other) = Reach(s, other)
      BY <2>2, ChainIs DEF s
    <2>6. p \in Reach(s, other) /\ s[p].next = mp
      BY <2>4, <2>5 DEF p, Before, s
    <2>7. p \in 1 .. N
      BY <1>1, <2>6 DEF Reach
    <2>8. p # n /\ mp # n
      BY <1>2, <1>3, <1>10, <2>6
    <2>9. p # mp
      BY <1>1, <1>3, <1>4, <2>4, <2>6, <2>7 DEF Linked, Reach
    <2>10. at = mp /\ r = [s EXCEPT ![p].next = n, ![n] = s[mp], ![mp] = [HashNode EXCEPT !.key = k]]
      BY <1>7, <1>10
    <2> HIDE DEF r, at
    <2>11. r \in [1 .. N -> Node(N)] /\ Moved(s, mp, n, p, k, null, r)
      <3>1. r = [s EXCEPT ![p].next = n, ![n] = s[mp], ![mp] = [HashNode EXCEPT !.key = k]]
        BY <2>10
      <3>2. n \in 1 .. N /\ mp \in 1 .. N /\ s \in [1 .. N -> Node(N)] /\ N \in Nat
        BY <1>1, <1>2, <1>3, <1>12
      <3> QED
        BY <2>7, <2>8, <2>9, <3>1, <3>2, SetMoving
    <2>12. HasValue(N, r, mp, v, w)
      <3>1. w = [r EXCEPT ![mp].val = v]
        BY <1>8, <2>10
      <3> QED
        BY <1>3, <1>12, <2>11, <3>1, SetValue
    <2>13. w \in [1 .. N -> Node(N)] /\ Moved(s, mp, n, p, k, v, w)
      BY <1>1, <1>2, <2>7, <2>8, <2>9, <2>11, <2>12 DEF HasValue, Moved
    <2>14. PutOk(N, s, n, k, v, w)
      BY <1>1, <1>2, <1>3, <1>4, <1>10, <2>6, <2>7, <2>13, PutMoving
    <2> QED
      BY <1>3, <2>10, <2>11, <2>14 DEF r, at, Moved
  <1>11. CASE s[mp].key # null /\ ~(mp > n /\ other # mp)
    <2>1. mp \in UsedIn(s) /\ s[mp].key \in Key /\ mp # n
      BY <1>1, <1>2, <1>3, <1>11 DEF UsedIn, Node
    <2>2. other = mp
      <3> SUFFICES ASSUME other # mp PROVE FALSE
        OBVIOUS
      <3>1. other \in 1 .. N
        BY <1>3, <2>1, HomeType
      <3>2. mp \in Reach(s, other)
        BY <1>3, <1>4, <2>1 DEF Linked
      <3>3. PICK x \in Reach(s, other) : x # mp /\ s[x].next = mp
        BY <1>1, <3>1, <3>2, ReachBefore
      <3>4. x \in 1 .. N
        BY <1>1, <3>3 DEF Reach
      <3>5. mp > n
        BY <1>1, <1>3, <1>4, <3>3, <3>4 DEF Linked
      <3> QED
        BY <1>11, <3>5
    <2>3. at = n /\ r = [s EXCEPT ![n].next = s[mp].next, ![mp].next = n, ![n].key = k]
      BY <1>7, <1>11
    <2> HIDE DEF r, at
    <2>4. r \in [1 .. N -> Node(N)] /\ Behind(s, mp, n, k, s[n].val, r)
      <3>1. r = [s EXCEPT ![n].next = s[mp].next, ![mp].next = n, ![n].key = k]
        BY <2>3
      <3>2. n \in 1 .. N /\ mp \in 1 .. N /\ s \in [1 .. N -> Node(N)] /\ N \in Nat /\ mp # n
        BY <1>1, <1>2, <1>3, <1>12, <2>1
      <3> QED
        BY <3>1, <3>2, SetBehind
    <2>5. HasValue(N, r, n, v, w)
      <3>1. w = [r EXCEPT ![n].val = v]
        BY <1>8, <2>3
      <3> QED
        BY <1>2, <1>12, <2>4, <3>1, SetValue
    <2>6. w \in [1 .. N -> Node(N)] /\ Behind(s, mp, n, k, v, w)
      BY <1>1, <1>3, <2>1, <2>4, <2>5 DEF HasValue, Behind
    <2>7. Home(N, s[mp].key) = mp
      BY <1>3, <2>2
    <2>8. PutOk(N, s, n, k, v, w)
      <3>1. s[mp].key # null
        BY <1>11
      <3> QED
        BY <1>1, <1>2, <1>3, <1>4, <2>6, <2>7, <3>1, PutBehind
    <2> QED
      BY <1>2, <2>3, <2>4, <2>8 DEF r, at, Behind
  <1> QED
    BY <1>9, <1>10, <1>11

-----------------------------------------------------------------------------
(* What numbers of nodes there are: 4 and what doubling leads to.          *)
Sizes == { x \in Nat : \A S \in SUBSET Nat : MINPOWER2 \in S /\ (\A y \in S : 2 * y \in S) => x \in S }

LEMMA SizesAre ==
    /\ MINPOWER2 \in Sizes
    /\ \A x \in Sizes : 2 * x \in Sizes /\ x >= 4 /\ (x = 4 \/ (x >= 8 /\ x \div 2 \in Sizes))
  <1>1. MINPOWER2 \in Sizes
    BY DEF Sizes, MINPOWER2
  <1>2. ASSUME NEW x \in Sizes PROVE 2 * x \in Sizes
    BY DEF Sizes
  <1> DEFINE T == {x \in Sizes : x >= 4 /\ (x = 4 \/ (x >= 8 /\ x \div 2 \in Sizes))}
  <1>3. MINPOWER2 \in T
    BY <1>1 DEF MINPOWER2
  <1>4. ASSUME NEW x \in T PROVE 2 * x \in T
    <2>1. x \in Nat /\ x >= 4 /\ x \in Sizes
      BY DEF Sizes
    <2>2. (2 * x) \div 2 = x /\ 2 * x >= 8
      BY <2>1
    <2> QED
      BY <1>2, <2>1, <2>2
  <1>5. T \in SUBSET Nat
    BY DEF Sizes
  <1>6. ASSUME NEW x \in Sizes PROVE x \in T
    <2> HIDE DEF T
    <2> QED
      BY <1>3, <1>4, <1>5 DEF Sizes
  <1> QED
    BY <1>1, <1>2, <1>6

(* The greatest of a set of nodes.                                         *)
LEMMA Greatest ==
    ASSUME NEW N \in Nat, NEW S \in SUBSET (1 .. N), S # {}
    PROVE  \E i \in S : \A j \in S : j <= i
  <1> DEFINE T == {N - x : x \in S}
  <1>1. T \in SUBSET Nat /\ T # {}
    <2>1. \A x \in S : N - x \in Nat
      OBVIOUS
    <2> QED
      BY <2>1
  <1>2. PICK n \in T : \A m \in T : n <= m
    <2> HIDE DEF T
    <2> QED
      BY <1>1, Least
  <1>3. PICK i \in S : n = N - i
    OBVIOUS
  <1>4. ASSUME NEW j \in S PROVE j <= i
    <2>1. N - i <= N - j
      BY <1>2, <1>3
    <2> QED
      BY <2>1
  <1> QED
    BY <1>4

-----------------------------------------------------------------------------
(* A table in which keys are found.                                        *)
Fields(N, s, f, u) == [numofnodes |-> N, nodes |-> s, firstfree |-> f, usednodes |-> u]

Typed(t) ==
    /\ t.numofnodes \in Sizes
    /\ t.nodes \in [1 .. t.numofnodes -> Node(t.numofnodes)]
    /\ t = Fields(t.numofnodes, t.nodes, t.firstfree, t.usednodes)

Good(t) ==
    /\ Typed(t)
    /\ Linked(t.numofnodes, t.nodes, t.firstfree)
    /\ t.firstfree \in Free(t.nodes)
    /\ t.usednodes = Cardinality(UsedIn(t.nodes))

LEMMA TypedIs ==
    ASSUME NEW t, Typed(t)
    PROVE  /\ t.numofnodes \in Nat \ {0} /\ t.numofnodes >= 4
           /\ t.nodes \in [1 .. t.numofnodes -> Node(t.numofnodes)]
           /\ DOMAIN t.nodes = 1 .. t.numofnodes
           /\ UsedIn(t.nodes) \subseteq 1 .. t.numofnodes
           /\ IsFiniteSet(UsedIn(t.nodes)) /\ Cardinality(UsedIn(t.nodes)) \in Nat
  <1>1. t.numofnodes \in Nat \ {0} /\ t.numofnodes >= 4
    <2>1. t.numofnodes \in Nat
      BY DEF Typed, Sizes
    <2> QED
      BY <2>1, SizesAre DEF Typed
  <1>2. DOMAIN t.nodes = 1 .. t.numofnodes
    BY DEF Typed
  <1>3. UsedIn(t.nodes) \subseteq 1 .. t.numofnodes
    BY <1>2 DEF UsedIn
  <1>4. IsFiniteSet(1 .. t.numofnodes)
    BY <1>1, FS_Interval
  <1>5. IsFiniteSet(UsedIn(t.nodes))
    BY <1>3, <1>4, FS_Subset
  <1>6. Cardinality(UsedIn(t.nodes)) \in Nat
    BY <1>5, FS_CardinalityType
  <1> QED
    BY <1>1, <1>2, <1>3, <1>5, <1>6 DEF Typed

(* A key is found in the node it is in.                                    *)
LEMMA GetIs ==
    ASSUME NEW t, Typed(t), NEW f, Linked(t.numofnodes, t.nodes, f), NEW k \in Key
    PROVE  /\ \A i \in UsedIn(t.nodes) : t.nodes[i].key = k => Get(t, k) = i
           /\ (\A i \in UsedIn(t.nodes) : t.nodes[i].key # k) => Get(t, k) = 0
  <1> DEFINE N == t.numofnodes
             s == t.nodes
             h == Home(N, k)
             found == {n \in Reach(s, h) : s[n].key = k}
  <1>1. N \in Nat \ {0} /\ s \in [1 .. N -> Node(N)] /\ DOMAIN s = 1 .. N
    BY TypedIs
  <1>2. h \in 1 .. N /\ MainPos(t, k) = h
    BY <1>1, HomeType DEF MainPos, Home
  <1>3. Chain(t, MainPos(t, k)) = Reach(s, h)
    BY <1>1, <1>2, ChainIs
  <1>4. Get(t, k) = IF found = {} THEN 0 ELSE CHOOSE n \in found : TRUE
    BY <1>3 DEF Get
  <1>5. found = {i \in UsedIn(s) : s[i].key = k}
    <2>1. \A i \in found : i \in UsedIn(s)
      BY <1>1 DEF UsedIn, Reach
    <2>2. \A i \in UsedIn(s) : s[i].key = k => i \in Reach(s, h)
      BY DEF Linked
    <2> QED
      BY <2>1, <2>2
  <1>6. \A i, j \in UsedIn(s) : s[i].key = s[j].key => i = j
    BY DEF Linked
  <1> HIDE DEF N, h, found
  <1>7. ASSUME NEW i \in UsedIn(s), s[i].key = k PROVE Get(t, k) = i
    <2>1. found = {i}
      BY <1>5, <1>6, <1>7
    <2> QED
      BY <1>4, <2>1
  <1>8. ASSUME \A i \in UsedIn(s) : s[i].key # k PROVE Get(t, k) = 0
    BY <1>4, <1>5, <1>8
  <1> QED
    BY <1>7, <1>8

(* The contents of a table are what its nodes hold.                        *)
ContentsOf(t) == [ k \in { j \in Keys(t) : Get(t, j) # 0 } |-> t.nodes[Get(t, k)].val ]

LEMMA ContentsHeld ==
    ASSUME NEW t, Good(t)
    PROVE  /\ Holds(t.nodes, ContentsOf(t))
           /\ \A m : Holds(t.nodes, m) => m = ContentsOf(t)
           /\ \A k \in Key : k \in DOMAIN ContentsOf(t) <=> \E i \in UsedIn(t.nodes) : t.nodes[i].key = k
           /\ DOMAIN ContentsOf(t) \subseteq Key
           /\ \A k \in Key : k \in DOMAIN ContentsOf(t) <=> Get(t, k) # 0
  <1> DEFINE s == t.nodes
             c == ContentsOf(t)
  <1>1. Typed(t) /\ Linked(t.numofnodes, s, t.firstfree)
    BY DEF Good
  <1>2. \A i \in UsedIn(s) : i # 0 /\ s[i].key \in Key
    <2>1. s \in [1 .. t.numofnodes -> Node(t.numofnodes)] /\ DOMAIN s = 1 .. t.numofnodes
      BY <1>1, TypedIs
    <2>2. \A i \in 1 .. t.numofnodes : i # 0 /\ s[i].key \in Key \cup {null}
      BY <2>1, <1>1, TypedIs DEF Node
    <2> QED
      BY <2>1, <2>2 DEF UsedIn
  <1>3. \A i \in UsedIn(s) : Get(t, s[i].key) = i
    BY <1>1, <1>2, GetIs
  <1>4. \A k \in Key : Get(t, k) # 0 => \E i \in UsedIn(s) : s[i].key = k
    BY <1>1, GetIs
  <1>5. /\ DOMAIN c = {j \in Key : Get(t, j) # 0} /\ c = [k \in DOMAIN c |-> c[k]]
        /\ \A k \in DOMAIN c : c[k] = s[Get(t, k)].val
    <2>1. Used(t) = UsedIn(s)
      BY <1>1, TypedIs DEF Used, UsedIn
    <2>2. {j \in Keys(t) : Get(t, j) # 0} = {j \in Key : Get(t, j) # 0}
      BY <1>2, <1>4, <2>1 DEF Keys
    <2> QED
      BY <2>2 DEF ContentsOf
  <1> HIDE DEF s, c
  <1>6. \A i \in UsedIn(s) : s[i].key \in DOMAIN c /\ c[s[i].key] = s[i].val
    BY <1>2, <1>3, <1>5
  <1>7. \A k \in DOMAIN c : \E i \in UsedIn(s) : s[i].key = k
    BY <1>4, <1>5
  <1>8. Holds(s, c)
    BY <1>5, <1>6, <1>7 DEF Holds
  <1>9. ASSUME NEW m, Holds(s, m) PROVE m = c
    <2>a. /\ \A i \in UsedIn(s) : s[i].key \in DOMAIN m /\ m[s[i].key] = s[i].val
          /\ \A k \in DOMAIN m : \E i \in UsedIn(s) : s[i].key = k
      BY <1>9 DEF Holds
    <2>1. DOMAIN m = DOMAIN c
      <3>1. \A k : k \in DOMAIN m => k \in DOMAIN c
        BY <2>a, <1>6
      <3>2. \A k : k \in DOMAIN c => k \in DOMAIN m
        BY <2>a, <1>7
      <3> QED
        BY <3>1, <3>2
    <2>2. \A k \in DOMAIN c : m[k] = c[k]
      BY <1>6, <1>7, <1>9 DEF Holds
    <2>3. m = [k \in DOMAIN m |-> m[k]]
      BY <1>9 DEF Holds
    <2>4. [k \in DOMAIN c |-> m[k]] = [k \in DOMAIN c |-> c[k]]
      BY <2>2
    <2> QED
      BY <1>5, <2>1, <2>3, <2>4
  <1> QED
    BY <1>5, <1>6, <1>7, <1>8, <1>9 DEF s, c

-----------------------------------------------------------------------------
(* The operations on a table.                                              *)

LEMMA FieldsOf ==
    ASSUME NEW N, NEW s, NEW f, NEW u, NEW t, t = Fields(N, s, f, u)
    PROVE  /\ t.numofnodes = N /\ t.nodes = s /\ t.firstfree = f /\ t.usednodes = u
           /\ \A w : [t EXCEPT !.nodes = w] = Fields(N, w, f, u)
           /\ \A g : [t EXCEPT !.firstfree = g] = Fields(N, s, g, u)
           /\ \A x : [t EXCEPT !.usednodes = x] = Fields(N, s, f, x)
  BY DEF Fields

(* The updates of the model, and what they do to the fields.               *)
ValSet(t, i, v) == [t EXCEPT !.nodes[i].val = v]

NodesSet(t, w) == [t EXCEPT !.nodes = w]

Inserted(t, w, g, x) == [t EXCEPT !.nodes = w, !.firstfree = g, !.usednodes = x]

Removed(t, i) == [t EXCEPT !.nodes[i].key = null, !.nodes[i].val = null, !.usednodes = @ - 1]

LEMMA FieldsVal ==
    ASSUME NEW N, NEW s, NEW f, NEW u, NEW i, NEW v, NEW t, t = Fields(N, s, f, u)
    PROVE  ValSet(t, i, v) = Fields(N, [s EXCEPT ![i].val = v], f, u)
  BY DEF Fields, ValSet

LEMMA FieldsNodes ==
    ASSUME NEW N, NEW s, NEW f, NEW u, NEW w, NEW t, t = Fields(N, s, f, u)
    PROVE  NodesSet(t, w) = Fields(N, w, f, u)
  BY DEF Fields, NodesSet

LEMMA FieldsInsert ==
    ASSUME NEW N, NEW s, NEW f, NEW u, NEW w, NEW g, NEW x, NEW t, t = Fields(N, s, f, u)
    PROVE  Inserted(t, w, g, x) = Fields(N, w, g, x)
  <1>1. [t EXCEPT !.nodes = w, !.firstfree = g, !.usednodes = x]
        = [[[t EXCEPT !.nodes = w] EXCEPT !.firstfree = g] EXCEPT !.usednodes = x]
    OBVIOUS
  <1>2. [t EXCEPT !.nodes = w] = Fields(N, w, f, u)
    BY FieldsOf
  <1>3. [Fields(N, w, f, u) EXCEPT !.firstfree = g] = Fields(N, w, g, u)
    BY FieldsOf
  <1>4. [Fields(N, w, g, u) EXCEPT !.usednodes = x] = Fields(N, w, g, x)
    BY FieldsOf
  <1> QED
    BY <1>1, <1>2, <1>3, <1>4 DEF Inserted

LEMMA FieldsRemove ==
    ASSUME NEW N, NEW s, NEW f, NEW u, NEW i, NEW t, t = Fields(N, s, f, u)
    PROVE  Removed(t, i)
           = Fields(N, [[s EXCEPT ![i].key = null] EXCEPT ![i].val = null], f, u - 1)
  <1> DEFINE a == [s EXCEPT ![i].key = null]
             b == [a EXCEPT ![i].val = null]
  <1>1. [t EXCEPT !.nodes[i].key = null, !.nodes[i].val = null, !.usednodes = @ - 1]
        = [[[t EXCEPT !.nodes[i].key = null] EXCEPT !.nodes[i].val = null] EXCEPT !.usednodes = @ - 1]
    OBVIOUS
  <1>2. [t EXCEPT !.nodes[i].key = null] = Fields(N, a, f, u)
    BY DEF Fields
  <1> HIDE DEF a
  <1>3. [Fields(N, a, f, u) EXCEPT !.nodes[i].val = null] = Fields(N, b, f, u)
    BY DEF Fields
  <1> HIDE DEF b
  <1>4. [Fields(N, b, f, u) EXCEPT !.usednodes = @ - 1] = Fields(N, b, f, u - 1)
    BY DEF Fields
  <1>5. [t EXCEPT !.nodes[i].key = null, !.nodes[i].val = null, !.usednodes = @ - 1]
        = Fields(N, b, f, u - 1)
    BY <1>1, <1>2, <1>3, <1>4
  <1> QED
    BY <1>5 DEF a, b, Removed

(* A new value for a key.                                                  *)
LEMMA SetValOk ==
    ASSUME NEW t, Good(t), NEW k \in Key, NEW v \in Value, NEW i \in UsedIn(t.nodes), t.nodes[i].key = k
    PROVE  /\ Good(SetVal(t, k, v)) /\ SetVal(t, k, v).usednodes = t.usednodes
           /\ \A m : Holds(t.nodes, m) => Holds(SetVal(t, k, v).nodes, With(m, k, v))
  <1> DEFINE N == t.numofnodes
             s == t.nodes
             r == SetVal(t, k, v)
             w == r.nodes
  <1>1. Typed(t) /\ Linked(N, s, t.firstfree) /\ t.firstfree \in Free(s)
    BY DEF Good
  <1>2. /\ N \in Nat \ {0} /\ N \in Nat /\ N \in Sizes /\ s \in [1 .. N -> Node(N)] /\ DOMAIN s = 1 .. N
        /\ i \in 1 .. N
        /\ t = Fields(N, s, t.firstfree, t.usednodes)
    BY <1>1, TypedIs DEF Typed
  <1>3. Get(t, k) = i
    BY <1>1, GetIs
  <1>4. r = Fields(N, [s EXCEPT ![i].val = v], t.firstfree, t.usednodes)
    <2>1. r = ValSet(t, i, v)
      BY <1>3 DEF SetVal, ValSet
    <2> HIDE DEF N, s, r
    <2>2. t = Fields(N, s, t.firstfree, t.usednodes)
      BY <1>2
    <2> QED
      BY <2>1, <2>2, FieldsVal
  <1>5. /\ r.numofnodes = N /\ w = [s EXCEPT ![i].val = v] /\ r.firstfree = t.firstfree
        /\ r.usednodes = t.usednodes
        /\ r = Fields(r.numofnodes, r.nodes, r.firstfree, r.usednodes)
    BY <1>4, FieldsOf
  <1> HIDE DEF N, s, r, w
  <1>6. HasValue(N, s, i, v, w)
    <2>1. v \in Value \cup {null}
      OBVIOUS
    <2> QED
      BY <1>2, <1>5, <2>1, SetValue
  <1>7. /\ w \in [1 .. N -> Node(N)] /\ DOMAIN w = 1 .. N
        /\ w[i].val = v /\ s[i].key = k /\ w[i].key = k
        /\ \A x \in 1 .. N : w[x].key = s[x].key /\ w[x].next = s[x].next
        /\ \A x \in 1 .. N \ {i} : w[x].val = s[x].val
    BY <1>6 DEF HasValue, s
  <1>8. UsedIn(w) = UsedIn(s) /\ UsedIn(s) \subseteq 1 .. N /\ Free(w) = Free(s)
    BY <1>2, <1>7 DEF UsedIn, Free
  <1>9. Linked(N, w, t.firstfree)
    BY <1>1, <1>2, <1>7, LinkedSame
  <1>10. Good(r)
    <2>1. t.usednodes = Cardinality(UsedIn(s))
      BY DEF Good, s
    <2> QED
      BY <1>1, <1>2, <1>5, <1>7, <1>8, <1>9, <2>1 DEF Good, Typed, w
  <1>11. ASSUME NEW m, Holds(s, m) PROVE Holds(w, With(m, k, v))
    <2> DEFINE c == With(m, k, v)
    <2>1. /\ DOMAIN c = DOMAIN m \cup {k} /\ c[k] = v /\ c = [j \in DOMAIN c |-> c[j]]
          /\ \A j \in DOMAIN m : j # k => c[j] = m[j]
      BY DEF With
    <2>2. /\ \A j \in UsedIn(s) : s[j].key \in DOMAIN m /\ m[s[j].key] = s[j].val
          /\ \A j \in DOMAIN m : \E x \in UsedIn(s) : s[x].key = j
      BY <1>11 DEF Holds
    <2>3. \A j \in UsedIn(s) : s[j].key = k => j = i
      BY <1>1, <1>7 DEF Linked, s
    <2> HIDE DEF c
    <2>4. \A j \in UsedIn(w) : w[j].key \in DOMAIN c /\ c[w[j].key] = w[j].val
      <3> TAKE j \in UsedIn(w)
      <3>1. CASE j = i
        BY <1>7, <2>1, <3>1
      <3>2. CASE j # i
        <4>1. j \in UsedIn(s) /\ w[j].key = s[j].key /\ w[j].val = s[j].val
          BY <1>7, <1>8, <3>2
        <4> QED
          BY <2>1, <2>2, <2>3, <3>2, <4>1
      <3> QED
        BY <3>1, <3>2
    <2>5. \A j \in DOMAIN c : \E x \in UsedIn(w) : w[x].key = j
      <3> TAKE j \in DOMAIN c
      <3>1. j \in DOMAIN m
        BY <1>7, <2>1, <2>2 DEF s
      <3>2. PICK x \in UsedIn(s) : s[x].key = j
        BY <2>2, <3>1
      <3> QED
        BY <1>7, <1>8, <3>2
    <2>6. Holds(w, c)
      BY <2>1, <2>4, <2>5 DEF Holds
    <2> QED
      BY <2>6 DEF c
  <1> QED
    BY <1>5, <1>10, <1>11 DEF s, w, r

(* Nodes that are all filled, or free and below firstfree: a table to      *)
(* which keys were only added.                                             *)
Fresh(t) ==
    \A i \in 1 .. t.numofnodes : t.nodes[i].key = null => t.nodes[i].next = 0 /\ i <= t.firstfree

(* A key more, and a node is left.                                         *)
LEMMA InsertOk ==
    ASSUME NEW t, Good(t), NEW k \in Key, NEW v \in Value \cup {null},
           \A i \in UsedIn(t.nodes) : t.nodes[i].key # k, Left(t, k) # {}
    PROVE  /\ Good(Insert(t, k, v)) /\ Insert(t, k, v).numofnodes = t.numofnodes
           /\ Insert(t, k, v).usednodes = t.usednodes + 1
           /\ \A m : Holds(t.nodes, m) => Holds(Insert(t, k, v).nodes, With(m, k, v))
           /\ Fresh(t) => Fresh(Insert(t, k, v))
  <1> DEFINE N == t.numofnodes
             s == t.nodes
             f == t.firstfree
             put == PutAt(t, k)
             left == Left(t, k)
             g == CHOOSE i \in left : \A j \in left : j <= i
             w == Nodes(t, k, v)
             r == Insert(t, k, v)
  <1>1. Typed(t) /\ Linked(N, s, f) /\ f \in Free(s) /\ t.usednodes = Cardinality(UsedIn(s))
    BY DEF Good
  <1>2. /\ N \in Nat \ {0} /\ N \in Nat /\ N \in Sizes /\ s \in [1 .. N -> Node(N)] /\ DOMAIN s = 1 .. N
        /\ t = Fields(N, s, f, t.usednodes)
        /\ IsFiniteSet(UsedIn(s)) /\ Cardinality(UsedIn(s)) \in Nat
    BY <1>1, TypedIs DEF Typed
  <1>u. \A i \in UsedIn(s) : s[i].key # k
    OBVIOUS
  <1>3. /\ put.at \in 1 .. N /\ put.nodes \in [1 .. N -> Node(N)]
        /\ PutOk(N, s, f, k, v, w)
    <2>1. put.at \in 1 .. N /\ put.nodes \in [1 .. N -> Node(N)]
      BY <1>1, <1>2, <1>u, PutAtOk
    <2>2. PutOk(N, s, f, k, v, w)
      BY <1>1, <1>2, <1>u, PutAtOk
    <2> QED
      BY <2>1, <2>2
  <1>4. f \in 1 .. N /\ s[f].key = null
    BY <1>1, <1>2 DEF Free
  <1>5. left = {i \in Free(put.nodes) : i <= f}
    BY DEF Left
  <1>6. w = [put.nodes EXCEPT ![put.at].val = v]
    BY DEF Nodes
  <1>7. r = Fields(N, w, g, t.usednodes + 1)
    <2>1. r = Inserted(t, w, g, t.usednodes + 1)
      BY <1>6 DEF Insert, Inserted
    <2> HIDE DEF N, s, f, w, g, r
    <2>2. t = Fields(N, s, f, t.usednodes)
      BY <1>2
    <2> QED
      BY <2>1, <2>2, FieldsInsert
  <1>8. /\ r.numofnodes = N /\ r.nodes = w /\ r.firstfree = g /\ r.usednodes = t.usednodes + 1
        /\ r = Fields(r.numofnodes, r.nodes, r.firstfree, r.usednodes)
    BY <1>7, FieldsOf
  <1>9. left # {}
    OBVIOUS
  <1>p. HasValue(N, put.nodes, put.at, v, w)
    <2> HIDE DEF put, w, N
    <2> QED
      BY <1>2, <1>3, <1>6, SetValue
  <1> HIDE DEF N, s, f, left, w, r, put
  <1>10. Free(w) = Free(put.nodes)
    <2>1. w \in [1 .. N -> Node(N)] /\ \A x \in 1 .. N : w[x].key = put.nodes[x].key /\ w[x].next = put.nodes[x].next
      BY <1>p DEF HasValue
    <2>2. DOMAIN w = 1 .. N /\ DOMAIN put.nodes = 1 .. N
      BY <1>3, <2>1
    <2> QED
      BY <2>1, <2>2 DEF Free
  <1>11. w \in [1 .. N -> Node(N)] /\ DOMAIN w = 1 .. N
    BY <1>3 DEF PutOk
  <1>12. left \in SUBSET (1 .. N)
    BY <1>5, <1>10, <1>11 DEF Free
  <1>13. g \in left /\ \A j \in left : j <= g
    <2>1. \E i \in left : \A j \in left : j <= i
      BY <1>2, <1>9, <1>12, Greatest
    <2> QED
      BY <2>1
  <1> HIDE DEF g
  <1>14. g \in 1 .. N /\ g <= f /\ g \in Free(w) /\ w[g].key = null /\ w[g].next = 0
    BY <1>5, <1>10, <1>11, <1>12, <1>13 DEF Free
  <1>15. Linked(N, w, g)
    BY <1>3, <1>4, <1>14 DEF PutOk
  <1>16. Cardinality(UsedIn(w)) = t.usednodes + 1
    <2>1. PICK new \in 1 .. N : s[new].key = null /\ UsedIn(w) = UsedIn(s) \cup {new}
      BY <1>3 DEF PutOk
    <2>2. new \notin UsedIn(s)
      BY <2>1 DEF UsedIn
    <2>3. Cardinality(UsedIn(s) \cup {new}) = Cardinality(UsedIn(s)) + 1
      BY <1>2, <2>2, FS_AddElement
    <2> QED
      BY <1>1, <2>1, <2>3
  <1>17. Good(r)
    BY <1>2, <1>8, <1>11, <1>14, <1>15, <1>16 DEF Good, Typed
  <1>18. ASSUME NEW m, Holds(s, m) PROVE Holds(w, With(m, k, v))
    BY <1>3, <1>18 DEF PutOk
  <1>19. ASSUME \A i \in 1 .. N : s[i].key = null => s[i].next = 0 /\ i <= f,
                NEW i \in 1 .. N, w[i].key = null
         PROVE  w[i].next = 0 /\ i <= g
    <2>1. s[i].key = null /\ (w[i].next # 0 => s[i].next # 0)
      BY <1>3, <1>19 DEF PutOk
    <2>2. w[i].next = 0 /\ i <= f
      BY <1>19, <2>1
    <2>3. i \in left
      BY <1>5, <1>10, <1>11, <1>19, <2>2 DEF Free
    <2> QED
      BY <1>13, <2>2, <2>3
  <1>20. Fresh(t) => Fresh(r)
    BY <1>8, <1>19 DEF Fresh, N, s, f
  <1> QED
    BY <1>8, <1>17, <1>18, <1>20 DEF r, s, N

(* In a table to which keys were only added a node is left.                *)
LEMMA LeftFresh ==
    ASSUME NEW t, Good(t), Fresh(t), NEW k \in Key, \A i \in UsedIn(t.nodes) : t.nodes[i].key # k,
           t.usednodes + 1 < t.numofnodes
    PROVE  Left(t, k) # {}
  <1> DEFINE N == t.numofnodes
             s == t.nodes
             f == t.firstfree
             put == PutAt(t, k)
             v == put.nodes[put.at].val
             w == Nodes(t, k, v)
  <1>1. Typed(t) /\ Linked(N, s, f) /\ f \in Free(s) /\ t.usednodes = Cardinality(UsedIn(s))
    BY DEF Good
  <1>2. /\ N \in Nat \ {0} /\ N \in Nat /\ s \in [1 .. N -> Node(N)] /\ DOMAIN s = 1 .. N
        /\ IsFiniteSet(UsedIn(s)) /\ Cardinality(UsedIn(s)) \in Nat
    BY <1>1, TypedIs
  <1>3. put.at \in 1 .. N /\ put.nodes \in [1 .. N -> Node(N)]
    BY <1>1, <1>2, PutAtOk
  <1>4. v \in Value \cup {null}
    BY <1>3 DEF Node
  <1>u. \A i \in UsedIn(s) : s[i].key # k
    OBVIOUS
  <1> HIDE DEF v
  <1>5. PutOk(N, s, f, k, v, w)
    BY <1>1, <1>2, <1>4, <1>u, PutAtOk
  <1>6. HasValue(N, put.nodes, put.at, v, w)
    <2>1. w = [put.nodes EXCEPT ![put.at].val = v]
      BY DEF Nodes
    <2> HIDE DEF put, w, N
    <2> QED
      BY <1>2, <1>3, <1>4, <2>1, SetValue
  <1>7. Left(t, k) = {i \in Free(put.nodes) : i <= f}
    BY DEF Left
  <1>8. t.usednodes + 1 < N /\ \A i \in 1 .. N : s[i].key = null => s[i].next = 0 /\ i <= f
    BY DEF Fresh
  <1> HIDE DEF N, s, f, put, w
  <1>9. PICK new \in 1 .. N : s[new].key = null /\ UsedIn(w) = UsedIn(s) \cup {new}
    BY <1>5 DEF PutOk
  <1>10. Cardinality(UsedIn(w)) <= Cardinality(UsedIn(s)) + 1 /\ IsFiniteSet(UsedIn(w))
         /\ Cardinality(UsedIn(w)) \in Nat
    <2>1. /\ IsFiniteSet(UsedIn(s) \cup {new})
          /\ Cardinality(UsedIn(s) \cup {new}) = IF new \in UsedIn(s) THEN Cardinality(UsedIn(s))
                                                 ELSE Cardinality(UsedIn(s)) + 1
      BY <1>2, FS_AddElement
    <2> QED
      BY <1>2, <1>9, <2>1
  <1>11. w \in [1 .. N -> Node(N)] /\ DOMAIN w = 1 .. N
    BY <1>5 DEF PutOk
  <1>12. PICK i \in 1 .. N : i \notin UsedIn(w)
    <2>1. Cardinality(1 .. N) = N
      <3>1. N \in Nat /\ N \in Int /\ 1 \in Int /\ ~(1 > N)
        BY <1>2
      <3>2. Cardinality(1 .. N) = IF 1 > N THEN 0 ELSE N - 1 + 1
        BY <3>1, FS_Interval
      <3> QED
        BY <3>1, <3>2
    <2>2. 1 .. N # UsedIn(w)
      BY <1>1, <1>2, <1>8, <1>10, <2>1
    <2>3. UsedIn(w) \subseteq 1 .. N
      BY <1>11 DEF UsedIn
    <2> QED
      BY <2>2, <2>3
  <1>13. w[i].key = null
    BY <1>11, <1>12 DEF UsedIn
  <1>14. s[i].key = null /\ w[i].next = 0
    BY <1>5, <1>8, <1>13 DEF PutOk
  <1>15. put.nodes[i].key = null /\ put.nodes[i].next = 0
    BY <1>6, <1>13, <1>14 DEF HasValue
  <1>16. i \in Free(put.nodes) /\ i <= f
    BY <1>3, <1>8, <1>14, <1>15 DEF Free
  <1> QED
    BY <1>7, <1>16

-----------------------------------------------------------------------------
(* A new table: no keys.                                                   *)
LEMMA AllocOk ==
    ASSUME NEW size \in Sizes
    PROVE  /\ Good(AllocNodes(size)) /\ Fresh(AllocNodes(size))
           /\ AllocNodes(size).numofnodes = size /\ AllocNodes(size).usednodes = 0
           /\ UsedIn(AllocNodes(size).nodes) = {}
  <1> DEFINE t == AllocNodes(size)
             s == [i \in 1 .. size |-> HashNode]
  <1>1. size \in Nat \ {0} /\ size \in 1 .. size
    <2>1. size \in Nat
      BY DEF Sizes
    <2> QED
      BY <2>1, SizesAre
  <1>2. /\ t = Fields(size, s, size, 0) /\ t.numofnodes = size /\ t.nodes = s /\ t.firstfree = size
        /\ t.usednodes = 0
    BY DEF AllocNodes, Fields
  <1>3. HashNode \in Node(size) /\ HashNode.key = null /\ HashNode.next = 0
    BY <1>1 DEF HashNode, Node
  <1>4. s \in [1 .. size -> Node(size)] /\ DOMAIN s = 1 .. size /\ \A i \in 1 .. size : s[i] = HashNode
    BY <1>3
  <1> HIDE DEF s, t
  <1>5. UsedIn(s) = {}
    BY <1>3, <1>4 DEF UsedIn
  <1>6. Typed(t)
    BY <1>2, <1>4 DEF Typed
  <1>7. Linked(size, s, size)
    BY <1>3, <1>4, <1>5 DEF Linked
  <1>8. size \in Free(s)
    BY <1>1, <1>3, <1>4 DEF Free
  <1>9. Cardinality(UsedIn(s)) = 0
    BY <1>5, FS_EmptySet
  <1>10. Good(t)
    BY <1>2, <1>6, <1>7, <1>8, <1>9 DEF Good
  <1>11. Fresh(t)
    BY <1>1, <1>2, <1>3, <1>4 DEF Fresh
  <1> QED
    BY <1>2, <1>5, <1>10, <1>11 DEF t

-----------------------------------------------------------------------------
(* The copy of nodes s, which hold m, after node i: the keys up to it.     *)
UpTo(s, i) == { j \in UsedIn(s) : j <= i }

Part(s, m, i) == [k \in { s[j].key : j \in UpTo(s, i) } |-> m[k]]

Copied(s, m, size, i, x) ==
    /\ Good(x) /\ Fresh(x) /\ x.numofnodes = size
    /\ x.usednodes = Cardinality(UpTo(s, i))
    /\ Holds(x.nodes, Part(s, m, i))

CopyStep(s, i, x) == IF s[i].key = null THEN x ELSE Insert(x, s[i].key, s[i].val)

LEMMA CopyStepOk ==
    ASSUME NEW N \in Nat \ {0}, NEW s \in [1 .. N -> Node(N)],
           \A a, b \in UsedIn(s) : s[a].key = s[b].key => a = b,
           NEW size \in Sizes, Cardinality(UsedIn(s)) < size, NEW m, Holds(s, m),
           NEW i \in 1 .. N, NEW x, Copied(s, m, size, i - 1, x)
    PROVE  Copied(s, m, size, i, CopyStep(s, i, x))
  <1>1. DOMAIN s = 1 .. N /\ UsedIn(s) \subseteq 1 .. N
    BY DEF UsedIn
  <1>2. CASE s[i].key = null
    <2>1. UpTo(s, i) = UpTo(s, i - 1)
      <3>1. \A j \in UsedIn(s) : j \in 1 .. N /\ j # i
        BY <1>1, <1>2 DEF UsedIn
      <3>2. \A j \in UsedIn(s) : j <= i <=> j <= i - 1
        BY <3>1
      <3> QED
        BY <3>2 DEF UpTo
    <2>2. Part(s, m, i) = Part(s, m, i - 1)
      BY <2>1 DEF Part
    <2> QED
      BY <1>2, <2>1, <2>2 DEF Copied, CopyStep
  <1>3. CASE s[i].key # null
    <2> DEFINE k == s[i].key
               v == s[i].val
               old == UpTo(s, i - 1)
               p == Part(s, m, i - 1)
               y == Insert(x, k, v)
    <2>1. k \in Key /\ v \in Value \cup {null} /\ i \in UsedIn(s)
      BY <1>1, <1>3 DEF Node, UsedIn
    <2>2. UpTo(s, i) = old \cup {i} /\ i \notin old /\ old \subseteq UsedIn(s)
      <3>1. \A j \in UsedIn(s) : j <= i <=> j <= i - 1 \/ j = i
        BY <1>1
      <3>2. ~(i <= i - 1)
        OBVIOUS
      <3> QED
        BY <2>1, <3>1, <3>2 DEF UpTo
    <2>3. IsFiniteSet(UsedIn(s)) /\ IsFiniteSet(old)
      <3>1. IsFiniteSet(1 .. N)
        BY FS_Interval
      <3>2. IsFiniteSet(UsedIn(s))
        BY <1>1, <3>1, FS_Subset
      <3> QED
        BY <2>2, <3>2, FS_Subset
    <2>4. Cardinality(UpTo(s, i)) = Cardinality(old) + 1
      BY <2>2, <2>3, FS_AddElement
    <2>5. Cardinality(UpTo(s, i)) <= Cardinality(UsedIn(s))
      <3>1. UpTo(s, i) \subseteq UsedIn(s)
        BY DEF UpTo
      <3> QED
        BY <2>3, <3>1, FS_Subset
    <2>6. Cardinality(UsedIn(s)) \in Nat /\ Cardinality(old) \in Nat /\ size \in Nat
      BY <2>3, FS_CardinalityType DEF Sizes
    <2>7. DOMAIN p = {s[j].key : j \in old} /\ k \notin DOMAIN p
      BY <2>1, <2>2 DEF Part
    <2>8. \A j \in UsedIn(x.nodes) : x.nodes[j].key # k
      BY <2>7 DEF Copied, Holds
    <2>9. Good(x) /\ Fresh(x) /\ x.numofnodes = size /\ x.usednodes = Cardinality(old)
          /\ Holds(x.nodes, p)
      BY DEF Copied
    <2>10. x.usednodes + 1 < x.numofnodes
      BY <2>4, <2>5, <2>6, <2>9
    <2>11. With(p, k, v) = Part(s, m, i)
      <3>1. m[k] = v
        BY <2>1 DEF Holds
      <3>2. {s[j].key : j \in UpTo(s, i)} = DOMAIN p \cup {k}
        BY <2>2, <2>7
      <3>3. \A j \in DOMAIN p : p[j] = m[j]
        BY DEF Part
      <3> DEFINE q == Part(s, m, i)
      <3>4. q = [j \in DOMAIN p \cup {k} |-> m[j]]
        BY <3>2 DEF Part
      <3> HIDE DEF p, k, v
      <3> QED
        BY <2>7, <3>1, <3>3, <3>4 DEF With
    <2> HIDE DEF k, v, old, p, y
    <2>12. Left(x, k) # {}
      BY <2>1, <2>8, <2>9, <2>10, LeftFresh
    <2>13. /\ Good(y) /\ y.numofnodes = size /\ y.usednodes = x.usednodes + 1 /\ Fresh(y)
           /\ Holds(y.nodes, With(p, k, v))
      BY <2>1, <2>8, <2>9, <2>12, InsertOk DEF y
    <2>14. Copied(s, m, size, i, y)
      BY <2>4, <2>9, <2>11, <2>13 DEF Copied
    <2> QED
      BY <1>3, <2>14 DEF CopyStep, y, k, v
  <1> QED
    BY <1>2, <1>3

(* A table with the same keys, in any number of nodes that is larger than  *)
(* theirs.                                                                 *)
LEMMA CopyOk ==
    ASSUME NEW t, NEW N \in Nat \ {0}, t.numofnodes = N, t.nodes \in [1 .. N -> Node(N)],
           \A a, b \in UsedIn(t.nodes) : t.nodes[a].key = t.nodes[b].key => a = b,
           NEW size \in Sizes, Cardinality(UsedIn(t.nodes)) < size, NEW m, Holds(t.nodes, m)
    PROVE  Good(Copy(t, size)) /\ Holds(Copy(t, size).nodes, m)
  <1> DEFINE s == t.nodes
             V == {Fields(size, w, f, u) : w \in [1 .. size -> Node(size)], f \in 1 .. size, u \in Nat}
             P(i, x) == Copied(s, m, size, i, x)
             base == AllocNodes(size)
             step == [i \in 1 .. N |-> [x \in V |-> IF P(i - 1, x) THEN CopyStep(s, i, x) ELSE x]]
             isNew(g) == g = [i \in 0 .. N |-> IF i = 0 THEN base
                                               ELSE IF s[i].key = null THEN g[i - 1]
                                               ELSE Insert(g[i - 1], s[i].key, s[i].val)]
             new == CHOOSE g : isNew(g)
  <1>1. Copy(t, size) = new[N]
    BY DEF Copy
  <1>2. DOMAIN s = 1 .. N /\ UsedIn(s) \subseteq 1 .. N /\ s \in [1 .. N -> Node(N)]
    BY DEF UsedIn
  <1>3. P(0, base)
    <2>1. UpTo(s, 0) = {}
      <3>1. \A j \in UsedIn(s) : ~(j <= 0)
        BY <1>2
      <3> QED
        BY <3>1 DEF UpTo
    <2>2. DOMAIN Part(s, m, 0) = {} /\ Part(s, m, 0) = [k \in DOMAIN Part(s, m, 0) |-> Part(s, m, 0)[k]]
      BY <2>1 DEF Part
    <2>3. Holds(base.nodes, Part(s, m, 0))
      BY <2>2, AllocOk DEF Holds
    <2>4. Cardinality(UpTo(s, 0)) = 0
      BY <2>1, FS_EmptySet
    <2> HIDE DEF base
    <2> QED
      BY <2>3, <2>4, AllocOk DEF Copied, base
  <1>4. ASSUME NEW i \in 1 .. N, NEW x, P(i - 1, x) PROVE P(i, CopyStep(s, i, x))
    BY <1>2, <1>4, CopyStepOk
  <1>5. ASSUME NEW i, NEW x, P(i, x) PROVE x \in V
    <2>1. Good(x) /\ Typed(x) /\ x.numofnodes = size /\ x.firstfree \in Free(x.nodes)
          /\ x.usednodes = Cardinality(UsedIn(x.nodes))
      BY <1>5 DEF Copied, Good
    <2>2. /\ x = Fields(size, x.nodes, x.firstfree, x.usednodes)
          /\ x.nodes \in [1 .. size -> Node(size)] /\ DOMAIN x.nodes = 1 .. size
          /\ x.usednodes \in Nat
      BY <2>1, TypedIs DEF Typed
    <2>3. x.firstfree \in 1 .. size
      BY <2>1, <2>2 DEF Free
    <2> QED
      BY <2>2, <2>3
  <1> HIDE DEF P, V, base
  <1>6. base \in V
    BY <1>3, <1>5
  <1>7. step \in [1 .. N -> [V -> V]]
    <2>1. \A i \in 1 .. N, x \in V : (IF P(i - 1, x) THEN CopyStep(s, i, x) ELSE x) \in V
      BY <1>4, <1>5
    <2> QED
      BY <2>1
  <1>8. PICK g \in [0 .. N -> V] : Iterates(g, N, base, step)
    <2>1. N \in Nat
      OBVIOUS
    <2> HIDE DEF step
    <2> QED
      BY <1>6, <1>7, <2>1, Iteration
  <1>9. g[0] = base /\ \A i \in 1 .. N : g[i] = step[i][g[i - 1]]
    BY <1>8 DEF Iterates
  <1>10. \A i \in 0 .. N : P(i, g[i])
    <2> DEFINE S == {i \in 0 .. N : P(i, g[i])}
    <2>1. 0 \in S
      BY <1>3, <1>9
    <2>2. ASSUME NEW i \in 0 .. N, i < N, i \in S PROVE i + 1 \in S
      <3>1. i + 1 \in 1 .. N /\ i + 1 \in 0 .. N /\ i + 1 - 1 = i /\ g[i] \in V /\ P(i, g[i])
        BY <2>2
      <3>2. g[i + 1] = step[i + 1][g[i]]
        <4> HIDE DEF step
        <4> QED
          BY <1>9, <3>1
      <3>3. g[i + 1] = CopyStep(s, i + 1, g[i])
        BY <3>1, <3>2
      <3> QED
        BY <1>4, <3>1, <3>3
    <2>3. \A i \in 0 .. N : i \in S
      <3> HIDE DEF S
      <3> QED
        BY <2>1, <2>2, Induct
    <2> QED
      BY <2>3
  <1>11. isNew(g)
    <2>1. \A i \in 1 .. N : g[i] = CopyStep(s, i, g[i - 1])
      <3> TAKE i \in 1 .. N
      <3>1. i - 1 \in 0 .. N
        OBVIOUS
      <3>2. g[i - 1] \in V /\ P(i - 1, g[i - 1])
        BY <1>10, <3>1
      <3> QED
        BY <1>9, <3>2
    <2> DEFINE h == [i \in 0 .. N |-> IF i = 0 THEN base
                                      ELSE IF s[i].key = null THEN g[i - 1]
                                      ELSE Insert(g[i - 1], s[i].key, s[i].val)]
    <2>2. \A i \in 0 .. N : g[i] = h[i]
      BY <1>9, <2>1 DEF CopyStep
    <2> HIDE DEF h
    <2>3. h = [i \in 0 .. N |-> h[i]]
      BY DEF h
    <2>4. g = h
      BY <2>2, <2>3
    <2> QED
      BY <2>4 DEF h
  <1>12. isNew(new)
    <2> HIDE DEF isNew
    <2> QED
      BY <1>11
  <1> HIDE DEF new
  <1>13. new[0] = base /\ \A i \in 1 .. N : new[i] = CopyStep(s, i, new[i - 1])
    BY <1>12 DEF CopyStep
  <1>14. \A i \in 0 .. N : P(i, new[i])
    <2> DEFINE S == {i \in 0 .. N : P(i, new[i])}
    <2>1. 0 \in S
      BY <1>3, <1>13
    <2>2. ASSUME NEW i \in 0 .. N, i < N, i \in S PROVE i + 1 \in S
      <3>1. i + 1 \in 1 .. N /\ i + 1 \in 0 .. N /\ i + 1 - 1 = i /\ P(i, new[i])
        BY <2>2
      <3>2. new[i + 1] = CopyStep(s, i + 1, new[i])
        BY <1>13, <3>1
      <3> QED
        BY <1>4, <3>1, <3>2
    <2>3. \A i \in 0 .. N : i \in S
      <3> HIDE DEF S
      <3> QED
        BY <2>1, <2>2, Induct
    <2> QED
      BY <2>3
  <1>15. Copied(s, m, size, N, new[N])
    BY <1>14 DEF P
  <1>16. Part(s, m, N) = m
    <2>1. UpTo(s, N) = UsedIn(s)
      <3>1. \A j \in UsedIn(s) : j <= N
        BY <1>2
      <3> QED
        BY <3>1 DEF UpTo
    <2>2. {s[j].key : j \in UsedIn(s)} = DOMAIN m /\ m = [k \in DOMAIN m |-> m[k]]
      <3>1. /\ m = [k \in DOMAIN m |-> m[k]]
            /\ \A j \in UsedIn(s) : s[j].key \in DOMAIN m
            /\ \A k \in DOMAIN m : \E j \in UsedIn(s) : s[j].key = k
        BY DEF Holds
      <3> HIDE DEF s
      <3>2. \A k : k \in DOMAIN m <=> k \in {s[j].key : j \in UsedIn(s)}
        BY <3>1
      <3> QED
        BY <3>1, <3>2
    <2>3. Part(s, m, N) = [k \in DOMAIN m |-> m[k]]
      BY <2>1, <2>2 DEF Part
    <2> QED
      BY <2>2, <2>3
  <1> QED
    BY <1>1, <1>15, <1>16 DEF Copied

-----------------------------------------------------------------------------
(* A table that is rehashed, be its count of keys right or one too low:    *)
(* there is room.                                                          *)
LEMMA RehashOk ==
    ASSUME NEW t, t.numofnodes \in Sizes, t.nodes \in [1 .. t.numofnodes -> Node(t.numofnodes)],
           \A a, b \in UsedIn(t.nodes) : t.nodes[a].key = t.nodes[b].key => a = b,
           t.usednodes \in Nat,
           Cardinality(UsedIn(t.nodes)) \in {t.usednodes, t.usednodes + 1},
           NEW m, Holds(t.nodes, m), NEW force \in BOOLEAN, force \/ Good(t)
    PROVE  Good(Rehash(t, force)) /\ Holds(Rehash(t, force).nodes, m)
  <1> DEFINE N == t.numofnodes
             u == t.usednodes
             L == Cardinality(UsedIn(t.nodes))
             r == Rehash(t, force)
  <1>1. N \in Nat \ {0} /\ N >= 4 /\ 2 * N \in Sizes /\ (N = 4 \/ (N >= 8 /\ N \div 2 \in Sizes))
    <2>1. N \in Nat
      BY DEF Sizes
    <2> QED
      BY <2>1, SizesAre
  <1>2. L <= N /\ L \in Nat /\ L <= u + 1
    <2>1. IsFiniteSet(1 .. N) /\ Cardinality(1 .. N) = N
      <3>1. N \in Nat /\ N \in Int /\ 1 \in Int /\ ~(1 > N)
        BY <1>1
      <3>2. IsFiniteSet(1 .. N) /\ Cardinality(1 .. N) = IF 1 > N THEN 0 ELSE N - 1 + 1
        BY <3>1, FS_Interval
      <3> QED
        BY <3>1, <3>2
    <2>2. UsedIn(t.nodes) \subseteq 1 .. N
      BY DEF UsedIn
    <2>3. Cardinality(UsedIn(t.nodes)) <= Cardinality(1 .. N)
      BY <2>1, <2>2, FS_Subset
    <2> QED
      BY <2>1, <2>3
  <1>3. \A size \in Sizes : L < size => Good(Copy(t, size)) /\ Holds(Copy(t, size).nodes, m)
    BY <1>1, CopyOk
  <1>4. r = IF u >= N - N \div 4 THEN Copy(t, 2 * N)
            ELSE IF u <= N \div 4 /\ N > MINPOWER2 THEN Copy(t, N \div 2)
            ELSE IF force THEN Copy(t, N)
            ELSE t
    BY DEF Rehash
  <1>5. u \in Nat /\ N \in Sizes
    OBVIOUS
  <1>6. CASE u >= N - N \div 4
    <2>1. L < 2 * N
      BY <1>1, <1>2
    <2> HIDE DEF N, u, L, r
    <2> QED
      BY <1>1, <1>3, <1>4, <1>6, <2>1 DEF r
  <1>7. CASE ~(u >= N - N \div 4) /\ u <= N \div 4 /\ N > MINPOWER2
    <2> HIDE DEF N, u, L, r
    <2>1. N \div 2 \in Sizes
      BY <1>1, <1>7 DEF MINPOWER2
    <2>2. L < N \div 2
      BY <1>1, <1>2, <1>5, <1>7 DEF MINPOWER2
    <2> QED
      BY <1>3, <1>4, <1>7, <2>1, <2>2 DEF r
  <1>8. CASE ~(u >= N - N \div 4) /\ ~(u <= N \div 4 /\ N > MINPOWER2) /\ force
    <2> HIDE DEF N, u, L, r
    <2>1. L < N
      BY <1>1, <1>2, <1>5, <1>8
    <2> QED
      BY <1>3, <1>4, <1>5, <1>8, <2>1 DEF r
  <1>9. CASE ~(u >= N - N \div 4) /\ ~(u <= N \div 4 /\ N > MINPOWER2) /\ ~force
    BY <1>4, <1>9
  <1> QED
    BY <1>6, <1>7, <1>8, <1>9

Without(m, k) == [j \in DOMAIN m \ {k} |-> m[j]]

None == [k \in {} |-> null]

(* What is true of the nodes of a table, in the words of the lemmas.       *)
LEMMA GoodIs ==
    ASSUME NEW t, Good(t)
    PROVE  /\ Typed(t) /\ Linked(t.numofnodes, t.nodes, t.firstfree) /\ t.firstfree \in Free(t.nodes)
           /\ t.usednodes = Cardinality(UsedIn(t.nodes)) /\ t.usednodes \in Nat
           /\ t.numofnodes \in Sizes /\ t.numofnodes \in Nat \ {0} /\ t.numofnodes \in Nat
           /\ t.nodes \in [1 .. t.numofnodes -> Node(t.numofnodes)]
           /\ DOMAIN t.nodes = 1 .. t.numofnodes
           /\ UsedIn(t.nodes) \subseteq 1 .. t.numofnodes /\ IsFiniteSet(UsedIn(t.nodes))
           /\ t = Fields(t.numofnodes, t.nodes, t.firstfree, t.usednodes)
           /\ \A a, b \in UsedIn(t.nodes) : t.nodes[a].key = t.nodes[b].key => a = b
           /\ t.firstfree \in 1 .. t.numofnodes
           /\ t.nodes[t.firstfree].key = null /\ t.nodes[t.firstfree].next = 0
  <1>1. Typed(t) /\ Linked(t.numofnodes, t.nodes, t.firstfree) /\ t.firstfree \in Free(t.nodes)
        /\ t.usednodes = Cardinality(UsedIn(t.nodes))
    BY DEF Good
  <1>2. /\ t.usednodes \in Nat /\ t.numofnodes \in Nat \ {0} /\ t.numofnodes \in Nat
        /\ t.nodes \in [1 .. t.numofnodes -> Node(t.numofnodes)]
        /\ DOMAIN t.nodes = 1 .. t.numofnodes
        /\ UsedIn(t.nodes) \subseteq 1 .. t.numofnodes /\ IsFiniteSet(UsedIn(t.nodes))
    BY <1>1, TypedIs
  <1>3. t.numofnodes \in Sizes /\ t = Fields(t.numofnodes, t.nodes, t.firstfree, t.usednodes)
    BY <1>1 DEF Typed
  <1>4. \A a, b \in UsedIn(t.nodes) : t.nodes[a].key = t.nodes[b].key => a = b
    BY <1>1 DEF Linked
  <1>5. /\ t.firstfree \in 1 .. t.numofnodes
        /\ t.nodes[t.firstfree].key = null /\ t.nodes[t.firstfree].next = 0
    BY <1>1, <1>2 DEF Free
  <1> QED
    BY <1>1, <1>2, <1>3, <1>4, <1>5

(* Each operation has the effect it has on the map m that the table holds. *)
LEMMA NewSlotOk ==
    ASSUME NEW t, Good(t), NEW m, Holds(t.nodes, m), NEW k \in Key, NEW v \in Value
    PROVE  Good(NewSlot(t, k, v).table) /\ Holds(NewSlot(t, k, v).table.nodes, With(m, k, v))
  <1>1. CASE Get(t, k) # 0
    <2>1. \E i \in UsedIn(t.nodes) : t.nodes[i].key = k
      BY <1>1, GoodIs, GetIs
    <2>2. NewSlot(t, k, v).table = SetVal(t, k, v)
      BY <1>1 DEF NewSlot
    <2> QED
      BY <2>1, <2>2, SetValOk
  <1>2. CASE Get(t, k) = 0
    <2>1. \A i \in UsedIn(t.nodes) : t.nodes[i].key # k
      <3>1. \A i \in UsedIn(t.nodes) : i # 0
        BY GoodIs
      <3> QED
        BY <1>2, <3>1, GoodIs, GetIs
    <2>2. CASE Left(t, k) # {}
      <3>1. NewSlot(t, k, v).table = Insert(t, k, v)
        BY <1>2, <2>2 DEF NewSlot
      <3>2. v \in Value \cup {null}
        OBVIOUS
      <3> QED
        BY <2>1, <2>2, <3>1, <3>2, InsertOk
    <2>3. CASE Left(t, k) = {}
      <3> DEFINE N == t.numofnodes
                 s == t.nodes
                 f == t.firstfree
                 put == PutAt(t, k)
                 x == put.nodes[put.at].val
                 t1 == [t EXCEPT !.nodes = put.nodes]
                 t2 == Rehash(t1, TRUE)
      <3>1. NewSlot(t, k, v).table = SetVal(t2, k, v)
        BY <1>2, <2>3 DEF NewSlot
      <3>2. put.at \in 1 .. N /\ put.nodes \in [1 .. N -> Node(N)]
        BY <2>1, GoodIs, PutAtOk
      <3>3. x \in Value \cup {null}
        BY <3>2 DEF Node
      <3>4. Nodes(t, k, x) = put.nodes
        <4> HIDE DEF put
        <4>1. [put.nodes EXCEPT ![put.at].val = x] = put.nodes
          BY <3>2 DEF Node
        <4> QED
          BY <4>1 DEF Nodes, put
      <3>5. PutOk(N, s, f, k, x, put.nodes)
        <4> HIDE DEF x
        <4>1. PutOk(N, s, f, k, x, Nodes(t, k, x))
          BY <2>1, <3>3, GoodIs, PutAtOk
        <4> QED
          BY <3>4, <4>1
      <3>6. t1 = Fields(N, put.nodes, f, t.usednodes)
        <4>1. t1 = NodesSet(t, put.nodes)
          BY DEF NodesSet
        <4>2. t = Fields(N, s, f, t.usednodes)
          BY GoodIs
        <4> HIDE DEF N, s, f, put, t1
        <4> QED
          BY <4>1, <4>2, FieldsNodes
      <3>7. t1.numofnodes = N /\ t1.nodes = put.nodes /\ t1.usednodes = t.usednodes
        BY <3>6, FieldsOf
      <3>8. Linked(N, put.nodes, 0) /\ Holds(put.nodes, With(m, k, x))
        <4>1. f \in 1 .. N /\ N \in Nat
          BY GoodIs
        <4>2. 0 \in 0 .. f /\ 0 # f
          BY <4>1
        <4> QED
          BY <3>5, <4>2 DEF PutOk
      <3>9. Cardinality(UsedIn(put.nodes)) = t.usednodes + 1
        <4>1. PICK new \in 1 .. N : s[new].key = null /\ UsedIn(put.nodes) = UsedIn(s) \cup {new}
          BY <3>5 DEF PutOk
        <4>2. new \notin UsedIn(s)
          BY <4>1 DEF UsedIn
        <4>3. IsFiniteSet(UsedIn(s)) /\ t.usednodes = Cardinality(UsedIn(s))
          BY GoodIs
        <4>4. Cardinality(UsedIn(s) \cup {new}) = Cardinality(UsedIn(s)) + 1
          BY <4>2, <4>3, FS_AddElement
        <4> QED
          BY <4>1, <4>3, <4>4
      <3>10. Good(t2) /\ Holds(t2.nodes, With(m, k, x))
        <4>1. N \in Sizes /\ t.usednodes \in Nat
          BY GoodIs
        <4>2. \A a, b \in UsedIn(put.nodes) : put.nodes[a].key = put.nodes[b].key => a = b
          BY <3>8 DEF Linked
        <4> HIDE DEF N, put, t1, x
        <4> QED
          BY <3>2, <3>7, <3>8, <3>9, <4>1, <4>2, RehashOk
      <3> HIDE DEF x, t2
      <3>11. \E i \in UsedIn(t2.nodes) : t2.nodes[i].key = k
        BY <3>10 DEF Holds, With
      <3>12. /\ Good(SetVal(t2, k, v))
             /\ Holds(SetVal(t2, k, v).nodes, With(With(m, k, x), k, v))
        BY <3>10, <3>11, SetValOk
      <3>13. With(With(m, k, x), k, v) = With(m, k, v)
        <4> DEFINE a == With(With(m, k, x), k, v)
                   b == With(m, k, v)
        <4>1. DOMAIN a = DOMAIN b /\ \A j \in DOMAIN b : a[j] = b[j]
          BY DEF With
        <4>2. a = [j \in DOMAIN a |-> a[j]] /\ b = [j \in DOMAIN b |-> b[j]]
          BY DEF With
        <4> HIDE DEF a, b
        <4>3. a = b
          BY <4>1, <4>2
        <4> QED
          BY <4>3 DEF a, b
      <3> QED
        BY <3>1, <3>12, <3>13
    <2> QED
      BY <2>2, <2>3
  <1> QED
    BY <1>1, <1>2

LEMMA RemoveOk ==
    ASSUME NEW t, Good(t), NEW m, Holds(t.nodes, m), NEW k \in Key
    PROVE  Good(RemoveSlot(t, k)) /\ Holds(RemoveSlot(t, k).nodes, Without(m, k))
  <1> DEFINE N == t.numofnodes
             s == t.nodes
             f == t.firstfree
             n == Get(t, k)
  <1>h. /\ m = [j \in DOMAIN m |-> m[j]]
        /\ \A i \in UsedIn(s) : s[i].key \in DOMAIN m /\ m[s[i].key] = s[i].val
        /\ \A j \in DOMAIN m : \E i \in UsedIn(s) : s[i].key = j
    BY DEF Holds
  <1>0. /\ Linked(N, s, f) /\ N \in Nat \ {0} /\ N \in Nat /\ N \in Sizes
        /\ s \in [1 .. N -> Node(N)] /\ DOMAIN s = 1 .. N
        /\ UsedIn(s) \subseteq 1 .. N /\ IsFiniteSet(UsedIn(s))
        /\ t.usednodes = Cardinality(UsedIn(s)) /\ t.usednodes \in Nat
        /\ \A a, b \in UsedIn(s) : s[a].key = s[b].key => a = b
        /\ f \in Free(s) /\ f \in 1 .. N /\ s[f].key = null /\ s[f].next = 0
    BY GoodIs
  <1>1. CASE n = 0
    <2>1. RemoveSlot(t, k) = t
      BY <1>1 DEF RemoveSlot
    <2>2. \A i \in UsedIn(s) : s[i].key # k
      <3>1. \A i \in UsedIn(s) : i # 0
        BY <1>0
      <3> QED
        BY <1>1, <3>1, GoodIs, GetIs
    <2>3. Without(m, k) = m
      <3>1. DOMAIN m \ {k} = DOMAIN m
        BY <1>h, <2>2
      <3> QED
        BY <1>h, <3>1 DEF Without
    <2> QED
      BY <2>1, <2>3
  <1>2. CASE n # 0
    <2> DEFINE a == [s EXCEPT ![n].key = null]
               w == [a EXCEPT ![n].val = null]
               r == Removed(t, n)
               u == t.usednodes - 1
    <2>1. n \in UsedIn(s) /\ s[n].key = k /\ n \in 1 .. N
      <3>1. PICK i \in UsedIn(s) : s[i].key = k
        BY <1>2, GoodIs, GetIs
      <3>2. n = i
        BY <3>1, GoodIs, GetIs
      <3> QED
        BY <1>0, <3>1, <3>2
    <2>2. RemoveSlot(t, k) = Rehash(r, FALSE)
      BY <1>2 DEF RemoveSlot, Removed
    <2>3. r = Fields(N, w, f, u)
      <3>1. t = Fields(N, s, f, t.usednodes)
        BY GoodIs
      <3> HIDE DEF N, s, f, n
      <3>2. Removed(t, n) = Fields(N, [[s EXCEPT ![n].key = null] EXCEPT ![n].val = null], f, t.usednodes - 1)
        BY <3>1, FieldsRemove
      <3> QED
        BY <3>2
    <2>4. /\ r.numofnodes = N /\ r.nodes = w /\ r.firstfree = f /\ r.usednodes = u
          /\ r = Fields(r.numofnodes, r.nodes, r.firstfree, r.usednodes)
      BY <2>3, FieldsOf
    <2>d. a = [s EXCEPT ![n].key = null] /\ w = [a EXCEPT ![n].val = null]
      OBVIOUS
    <2> HIDE DEF N, s, f, n, a, w, r
    <2>5. HasKey(N, s, n, null, a)
      <3>1. null \in Key \cup {null}
        OBVIOUS
      <3> QED
        BY <1>0, <2>1, <2>d, <3>1, SetKey
    <2>6. HasValue(N, a, n, null, w)
      <3>1. null \in Value \cup {null} /\ a \in [1 .. N -> Node(N)]
        BY <2>5 DEF HasKey
      <3> QED
        BY <1>0, <2>1, <2>d, <3>1, SetValue
    <2>7. /\ w \in [1 .. N -> Node(N)] /\ DOMAIN w = 1 .. N
          /\ w[n].key = null /\ \A i \in 1 .. N : w[i].next = s[i].next
          /\ \A i \in 1 .. N \ {n} : w[i] = s[i]
      BY <2>1, <2>5, <2>6 DEF HasKey, HasValue
    <2>8. UsedIn(w) = UsedIn(s) \ {n}
      BY <1>0, <2>7 DEF UsedIn
    <2>9. \A i \in UsedIn(w) : i \in UsedIn(s) /\ i # n /\ w[i] = s[i]
      BY <1>0, <2>7, <2>8
    <2>10. Linked(N, w, f)
      <3>1. \A i : Reach(w, i) = Reach(s, i)
        BY <1>0, <2>7, ReachSame
      <3>2. \A i \in UsedIn(w) : i \in Reach(w, Home(N, w[i].key))
        BY <1>0, <2>9, <3>1 DEF Linked
      <3>3. \A i, j \in UsedIn(w) : w[i].key = w[j].key => i = j
        BY <1>0, <2>9
      <3>4. /\ \A i, j \in DOMAIN w : w[i].next = w[j].next /\ w[i].next # 0 => i = j
            /\ \A i \in DOMAIN w : w[i].next # 0 => w[i].next > f
        BY <1>0, <2>7 DEF Linked
      <3>5. \A i \in UsedIn(w) : Home(N, w[i].key) \in UsedIn(w)
                                 => Home(N, w[Home(N, w[i].key)].key) = Home(N, w[i].key)
        BY <1>0, <2>9 DEF Linked
      <3> QED
        BY <3>2, <3>3, <3>4, <3>5 DEF Linked
    <2>11. Cardinality(UsedIn(w)) = u /\ u \in Nat
      <3>1. Cardinality(UsedIn(s) \ {n}) = Cardinality(UsedIn(s)) - 1
        BY <1>0, <2>1, FS_RemoveElement
      <3>2. IsFiniteSet(UsedIn(s) \ {n})
        BY <1>0, FS_RemoveElement
      <3>3. Cardinality(UsedIn(s) \ {n}) \in Nat
        BY <3>2, FS_CardinalityType
      <3> QED
        BY <1>0, <2>8, <3>1, <3>3 DEF s
    <2>12. f \in Free(w)
      <3>1. f # n
        BY <1>0, <2>1 DEF UsedIn
      <3> QED
        BY <1>0, <2>7, <3>1 DEF Free
    <2>13. Good(r)
      BY <1>0, <2>4, <2>7, <2>10, <2>11, <2>12 DEF Good, Typed
    <2>14. Holds(w, Without(m, k))
      <3> DEFINE c == Without(m, k)
      <3>1. /\ DOMAIN c = DOMAIN m \ {k} /\ c = [j \in DOMAIN c |-> c[j]]
            /\ \A j \in DOMAIN c : c[j] = m[j]
        BY DEF Without
      <3> HIDE DEF c
      <3>2. \A i \in UsedIn(w) : w[i].key \in DOMAIN c /\ c[w[i].key] = w[i].val
        <4> TAKE i \in UsedIn(w)
        <4>1. s[i].key # k
          BY <1>0, <2>1, <2>9
        <4> QED
          BY <1>h, <2>9, <3>1, <4>1
      <3>3. \A j \in DOMAIN c : \E i \in UsedIn(w) : w[i].key = j
        <4> TAKE j \in DOMAIN c
        <4>1. PICK i \in UsedIn(s) : s[i].key = j
          BY <1>h, <3>1
        <4>2. i # n
          BY <2>1, <3>1, <4>1
        <4> QED
          BY <2>8, <2>9, <4>1, <4>2
      <3>4. Holds(w, c)
        BY <3>1, <3>2, <3>3 DEF Holds
      <3> QED
        BY <3>4 DEF c
    <2>15. Good(Rehash(r, FALSE)) /\ Holds(Rehash(r, FALSE).nodes, Without(m, k))
      <3>1. /\ r.numofnodes \in Sizes /\ r.nodes \in [1 .. r.numofnodes -> Node(r.numofnodes)]
            /\ \A i, j \in UsedIn(r.nodes) : r.nodes[i].key = r.nodes[j].key => i = j
            /\ r.usednodes \in Nat /\ Cardinality(UsedIn(r.nodes)) \in {r.usednodes, r.usednodes + 1}
        BY <1>0, <2>4, <2>7, <2>10, <2>11 DEF Linked
      <3>2. Holds(r.nodes, Without(m, k))
        BY <2>4, <2>14
      <3> QED
        BY <2>13, <3>1, <3>2, RehashOk
    <2> QED
      BY <2>2, <2>15
  <1> QED
    BY <1>1, <1>2

LEMMA ClearOk ==
    ASSUME NEW t, Good(t)
    PROVE  /\ Good(Rehash([ClearNodes(t) EXCEPT !.usednodes = 0], TRUE))
           /\ Holds(Rehash([ClearNodes(t) EXCEPT !.usednodes = 0], TRUE).nodes, None)
  <1> DEFINE N == t.numofnodes
             s == t.nodes
             f == t.firstfree
             w == [i \in 1 .. N |-> [s[i] EXCEPT !.key = null, !.val = null]]
             r == [ClearNodes(t) EXCEPT !.usednodes = 0]
  <1>1. /\ N \in Nat \ {0} /\ N \in Sizes /\ s \in [1 .. N -> Node(N)]
        /\ t = Fields(N, s, f, t.usednodes)
    BY GoodIs
  <1>2. ClearNodes(t) = NodesSet(t, w)
    BY DEF ClearNodes, NodesSet
  <1>3. \A i \in 1 .. N : w[i] \in Node(N) /\ w[i].key = null
    BY <1>1 DEF Node
  <1>4. w \in [1 .. N -> Node(N)] /\ DOMAIN w = 1 .. N
    <2>1. w = [i \in 1 .. N |-> w[i]]
      OBVIOUS
    <2> HIDE DEF w
    <2> QED
      BY <1>3, <2>1
  <1> HIDE DEF N, s, f, w
  <1>5. NodesSet(t, w) = Fields(N, w, f, t.usednodes)
    BY <1>1, FieldsNodes
  <1>6. r.numofnodes = N /\ r.nodes = w /\ r.usednodes = 0
    BY <1>2, <1>5 DEF Fields
  <1> HIDE DEF r
  <1>7. UsedIn(w) = {}
    BY <1>3, <1>4 DEF UsedIn
  <1>8. Holds(w, None)
    BY <1>7 DEF Holds, None
  <1>9. Cardinality(UsedIn(w)) = 0
    BY <1>7, FS_EmptySet
  <1>10. /\ r.numofnodes \in Sizes /\ r.nodes \in [1 .. r.numofnodes -> Node(r.numofnodes)]
         /\ \A i, j \in UsedIn(r.nodes) : r.nodes[i].key = r.nodes[j].key => i = j
         /\ r.usednodes \in Nat /\ Cardinality(UsedIn(r.nodes)) \in {r.usednodes, r.usednodes + 1}
         /\ Holds(r.nodes, None)
    BY <1>1, <1>4, <1>6, <1>7, <1>8, <1>9
  <1>11. Good(Rehash(r, TRUE)) /\ Holds(Rehash(r, TRUE).nodes, None)
    BY <1>10, RehashOk
  <1> QED
    BY <1>11 DEF r

LEMMA CloneOk ==
    ASSUME NEW t, Good(t), NEW m, Holds(t.nodes, m)
    PROVE  Good(Clone(t)) /\ Holds(Clone(t).nodes, m)
  <1> DEFINE N == t.numofnodes
             s == t.nodes
  <1>1. /\ N \in Nat \ {0} /\ N \in Nat /\ N \in Sizes /\ s \in [1 .. N -> Node(N)] /\ DOMAIN s = 1 .. N
        /\ \A a, b \in UsedIn(s) : s[a].key = s[b].key => a = b
        /\ UsedIn(s) \subseteq 1 .. N /\ t.firstfree \in 1 .. N /\ s[t.firstfree].key = null
    BY GoodIs
  <1>2. Cardinality(UsedIn(s)) < N
    <2>1. IsFiniteSet(1 .. N) /\ Cardinality(1 .. N) = N
      <3>1. N \in Int /\ 1 \in Int /\ ~(1 > N)
        BY <1>1
      <3>2. IsFiniteSet(1 .. N) /\ Cardinality(1 .. N) = IF 1 > N THEN 0 ELSE N - 1 + 1
        BY <3>1, FS_Interval
      <3> QED
        BY <1>1, <3>1, <3>2
    <2>2. UsedIn(s) \in SUBSET (1 .. N) /\ 1 .. N # UsedIn(s)
      BY <1>1 DEF UsedIn
    <2>3. /\ IsFiniteSet(UsedIn(s)) /\ Cardinality(UsedIn(s)) <= Cardinality(1 .. N)
          /\ (Cardinality(1 .. N) = Cardinality(UsedIn(s)) => 1 .. N = UsedIn(s))
      BY <2>1, <2>2, FS_Subset
    <2>4. Cardinality(UsedIn(s)) \in Nat
      BY <2>3, FS_CardinalityType
    <2> QED
      BY <1>1, <2>1, <2>2, <2>3, <2>4
  <1> QED
    BY <1>1, <1>2, CopyOk DEF Clone

-----------------------------------------------------------------------------
(* The table of every state is good.                                       *)
TableInv == Good(table)

LEMMA InitInv == Init => TableInv /\ Contents = None
  <1> SUFFICES ASSUME Init PROVE TableInv /\ Contents = None
    OBVIOUS
  <1>1. MINPOWER2 \in Sizes
    BY SizesAre
  <1>2. Good(table) /\ UsedIn(table.nodes) = {}
    BY <1>1, AllocOk DEF Init
  <1>3. Holds(table.nodes, None)
    BY <1>2 DEF Holds, None
  <1>4. None = ContentsOf(table)
    BY <1>2, <1>3, ContentsHeld
  <1> QED
    BY <1>2, <1>4 DEF TableInv, Contents, ContentsOf

(* A step to a table r that is good and holds m.                           *)
LEMMA ContentsNext ==
    ASSUME NEW m, Good(table'), Holds(table'.nodes, m)
    PROVE  TableInv' /\ Contents' = m
  <1>1. \A r : Good(r) /\ Holds(r.nodes, m) => m = ContentsOf(r)
    BY ContentsHeld
  <1>2. m = ContentsOf(table')
    BY <1>1
  <1> QED
    BY <1>2 DEF TableInv, Contents, ContentsOf

LEMMA ContentsNow ==
    ASSUME TableInv
    PROVE  /\ Good(table) /\ Holds(table.nodes, Contents) /\ Contents = ContentsOf(table)
           /\ \A k \in Key : k \in DOMAIN Contents <=> Get(table, k) # 0
  <1>1. Contents = ContentsOf(table)
    BY DEF Contents, ContentsOf
  <1> QED
    BY <1>1, ContentsHeld DEF TableInv

LEMMA NewSlotStep ==
    ASSUME TableInv, NEW k \in Key, NEW v \in Value, DoNewSlot(k, v)
    PROVE  TableInv' /\ Contents' = With(Contents, k, v)
  <1>1. table' = NewSlot(table, k, v).table
    BY DEF DoNewSlot
  <1>2. PICK m : m = Contents
    OBVIOUS
  <1>3. Good(table) /\ Holds(table.nodes, m)
    BY <1>2, ContentsNow
  <1>4. Good(table') /\ Holds(table'.nodes, With(m, k, v))
    BY <1>1, <1>3, NewSlotOk
  <1> QED
    BY <1>2, <1>4, ContentsNext

LEMMA SetStep ==
    ASSUME TableInv, NEW k \in Key, NEW v \in Value, DoSet(k, v)
    PROVE  TableInv' /\ Contents' = IF k \in DOMAIN Contents THEN With(Contents, k, v) ELSE Contents
  <1>1. table' = IF Get(table, k) = 0 THEN table ELSE SetVal(table, k, v)
    BY DEF DoSet
  <1>2. PICK m : m = Contents
    OBVIOUS
  <1>3. Good(table) /\ Holds(table.nodes, m) /\ (k \in DOMAIN m <=> Get(table, k) # 0)
    BY <1>2, ContentsNow
  <1>4. CASE Get(table, k) = 0
    <2>1. Good(table') /\ Holds(table'.nodes, m)
      BY <1>1, <1>3, <1>4
    <2> QED
      BY <1>2, <1>3, <1>4, <2>1, ContentsNext
  <1>5. CASE Get(table, k) # 0
    <2>1. PICK i \in UsedIn(table.nodes) : table.nodes[i].key = k
      BY <1>3, <1>5 DEF Holds
    <2>2. Good(table') /\ Holds(table'.nodes, With(m, k, v))
      BY <1>1, <1>3, <1>5, <2>1, SetValOk
    <2> QED
      BY <1>2, <1>3, <1>5, <2>2, ContentsNext
  <1> QED
    BY <1>4, <1>5

LEMMA RemoveStep ==
    ASSUME TableInv, NEW k \in Key, DoRemove(k)
    PROVE  TableInv' /\ Contents' = Without(Contents, k)
  <1>1. table' = RemoveSlot(table, k)
    BY DEF DoRemove
  <1>2. PICK m : m = Contents
    OBVIOUS
  <1>3. Good(table) /\ Holds(table.nodes, m)
    BY <1>2, ContentsNow
  <1>4. Good(table') /\ Holds(table'.nodes, Without(m, k))
    BY <1>1, <1>3, RemoveOk
  <1> QED
    BY <1>2, <1>4, ContentsNext

LEMMA ClearStep ==
    ASSUME TableInv, DoClear
    PROVE  TableInv' /\ Contents' = None
  <1>1. table' = Rehash([ClearNodes(table) EXCEPT !.usednodes = 0], TRUE)
    BY DEF DoClear
  <1>2. Good(table') /\ Holds(table'.nodes, None)
    BY <1>1, ClearOk DEF TableInv
  <1> QED
    BY <1>2, ContentsNext

LEMMA CloneStep ==
    ASSUME TableInv, DoClone
    PROVE  TableInv' /\ Contents' = Contents
  <1>1. table' = Clone(table)
    BY DEF DoClone
  <1>2. PICK m : m = Contents
    OBVIOUS
  <1>3. Good(table) /\ Holds(table.nodes, m)
    BY <1>2, ContentsNow
  <1>4. Good(table') /\ Holds(table'.nodes, m)
    BY <1>1, <1>3, CloneOk
  <1> QED
    BY <1>2, <1>4, ContentsNext

LEMMA NextInv == TableInv /\ [Next]_vars => TableInv'
  <1> SUFFICES ASSUME TableInv, [Next]_vars PROVE TableInv'
    OBVIOUS
  <1>1. ASSUME NEW k \in Key, NEW v \in Value, DoNewSlot(k, v) PROVE TableInv'
    BY <1>1, NewSlotStep
  <1>2. ASSUME NEW k \in Key, NEW v \in Value, DoSet(k, v) PROVE TableInv'
    BY <1>2, SetStep
  <1>3. ASSUME NEW k \in Key, DoRemove(k) PROVE TableInv'
    BY <1>3, RemoveStep
  <1>4. CASE DoClear
    BY <1>4, ClearStep
  <1>5. CASE DoClone
    BY <1>5, CloneStep
  <1>6. CASE UNCHANGED vars
    BY <1>6 DEF vars, TableInv
  <1> QED
    BY <1>1, <1>2, <1>3, <1>4, <1>5, <1>6 DEF Next

(* Every key of the table is in one node, in the chain of its main         *)
(* position, where there is a free node, whatever the keys, their hashes   *)
(* and the order of the operations: NewSlot, Remove and the searches for a *)
(* key end and find what is there (SQTable::NewSlot, Get, Remove).         *)
THEOREM TableSoundHolds == Spec => []TableSound
  <1>1. TableInv => TableSound
    <2> SUFFICES ASSUME TableInv PROVE TableSound
      OBVIOUS
    <2>1. Good(table)
      BY DEF TableInv
    <2>2. Used(table) = UsedIn(table.nodes)
      BY <2>1, GoodIs DEF Used, UsedIn
    <2>3. Keys(table) = DOMAIN Contents
      <3>1. \A i \in UsedIn(table.nodes) : table.nodes[i].key \in DOMAIN Contents
        BY ContentsNow DEF Holds
      <3>2. \A k \in DOMAIN Contents : \E i \in UsedIn(table.nodes) : table.nodes[i].key = k
        BY ContentsNow DEF Holds
      <3> QED
        BY <2>2, <3>1, <3>2 DEF Keys
    <2>4. /\ \A i, j \in UsedIn(table.nodes) : table.nodes[i].key = table.nodes[j].key => i = j
          /\ table.usednodes = Cardinality(UsedIn(table.nodes))
          /\ table.firstfree \in Free(table.nodes)
      BY <2>1, GoodIs
    <2> QED
      BY <2>2, <2>3, <2>4 DEF TableSound
  <1> QED
    BY <1>1, InitInv, NextInv, PTL DEF Spec

(* Whatever the operation returned.                                        *)
Done(o) == [o EXCEPT !.result = TRUE]

Entry(n, k, v, x) == [name |-> n, key |-> k, val |-> v, result |-> x]

LEMMA DoneIs == ASSUME NEW n, NEW k, NEW v, NEW y PROVE Done(Entry(n, k, v, y)) = Entry(n, k, v, TRUE)
  <1>1. \A x : [Entry(n, k, v, y) EXCEPT !.result = x] = Entry(n, k, v, x)
    BY DEF Entry
  <1> QED
    BY <1>1 DEF Done

(* The table is a map: adding, setting and removing a key, clearing and    *)
(* cloning have the effect they have on one, although a key may move, a    *)
(* removed one leaves its node in the chain, and the table is rehashed     *)
(* when it is full or nearly empty (SQTable).                              *)
THEOREM TableRefinesMap == Spec => TableIsMap
  <1>1. Init => Map!Init
    <2> SUFFICES ASSUME Init PROVE Map!Init
      OBVIOUS
    <2>1. Contents = Map!None
      BY InitInv DEF Map!None, None
    <2>2. op = Entry("clear", null, null, TRUE)
      BY DEF Init, Entry
    <2>3. Done(op) = Entry("clear", null, null, TRUE)
      BY <2>2, DoneIs
    <2> QED
      BY <2>1, <2>3 DEF Map!Init, Done, Entry
  <1>2. TableInv /\ [Next]_vars => [Map!Next]_(Map!vars)
    <2> SUFFICES ASSUME TableInv, [Next]_vars PROVE [Map!Next]_(Map!vars)
      OBVIOUS
    <2>1. ASSUME NEW n, NEW k, NEW v, NEW res, Did(n, k, v, res)
          PROVE  Map!Did(n, k, v)
      <3>1. op' = Entry(n, k, v, res)
        BY <2>1 DEF Did, Entry
      <3>2. Done(op') = Entry(n, k, v, TRUE)
        BY <3>1, DoneIs
      <3> QED
        BY <3>2 DEF Map!Did, Done, Entry
    <2>2. ASSUME NEW k \in Key, NEW v \in Value, DoNewSlot(k, v) PROVE Map!Next
      <3>1. Contents' = Map!With(k, v)
        BY <2>2, NewSlotStep DEF With, Map!With
      <3>2. Map!Did("newslot", k, v)
        BY <2>1, <2>2 DEF DoNewSlot
      <3> QED
        BY <3>1, <3>2 DEF Map!Next
    <2>3. ASSUME NEW k \in Key, NEW v \in Value, DoSet(k, v) PROVE Map!Next
      <3>1. Contents' = IF k \in DOMAIN Contents THEN Map!With(k, v) ELSE Contents
        BY <2>3, SetStep DEF With, Map!With
      <3>2. Map!Did("set", k, v)
        BY <2>1, <2>3 DEF DoSet
      <3> QED
        BY <3>1, <3>2 DEF Map!Next
    <2>4. ASSUME NEW k \in Key, DoRemove(k) PROVE Map!Next
      <3>1. Contents' = Map!Without(k)
        BY <2>4, RemoveStep DEF Without, Map!Without
      <3>2. Map!Did("remove", k, null)
        BY <2>1, <2>4 DEF DoRemove
      <3> QED
        BY <3>1, <3>2 DEF Map!Next
    <2>5. CASE DoClear
      <3>1. Contents' = Map!None
        BY <2>5, ClearStep DEF None, Map!None
      <3>2. Map!Did("clear", null, null)
        BY <2>1, <2>5 DEF DoClear
      <3> QED
        BY <3>1, <3>2 DEF Map!Next
    <2>6. CASE DoClone
      <3>1. Map!Did("clone", null, null)
        BY <2>1, <2>6 DEF DoClone
      <3> QED
        BY <2>6, <3>1, CloneStep DEF Map!Next
    <2>7. CASE UNCHANGED vars
      BY <2>7 DEF vars, Map!vars, Contents
    <2> QED
      BY <2>2, <2>3, <2>4, <2>5, <2>6, <2>7 DEF Next
  <1>3. Spec => []TableInv
    BY InitInv, NextInv, PTL DEF Spec
  <1> QED
    BY <1>1, <1>2, <1>3, PTL DEF Spec, TableIsMap, Map!Spec

=============================================================================
