--------------------------- MODULE SessionProofs ---------------------------
(***************************************************************************)
(* Proofs about modules Programmer and Session, for every size of the      *)
(* buffers, every number of retries and every packet.  Of the programmer:  *)
(* the buffers are not overrun, and what a reply says of its packet is     *)
(* true.  Of the session: host and programmer stay in lockstep until       *)
(* something is late, lost, torn or answered twice, and a status that the  *)
(* script pops in lockstep is the status of the packet it has written.     *)
(***************************************************************************)
EXTENDS Session, Recursion, SequenceTheorems

USE BufferAssumption, RetryAssumption, ProgramsAssumption, BoundsAssumption

-----------------------------------------------------------------------------
(* Results queued: pairs of a command and a number of bytes.               *)
Results == Seq(Nat \X Nat)

(* The number of bytes of a sequence of results, and of one more.          *)
LEMMA BytesSum ==
    ASSUME NEW q \in Results
    PROVE  \E s \in [0 .. Len(q) -> Nat] :
              /\ s[0] = 0 /\ \A n \in 1 .. Len(q) : s[n] = s[n - 1] + q[n][2]
              /\ BytesOf(q) = s[Len(q)]
  <1> DEFINE Sum(g) == [k \in 0 .. Len(q) |-> IF k = 0 THEN 0 ELSE g[k - 1] + q[k][2]]
             step == [n \in 1 .. Len(q) |-> [v \in Nat |-> v + q[n][2]]]
  <1>1. Len(q) \in Nat /\ \A n \in 1 .. Len(q) : q[n] \in Nat \X Nat
    BY DEF Results
  <1>2. step \in [1 .. Len(q) -> [Nat -> Nat]]
    BY <1>1
  <1>3. PICK g \in [0 .. Len(q) -> Nat] :
           Iterates(g, Len(q), 0, step)
    <2>1. 0 \in Nat
      OBVIOUS
    <2> HIDE DEF step
    <2> QED
      BY <1>1, <1>2, <2>1, Iteration
  <1>4. g[0] = 0 /\ \A n \in 1 .. Len(q) : g[n] = g[n - 1] + q[n][2]
    <2>1. \A n \in 1 .. Len(q) : n - 1 \in 0 .. Len(q)
      BY <1>1
    <2> HIDE DEF step
    <2>2. \A n \in 1 .. Len(q) : g[n - 1] \in Nat
      BY <2>1
    <2>3. g[0] = 0 /\ \A n \in 1 .. Len(q) : g[n] = step[n][g[n - 1]]
      BY <1>3 DEF Iterates
    <2> QED
      BY <2>2, <2>3 DEF step
  <1> HIDE DEF step
  <1>5. g = Sum(g)
    <2>1. \A k \in 0 .. Len(q) : g[k] = Sum(g)[k]
      <3> TAKE k \in 0 .. Len(q)
      <3>1. CASE k = 0
        BY <1>4, <3>1
      <3>2. CASE k # 0
        <4>1. k \in 1 .. Len(q) /\ k - 1 \in 0 .. Len(q)
          BY <1>1, <3>2
        <4> QED
          BY <1>4, <3>2, <4>1
      <3> QED
        BY <3>1, <3>2
    <2> QED
      BY <1>3, <2>1
  <1> DEFINE s == CHOOSE f : f = Sum(f)
  <1>6. s = Sum(s)
    BY <1>5
  <1>7. BytesOf(q) = s[Len(q)]
    BY DEF BytesOf
  <1>8. DOMAIN s = 0 .. Len(q) /\ s[0] = 0 /\ \A n \in 1 .. Len(q) : s[n] = s[n - 1] + q[n][2]
    <2> HIDE DEF s
    <2>1. \A k \in 0 .. Len(q) : s[k] = IF k = 0 THEN 0 ELSE s[k - 1] + q[k][2]
      BY <1>6
    <2> QED
      BY <1>1, <1>6, <2>1
  <1>9. \A n \in 0 .. Len(q) : s[n] = g[n]
    <2> DEFINE S == {n \in 0 .. Len(q) : s[n] = g[n]}
    <2>1. 0 \in S
      BY <1>1, <1>4, <1>8
    <2>2. \A n \in 0 .. Len(q) : n < Len(q) /\ n \in S => n + 1 \in S
      <3> SUFFICES ASSUME NEW n \in 0 .. Len(q), n < Len(q), s[n] = g[n]
                   PROVE  s[n + 1] = g[n + 1] /\ n + 1 \in 0 .. Len(q)
        OBVIOUS
      <3>1. n + 1 \in 1 .. Len(q) /\ n + 1 - 1 = n
        BY <1>1
      <3> HIDE DEF s
      <3>2. s[n + 1] = s[n] + q[n + 1][2]
        BY <1>8, <3>1
      <3>3. g[n + 1] = g[n] + q[n + 1][2]
        BY <1>4, <3>1
      <3> QED
        BY <3>1, <3>2, <3>3
    <2>3. \A n \in 0 .. Len(q) : n \in S
      <3> HIDE DEF S
      <3> QED
        BY <1>1, <2>1, <2>2, Induct
    <2> QED
      BY <2>3
  <1>10. s \in [0 .. Len(q) -> Nat]
    <2> HIDE DEF s
    <2> QED
      BY <1>3, <1>6, <1>8, <1>9
  <1> QED
    OBVIOUS

(* A number of bytes is a natural number.                                  *)
LEMMA BytesNat ==
    ASSUME NEW q \in Results
    PROVE  BytesOf(q) \in Nat
  <1>1. Len(q) \in 0 .. Len(q)
    BY DEF Results
  <1> QED
    BY <1>1, BytesSum

(* Nothing queued is no bytes.                                             *)
LEMMA BytesEmpty == BytesOf(<<>>) = 0
  <1>1. <<>> \in Results /\ Len(<<>>) = 0
    BY DEF Results
  <1> QED
    BY <1>1, BytesSum

(* One more result adds its size.                                          *)
LEMMA BytesAppend ==
    ASSUME NEW q \in Results, NEW x \in Nat \X Nat
    PROVE  BytesOf(Append(q, x)) = BytesOf(q) + x[2]
  <1> DEFINE r == Append(q, x)
             L == Len(q)
  <1>1. r \in Results /\ L \in Nat /\ Len(r) = L + 1 /\ r[L + 1] = x
        /\ \A n \in 1 .. L : r[n] = q[n]
    BY DEF Results
  <1> HIDE DEF r, L
  <1>2. PICK s \in [0 .. L -> Nat] :
           s[0] = 0 /\ (\A n \in 1 .. L : s[n] = s[n - 1] + q[n][2]) /\ BytesOf(q) = s[L]
    BY BytesSum DEF L
  <1>3. PICK t \in [0 .. L + 1 -> Nat] :
           t[0] = 0 /\ (\A n \in 1 .. L + 1 : t[n] = t[n - 1] + r[n][2]) /\ BytesOf(r) = t[L + 1]
    BY <1>1, BytesSum
  <1> DEFINE S == {n \in 0 .. L : s[n] = t[n]}
  <1>4. 0 \in S
    BY <1>1, <1>2, <1>3
  <1>5. ASSUME NEW n \in 0 .. L, n < L, n \in S
        PROVE  n + 1 \in S
    <2>1. n + 1 \in 1 .. L /\ n + 1 \in 1 .. L + 1 /\ n + 1 - 1 = n /\ n + 1 \in 0 .. L
      BY <1>1, <1>5
    <2>2. s[n + 1] = s[n] + q[n + 1][2]
      BY <1>2, <2>1
    <2>3. r[n + 1] = q[n + 1]
      BY <1>1, <2>1
    <2>4. t[n + 1] = t[n] + r[n + 1][2]
      BY <1>3, <2>1
    <2> QED
      BY <1>5, <2>1, <2>2, <2>3, <2>4
  <1>6. \A n \in 0 .. L : n \in S
    <2> HIDE DEF S
    <2> QED
      BY <1>1, <1>4, <1>5, Induct
  <1>7. s[L] = t[L]
    BY <1>1, <1>6
  <1>8. t[L + 1] = t[L] + x[2]
    <2>1. L + 1 \in 1 .. L + 1 /\ L + 1 - 1 = L
      BY <1>1
    <2> QED
      BY <1>1, <1>3, <2>1
  <1> QED
    BY <1>2, <1>3, <1>7, <1>8 DEF r

(* The results of a sequence of performed commands, and of one more.       *)
Done(cmds) == {d \in Seq(Nat) : \A k \in 1 .. Len(d) : d[k] \in 1 .. Len(cmds)}

(* ResultsOf goes through the commands one by one.                         *)
LEMMA ResultsBuilt ==
    ASSUME NEW cmds \in Seq(Kinds), NEW done \in Done(cmds)
    PROVE  \E s \in [0 .. Len(done) -> Results] :
              /\ s[0] = <<>>
              /\ \A n \in 1 .. Len(done) :
                    s[n] = IF ResultSize[cmds[done[n]]] = 0 THEN s[n - 1]
                           ELSE Append(s[n - 1], <<done[n], ResultSize[cmds[done[n]]]>>)
              /\ ResultsOf(cmds, done) = s[Len(done)]
  <1> DEFINE L == Len(done)
             Add(n, v) == IF ResultSize[cmds[done[n]]] = 0 THEN v
                          ELSE Append(v, <<done[n], ResultSize[cmds[done[n]]]>>)
             Build(g) == [k \in 0 .. L |-> IF k = 0 THEN <<>> ELSE Add(k, g[k - 1])]
             step == [n \in 1 .. L |-> [v \in Results |-> Add(n, v)]]
  <1>1. L \in Nat /\ \A n \in 1 .. L : n - 1 \in 0 .. L
    BY DEF Done
  <1>2. \A n \in 1 .. L : done[n] \in Nat /\ cmds[done[n]] \in Kinds
    BY DEF Done
  <1>3. \A n \in 1 .. L : ResultSize[cmds[done[n]]] \in Nat
    BY <1>2 DEF ResultSize
  <1>4. \A n \in 1 .. L : \A v \in Results : Add(n, v) \in Results
    BY <1>2, <1>3 DEF Results
  <1> HIDE DEF L, Add
  <1>5. step \in [1 .. L -> [Results -> Results]]
    BY <1>4
  <1>6. <<>> \in Results
    BY DEF Results
  <1>7. PICK g \in [0 .. L -> Results] : Iterates(g, L, <<>>, step)
    <2> HIDE DEF step
    <2> QED
      BY <1>1, <1>5, <1>6, Iteration
  <1>8. g[0] = <<>> /\ \A n \in 1 .. L : g[n] = Add(n, g[n - 1])
    <2> HIDE DEF step
    <2>1. \A n \in 1 .. L : g[n - 1] \in Results
      BY <1>1
    <2>2. g[0] = <<>> /\ \A n \in 1 .. L : g[n] = step[n][g[n - 1]]
      BY <1>7 DEF Iterates
    <2> QED
      BY <2>1, <2>2 DEF step
  <1> HIDE DEF step
  <1>9. g = Build(g)
    <2>1. \A k \in 0 .. L : g[k] = Build(g)[k]
      <3> TAKE k \in 0 .. L
      <3>1. CASE k = 0
        BY <1>8, <3>1
      <3>2. CASE k # 0
        <4>1. k \in 1 .. L
          BY <1>1, <3>2
        <4> QED
          BY <1>8, <3>2, <4>1
      <3> QED
        BY <3>1, <3>2
    <2> QED
      BY <2>1
  <1> DEFINE s == CHOOSE f : f = Build(f)
  <1>10. s = Build(s)
    BY <1>9
  <1>11. ResultsOf(cmds, done) = s[L]
    BY DEF ResultsOf, L, Add
  <1> HIDE DEF s
  <1>12. DOMAIN s = 0 .. L /\ s[0] = <<>> /\ \A n \in 1 .. L : s[n] = Add(n, s[n - 1])
    <2>1. \A k \in 0 .. L : s[k] = IF k = 0 THEN <<>> ELSE Add(k, s[k - 1])
      BY <1>10
    <2> QED
      BY <1>1, <1>10, <2>1
  <1> DEFINE S == {n \in 0 .. L : s[n] = g[n]}
  <1>13. 0 \in S
    BY <1>1, <1>8, <1>12
  <1>14. ASSUME NEW n \in 0 .. L, n < L, n \in S
         PROVE  n + 1 \in S
    <2>1. n + 1 \in 1 .. L /\ n + 1 \in 0 .. L /\ n + 1 - 1 = n
      BY <1>1, <1>14
    <2> QED
      BY <1>8, <1>12, <1>14, <2>1
  <1>15. \A n \in 0 .. L : n \in S
    <2> HIDE DEF S
    <2> QED
      BY <1>1, <1>13, <1>14, Induct
  <1>16. s \in [0 .. L -> Results]
    BY <1>10, <1>12, <1>15
  <1> QED
    BY <1>11, <1>12, <1>16 DEF L, Add

(* What it lists are results.                                              *)
LEMMA ResultsType ==
    ASSUME NEW cmds \in Seq(Kinds), NEW done \in Done(cmds)
    PROVE  ResultsOf(cmds, done) \in Results
  <1>1. Len(done) \in 0 .. Len(done)
    BY DEF Done
  <1> QED
    BY <1>1, ResultsBuilt

(* Before the first command there are none.                                *)
LEMMA ResultsEmpty ==
    ASSUME NEW cmds \in Seq(Kinds)
    PROVE  ResultsOf(cmds, <<>>) = <<>>
  <1>1. <<>> \in Done(cmds) /\ Len(<<>>) = 0
    BY DEF Done
  <1> QED
    BY <1>1, ResultsBuilt

(* A further command adds its result, if it has one.                       *)
LEMMA ResultsAppend ==
    ASSUME NEW cmds \in Seq(Kinds), NEW done \in Done(cmds), NEW i \in 1 .. Len(cmds)
    PROVE  ResultsOf(cmds, Append(done, i)) =
              IF ResultSize[cmds[i]] = 0 THEN ResultsOf(cmds, done)
              ELSE Append(ResultsOf(cmds, done), <<i, ResultSize[cmds[i]]>>)
  <1> DEFINE r == Append(done, i)
             L == Len(done)
             Add(c, v) == IF ResultSize[cmds[c]] = 0 THEN v
                          ELSE Append(v, <<c, ResultSize[cmds[c]]>>)
  <1>1. r \in Done(cmds) /\ L \in Nat /\ Len(r) = L + 1 /\ r[L + 1] = i
        /\ \A n \in 1 .. L : r[n] = done[n]
    <2>1. r \in Seq(Nat) /\ L \in Nat /\ Len(r) = L + 1 /\ r[L + 1] = i
          /\ \A n \in 1 .. L : r[n] = done[n]
      BY DEF Done
    <2>2. \A n \in 1 .. L + 1 : r[n] \in 1 .. Len(cmds)
      <3>1. \A n \in 1 .. L + 1 : n \in 1 .. L \/ n = L + 1
        BY <2>1
      <3>2. \A n \in 1 .. L : done[n] \in 1 .. Len(cmds)
        BY DEF Done
      <3> HIDE DEF r, L
      <3> QED
        BY <2>1, <3>1, <3>2
    <2> QED
      BY <2>1, <2>2 DEF Done
  <1>2. PICK s \in [0 .. Len(done) -> Results] :
           /\ s[0] = <<>> /\ \A n \in 1 .. Len(done) : s[n] = Add(done[n], s[n - 1])
           /\ ResultsOf(cmds, done) = s[Len(done)]
    BY ResultsBuilt
  <1> HIDE DEF r
  <1>3. PICK t \in [0 .. Len(r) -> Results] :
           /\ t[0] = <<>> /\ \A n \in 1 .. Len(r) : t[n] = Add(r[n], t[n - 1])
           /\ ResultsOf(cmds, r) = t[Len(r)]
    BY <1>1, ResultsBuilt
  <1> HIDE DEF Add
  <1> DEFINE S == {n \in 0 .. L : s[n] = t[n]}
  <1>4. 0 \in S
    BY <1>1, <1>2, <1>3
  <1>5. ASSUME NEW n \in 0 .. L, n < L, n \in S
        PROVE  n + 1 \in S
    <2>1. n + 1 \in 1 .. L /\ n + 1 \in 1 .. Len(r) /\ n + 1 - 1 = n /\ n + 1 \in 0 .. L
      BY <1>1, <1>5
    <2>2. s[n + 1] = Add(done[n + 1], s[n])
      BY <1>2, <2>1
    <2>3. t[n + 1] = Add(done[n + 1], t[n])
      BY <1>1, <1>3, <2>1
    <2> QED
      BY <1>5, <2>1, <2>2, <2>3
  <1>6. \A n \in 0 .. L : n \in S
    <2> HIDE DEF S, L
    <2> QED
      BY <1>1, <1>4, <1>5, Induct
  <1>7. s[L] = t[L]
    BY <1>1, <1>6
  <1>8. t[L + 1] = Add(i, t[L])
    <2>1. L + 1 \in 1 .. Len(r) /\ L + 1 - 1 = L
      BY <1>1
    <2> QED
      BY <1>1, <1>3, <2>1
  <1>9. ResultsOf(cmds, r) = Add(i, ResultsOf(cmds, done))
    BY <1>1, <1>2, <1>3, <1>7, <1>8
  <1> QED
    BY <1>9 DEF r, Add

-----------------------------------------------------------------------------
(* The programmer: its inductive invariant.                                *)

Identity(n) == [i \in 1 .. n |-> i]

(* TORN is what is left of a reply whose beginning the host has dropped.   *)
Reply == [job : Packet, status : Statuses \cup {"TORN"}, data : Results,
          performed : Seq(Nat), mangled : BOOLEAN, first : BOOLEAN]

RxTyped   == line \in Seq(Packet) /\ read \in Nat /\ g_rxidx \in 0 .. RxSize /\ mangled \in BOOLEAN
ExecTyped == /\ prog \in Seq(Kinds) /\ ip \in Nat \ {0} /\ pc \in {"receive", "execute", "wait"}
             /\ retries \in 0 .. WaitRetries /\ performed \in Seq(Nat)
             /\ pc # "receive" => job \in Packet
TxTyped   == /\ g_txidx \in 1 .. TxSize /\ queued \in Results /\ answered \in 0 .. 2
             /\ replies \in Seq(Reply)

(* g_txidx counts what is queued, and nothing is between packets.          *)
Counted == g_txidx = 1 + BytesOf(queued) /\ (pc = "receive" => queued = <<>>)

(* Every command before ip has succeeded, and only those; what is executed *)
(* is what was sent, unless the buffer overflowed.                         *)
Underway ==
    pc # "receive" =>
        /\ ip <= Len(prog) + 1 /\ performed = Identity(ip - 1)
        /\ ~mangled => prog = job.cmds
        /\ pc = "wait" => ip <= Len(prog) /\ prog[ip] = "WAITMEMTRUE"

(* Until a reply is sent, the results are in the buffer if they fit.       *)
Collected ==
    pc # "receive" /\ answered = 0 /\ 1 + BytesOf(ResultsOf(prog, performed)) < TxSize =>
        queued = ResultsOf(prog, performed)

Core == RxTyped /\ ExecTyped /\ TxTyped /\ Counted /\ Underway /\ Collected

(* What OkMeansPerformed and ResultsMatch say of one reply.                *)
Due(r) == LET due == ResultsOf(r.job.cmds, r.performed)
          IN  IF r.status = "UNKNOWNCMD" THEN Append(due, <<Len(r.performed) + 1, 4>>) ELSE due
ReplyTrue(r) ==
    ~r.mangled =>
        /\ r.performed = Identity(Len(r.performed))
        /\ (r.status = "OK") <=> (Len(r.performed) = Len(r.job.cmds))
        /\ r.first /\ 1 + BytesOf(Due(r)) < TxSize => r.data = Due(r)
RepliesTrue == \A k \in 1 .. Len(replies) : ReplyTrue(replies[k])

Inv == Core /\ RepliesTrue

-----------------------------------------------------------------------------
(* The steps of loop().                                                    *)

(* The reply that SendReply builds.                                        *)
Sent(for, s, data, spoilt) ==
    [job |-> for, status |-> s, data |-> data,
     performed |-> performed, mangled |-> spoilt, first |-> answered = 0]

(* A reply sent has the type of replies.                                   *)
LEMMA SentTyped ==
    ASSUME Core, NEW for \in Packet, NEW s \in Statuses, NEW d \in Results, NEW spoilt \in BOOLEAN
    PROVE  Sent(for, s, d, spoilt) \in Reply
  BY DEF Core, ExecTyped, Reply, Sent

(* Whatever is sent, the buffer is empty after it, and the replies are     *)
(* what they were, or one more.                                            *)
LEMMA SendReplyKeeps ==
    ASSUME Core, NEW for \in Packet, NEW s \in Statuses, NEW d \in Results, NEW spoilt \in BOOLEAN,
           SendReply(for, s, d, spoilt)
    PROVE  /\ TxTyped' /\ queued' = <<>> /\ g_txidx' = 1 + BytesOf(queued') /\ answered' # 0
           /\ replies' = replies \/ replies' = Append(replies, Sent(for, s, d, spoilt))
  <1>1. replies' = replies \/ replies' = Append(replies, Sent(for, s, d, spoilt))
    BY DEF SendReply, Sent
  <1>2. replies' \in Seq(Reply)
    <2>1. replies \in Seq(Reply)
      BY DEF Core, TxTyped
    <2>2. Sent(for, s, d, spoilt) \in Reply
      BY SentTyped
    <2> QED
      BY <1>1, <2>1, <2>2
  <1>3. answered' \in 0 .. 2 /\ answered' # 0
    BY DEF SendReply, Core, TxTyped
  <1>4. g_txidx' = 1 /\ queued' = <<>> /\ queued' \in Results
    BY DEF SendReply, Results
  <1> QED
    BY <1>1, <1>2, <1>3, <1>4, BytesEmpty DEF TxTyped

(* Abort keeps the invariant: nothing of the packet is left.               *)
LEMMA AbortKeeps ==
    ASSUME Core, pc # "receive", NEW s \in Statuses, NEW d \in Results, Abort(s, d), UNCHANGED rxVars
    PROVE  Core'
  <1>1. job \in Packet /\ mangled \in BOOLEAN
    BY DEF Core, ExecTyped, RxTyped
  <1>2. SendReply(job, s, d, mangled)
    BY DEF Abort
  <1>3. TxTyped' /\ queued' = <<>> /\ g_txidx' = 1 + BytesOf(queued')
    BY <1>1, <1>2, SendReplyKeeps
  <1>4. RxTyped'
    BY DEF Core, RxTyped, rxVars
  <1>5. pc' = "receive"
    BY DEF Abort
  <1>6. ExecTyped'
    BY DEF Abort, ExecTyped
  <1> QED
    BY <1>3, <1>4, <1>5, <1>6 DEF Core, Counted, Underway, Collected

(* The commands performed are commands of the packet.                      *)
LEMMA PerformedDone ==
    ASSUME Core, pc # "receive"
    PROVE  performed \in Done(prog)
  <1>1. \A k \in 1 .. Len(performed) : performed[k] \in 1 .. Len(prog)
    <2>1. performed = Identity(ip - 1) /\ ip - 1 \in Nat /\ ip \in Nat /\ ip <= Len(prog) + 1 /\ Len(prog) \in Nat
      BY DEF Core, Underway, ExecTyped
    <2>2. Len(performed) = ip - 1
      BY <2>1 DEF Identity
    <2>3. \A k \in 1 .. ip - 1 : performed[k] = k
      BY <2>1 DEF Identity
    <2>4. \A k \in 1 .. ip - 1 : k \in 1 .. Len(prog)
      BY <2>1
    <2> QED
      BY <2>2, <2>3, <2>4
  <1> QED
    BY <1>1 DEF Core, ExecTyped, Done

(* A command that succeeds keeps it: its result is appended to what is     *)
(* queued, unless it does not fit.                                         *)
LEMMA AdvanceKeeps ==
    ASSUME Core, pc # "receive", ip <= Len(prog), Advance,
           UNCHANGED rxVars, UNCHANGED <<answered, replies>>,
           \/ ResultSize[prog[ip]] = 0 /\ UNCHANGED <<g_txidx, queued>>
           \/ ResultSize[prog[ip]] = 4 /\ QueueWord
           \/ ResultSize[prog[ip]] = 3 /\ QueueProgId
    PROVE  Core'
  <1> DEFINE due == ResultsOf(prog, performed)
  <1>1. /\ prog \in Seq(Kinds) /\ ip \in Nat \ {0} /\ performed \in Seq(Nat) /\ job \in Packet
        /\ g_txidx \in 1 .. TxSize /\ queued \in Results /\ answered \in 0 .. 2 /\ replies \in Seq(Reply)
        /\ g_txidx = 1 + BytesOf(queued)
        /\ performed = Identity(ip - 1) /\ (~mangled => prog = job.cmds)
        /\ retries \in 0 .. WaitRetries
    BY DEF Core, ExecTyped, TxTyped, Counted, Underway
  <1>2. ip \in 1 .. Len(prog) /\ ip + 1 <= Len(prog) + 1 /\ ip + 1 \in Nat \ {0}
    BY <1>1
  <1>3. ip' = ip + 1 /\ pc' = "execute" /\ performed' = Append(performed, ip)
        /\ job' = job /\ prog' = prog /\ retries' = retries
    BY DEF Advance
  <1>4. RxTyped' /\ mangled' = mangled
    BY DEF Core, RxTyped, rxVars
  <1>5. ExecTyped'
    BY <1>1, <1>2, <1>3 DEF ExecTyped
  <1>6. Underway'
    <2>1. Append(performed, ip) = Identity(ip)
      BY <1>1 DEF Identity
    <2>2. performed' = Identity(ip' - 1)
      <3>1. ip' - 1 = ip
        BY <1>1, <1>3
      <3> QED
        BY <1>3, <2>1, <3>1
    <2>3. ip' <= Len(prog') + 1 /\ (~mangled' => prog' = job'.cmds)
      BY <1>1, <1>2, <1>3, <1>4
    <2> QED
      BY <1>3, <2>2, <2>3 DEF Underway
  <1>7. performed \in Done(prog)
    BY PerformedDone
  <1>8. due \in Results /\ BytesOf(due) \in Nat /\ BytesOf(queued) \in Nat
    BY <1>1, <1>7, ResultsType, BytesNat
  <1>9. answered = 0 /\ 1 + BytesOf(due) < TxSize => queued = due
    BY DEF Core, Collected
  <1>10. ResultsOf(prog', performed') =
            IF ResultSize[prog[ip]] = 0 THEN due ELSE Append(due, <<ip, ResultSize[prog[ip]]>>)
    BY <1>1, <1>2, <1>3, <1>7, ResultsAppend
  <1> HIDE DEF due
  <1> SUFFICES TxTyped' /\ Counted' /\ Collected'
    BY <1>4, <1>5, <1>6 DEF Core
  <1>11. answered' = answered /\ replies' = replies
    OBVIOUS
  <1>12. CASE ResultSize[prog[ip]] = 0 /\ UNCHANGED <<g_txidx, queued>>
    BY <1>1, <1>3, <1>9, <1>10, <1>11, <1>12 DEF TxTyped, Counted, Collected
  <1>13. ASSUME NEW m \in Nat, ResultSize[prog[ip]] = m, m # 0
         PROVE  BytesOf(ResultsOf(prog', performed')) = BytesOf(due) + m
    <2>1. <<ip, m>> \in Nat \X Nat /\ <<ip, m>>[2] = m
      BY <1>1
    <2>2. ResultsOf(prog', performed') = Append(due, <<ip, m>>)
      BY <1>10, <1>13
    <2> QED
      BY <1>8, <2>1, <2>2, BytesAppend
  <1>14. ASSUME NEW n \in Nat
         PROVE  BytesOf(Append(queued, <<ip, n>>)) = BytesOf(queued) + n /\ Append(queued, <<ip, n>>) \in Results
    <2>1. <<ip, n>> \in Nat \X Nat /\ <<ip, n>>[2] = n
      BY <1>1
    <2>2. BytesOf(Append(queued, <<ip, n>>)) = BytesOf(queued) + <<ip, n>>[2]
      BY <1>1, <2>1, BytesAppend
    <2> QED
      BY <1>1, <2>1, <2>2 DEF Results
  <1>15. CASE ResultSize[prog[ip]] = 4 /\ QueueWord
    <2>1. BytesOf(ResultsOf(prog', performed')) = BytesOf(due) + 4
      BY <1>13, <1>15
    <2>2. CASE g_txidx + 4 >= TxSize
      <3>1. g_txidx' = g_txidx /\ queued' = queued
        BY <1>15, <2>2 DEF QueueWord
      <3>2. ~(answered = 0 /\ 1 + (BytesOf(due) + 4) < TxSize)
        <4> SUFFICES ASSUME answered = 0, 1 + (BytesOf(due) + 4) < TxSize PROVE FALSE
          OBVIOUS
        <4>1. 1 + BytesOf(due) < TxSize
          BY <1>8
        <4>2. queued = due
          BY <1>9, <4>1
        <4> QED
          BY <1>1, <1>8, <2>2, <4>2
      <3> QED
        BY <1>1, <1>3, <1>11, <2>1, <3>1, <3>2 DEF TxTyped, Counted, Collected
    <2>3. CASE ~(g_txidx + 4 >= TxSize)
      <3>1. g_txidx' = g_txidx + 4 /\ queued' = Append(queued, <<ip, 4>>)
        BY <1>15, <2>3 DEF QueueWord
      <3>2. queued' \in Results /\ g_txidx' = 1 + BytesOf(queued') /\ g_txidx' \in 1 .. TxSize
        BY <1>1, <1>8, <1>14, <2>3, <3>1
      <3>3. ASSUME answered = 0, 1 + (BytesOf(due) + 4) < TxSize
            PROVE  queued' = ResultsOf(prog', performed')
        <4>1. 1 + BytesOf(due) < TxSize
          BY <1>8, <3>3
        <4>2. queued = due
          BY <1>9, <3>3, <4>1
        <4> QED
          BY <1>10, <1>15, <3>1, <4>2
      <3> QED
        BY <1>1, <1>3, <1>11, <2>1, <3>2, <3>3 DEF TxTyped, Counted, Collected
    <2> QED
      BY <2>2, <2>3
  <1>16. CASE ResultSize[prog[ip]] = 3 /\ QueueProgId
    <2> DEFINE n == IF TxSize - g_txidx < 3 THEN TxSize - g_txidx ELSE 3
    <2>1. BytesOf(ResultsOf(prog', performed')) = BytesOf(due) + 3
      BY <1>13, <1>16
    <2>2. n \in 0 .. 3 /\ g_txidx + n <= TxSize
      BY <1>1
    <2>3. g_txidx' = g_txidx + n /\ queued' = IF n > 0 THEN Append(queued, <<ip, n>>) ELSE queued
      BY <1>16 DEF QueueProgId
    <2>4. queued' \in Results /\ g_txidx' = 1 + BytesOf(queued') /\ g_txidx' \in 1 .. TxSize
      <3> HIDE DEF n
      <3>1. CASE n > 0
        <4>1. n \in Nat /\ queued' = Append(queued, <<ip, n>>)
          BY <2>2, <2>3, <3>1
        <4>2. queued' \in Results /\ BytesOf(queued') = BytesOf(queued) + n
          BY <1>14, <4>1
        <4>3. g_txidx \in Nat /\ g_txidx = 1 + BytesOf(queued) /\ g_txidx >= 1
          BY <1>1
        <4>4. g_txidx + n = 1 + (BytesOf(queued) + n)
          BY <1>8, <2>2, <4>3
        <4>5. g_txidx + n \in 1 .. TxSize
          BY <2>2, <4>3
        <4> QED
          BY <2>3, <4>2, <4>4, <4>5
      <3>2. CASE n = 0
        BY <1>1, <1>8, <2>2, <2>3, <3>2
      <3> QED
        BY <2>2, <3>1, <3>2
    <2>5. ASSUME answered = 0, 1 + (BytesOf(due) + 3) < TxSize
          PROVE  queued' = ResultsOf(prog', performed')
      <3>1. 1 + BytesOf(due) < TxSize
        BY <1>8, <2>5
      <3>2. queued = due
        BY <1>9, <2>5, <3>1
      <3>3. n = 3
        BY <1>1, <1>8, <2>5, <3>2
      <3> QED
        BY <1>10, <1>16, <2>3, <3>2, <3>3
    <2> HIDE DEF n
    <2> QED
      BY <1>1, <1>3, <1>11, <2>1, <2>4, <2>5 DEF TxTyped, Counted, Collected
  <1> QED
    BY <1>12, <1>15, <1>16

(* Steps that leave the packet under way and the buffer alone.             *)
LEMMA StayKeeps ==
    ASSUME Core, pc # "receive", UNCHANGED rxVars, UNCHANGED txVars,
           UNCHANGED <<job, prog, ip, performed>>, retries' \in 0 .. WaitRetries,
           pc' \in {"execute", "wait"}, pc' = "wait" => ip <= Len(prog) /\ prog[ip] = "WAITMEMTRUE"
    PROVE  Core'
  <1>1. RxTyped' /\ TxTyped' /\ Counted' /\ mangled' = mangled
    BY DEF Core, RxTyped, TxTyped, Counted, rxVars, txVars
  <1>2. ExecTyped'
    BY DEF Core, ExecTyped
  <1>3. Underway'
    BY <1>1 DEF Core, Underway
  <1>4. Collected'
    BY DEF Core, Collected, txVars
  <1> QED
    BY <1>1, <1>2, <1>3, <1>4 DEF Core

(* The status of a packet that is abandoned, or finished, is true.         *)
LEMMA Replied ==
    ASSUME Core, pc # "receive", NEW s \in Statuses, NEW d \in Results,
           (s = "OK") <=> (ip > Len(prog)),
           LET due == ResultsOf(prog, performed)
               all == IF s = "UNKNOWNCMD" THEN Append(due, <<ip, 4>>) ELSE due
           IN  answered = 0 /\ 1 + BytesOf(all) < TxSize => d = all
    PROVE  ReplyTrue(Sent(job, s, d, mangled))
  <1> DEFINE r == Sent(job, s, d, mangled)
  <1> SUFFICES ASSUME ~mangled PROVE ReplyTrue(r)
    BY DEF ReplyTrue, Sent
  <1>1. r.job = job /\ r.status = s /\ r.data = d /\ r.performed = performed /\ r.first = (answered = 0)
    BY DEF Sent
  <1>2. ip \in Nat \ {0} /\ performed = Identity(ip - 1) /\ ip <= Len(prog) + 1 /\ prog = job.cmds
        /\ Len(prog) \in Nat
    BY DEF Core, ExecTyped, Underway
  <1>3. Len(performed) = ip - 1
    BY <1>2 DEF Identity
  <1>4. Len(performed) + 1 = ip /\ ((s = "OK") <=> (Len(performed) = Len(prog)))
    BY <1>2, <1>3
  <1> HIDE DEF r
  <1>5. Due(r) = LET due == ResultsOf(prog, performed)
                 IN  IF s = "UNKNOWNCMD" THEN Append(due, <<ip, 4>>) ELSE due
    BY <1>1, <1>2, <1>4 DEF Due
  <1>6. r.first /\ 1 + BytesOf(Due(r)) < TxSize => r.data = Due(r)
    BY <1>1, <1>5
  <1> QED
    BY <1>1, <1>2, <1>3, <1>4, <1>6 DEF ReplyTrue

(* What a step of the executing half does: it goes on with the packet, or  *)
(* ends it with a reply that is true.                                      *)
GoingOn == pc' # "receive" /\ job' = job /\ replies' = replies
Ending ==
    \E s \in Statuses, d \in Results :
        Abort(s, d) /\ Sent(job, s, d, mangled) \in Reply /\ ReplyTrue(Sent(job, s, d, mangled))

(* What a step does to the replies: nothing, or one that is true is added. *)
Replying ==
    \/ replies' = replies
    \/ \E r \in Reply : ReplyTrue(r) /\ replies' = Append(replies, r)

(* A packet that ends adds a true reply.                                   *)
LEMMA EndingReplies ==
    ASSUME Core, Ending
    PROVE  Replying
  <1>1. PICK s \in Statuses, d \in Results :
           /\ Abort(s, d) /\ Sent(job, s, d, mangled) \in Reply
           /\ ReplyTrue(Sent(job, s, d, mangled))
    BY DEF Ending
  <1>2. replies' = replies \/ replies' = Append(replies, Sent(job, s, d, mangled))
    BY <1>1 DEF Abort, SendReply, Sent
  <1> QED
    BY <1>1, <1>2 DEF Replying

(* Abort ends the packet truly if its status and its data are those due.   *)
LEMMA AbortEnds ==
    ASSUME Core, pc # "receive", UNCHANGED rxVars, NEW s \in Statuses, NEW d \in Results,
           (s = "OK") <=> (ip > Len(prog)),
           LET due == ResultsOf(prog, performed)
               all == IF s = "UNKNOWNCMD" THEN Append(due, <<ip, 4>>) ELSE due
           IN  answered = 0 /\ 1 + BytesOf(all) < TxSize => d = all,
           Abort(s, d)
    PROVE  Core' /\ Ending
  <1>1. job \in Packet /\ mangled \in BOOLEAN
    BY DEF Core, ExecTyped, RxTyped
  <1>2. Core'
    BY AbortKeeps
  <1>3. Sent(job, s, d, mangled) \in Reply
    BY <1>1, SentTyped
  <1>4. ReplyTrue(Sent(job, s, d, mangled))
    BY Replied
  <1> QED
    BY <1>2, <1>3, <1>4 DEF Ending

(* An error status is sent with what was collected.                        *)
LEMMA ErrorSent ==
    ASSUME Core, pc # "receive", ip <= Len(prog), NEW s \in Errors
    PROVE  /\ s \in Statuses /\ queued \in Results /\ ((s = "OK") <=> (ip > Len(prog)))
           /\ s # "UNKNOWNCMD"
           /\ answered = 0 /\ 1 + BytesOf(ResultsOf(prog, performed)) < TxSize
                => queued = ResultsOf(prog, performed)
  <1>1. s \in Statuses /\ s # "OK" /\ s # "UNKNOWNCMD"
    BY DEF Errors, Statuses
  <1>2. queued \in Results /\ ~(ip > Len(prog))
    BY DEF Core, TxTyped, ExecTyped
  <1>3. answered = 0 /\ 1 + BytesOf(ResultsOf(prog, performed)) < TxSize
           => queued = ResultsOf(prog, performed)
    BY DEF Core, Collected
  <1> QED
    BY <1>1, <1>2, <1>3

(* A handler that fails ends the packet truly.                             *)
LEMMA ErrorEnds ==
    ASSUME Core, pc # "receive", UNCHANGED rxVars, ip <= Len(prog), NEW s \in Errors, Abort(s, queued)
    PROVE  Core' /\ Ending
  BY ErrorSent, AbortEnds

(* The receiving half.                                                     *)
LEMMA HeadTail ==
    ASSUME NEW S, NEW q \in Seq(S), q # <<>>
    PROVE  Head(q) \in S /\ Tail(q) \in Seq(S) /\ Len(Tail(q)) = Len(q) - 1
  OBVIOUS

(* A byte received leaves what is executed alone.                          *)
LEMMA ReadByteStep ==
    ASSUME Core, ReadByte
    PROVE  Core' /\ replies' = replies
  <1>1. pc = "receive" /\ pc' = "receive" /\ UNCHANGED <<line, g_txidx, queued, replies>>
        /\ UNCHANGED <<job, prog, ip, retries, performed>>
        /\ g_rxidx' = g_rxidx + 1 /\ g_rxidx < RxSize /\ read' = read + 1
        /\ mangled' = (read > 0 /\ mangled) /\ answered' = IF read = 0 THEN 0 ELSE answered
    BY DEF ReadByte, execVars
  <1>2. RxTyped'
    BY <1>1 DEF Core, RxTyped
  <1>3. ExecTyped'
    BY <1>1 DEF Core, ExecTyped
  <1>4. TxTyped' /\ Counted'
    BY <1>1 DEF Core, TxTyped, Counted
  <1>5. Underway' /\ Collected'
    BY <1>1 DEF Underway, Collected
  <1> QED
    BY <1>1, <1>2, <1>3, <1>4, <1>5 DEF Core

(* An overflow is answered at once, as a mangled packet.                   *)
LEMMA RxOverflowStep ==
    ASSUME Core, RxOverflow
    PROVE  Core' /\ Replying
  <1> DEFINE r == Sent(Head(line), "RXOVERFLOW", <<>>, TRUE)
  <1>1. pc = "receive" /\ line # <<>> /\ UNCHANGED line /\ g_rxidx' = 0 /\ read' = read + 1
        /\ mangled' = TRUE /\ UNCHANGED <<job, prog, ip, pc, retries, performed>>
        /\ SendReply(Head(line), "RXOVERFLOW", <<>>, TRUE)
    BY DEF RxOverflow, execVars, More
  <1>2. Head(line) \in Packet /\ "RXOVERFLOW" \in Statuses /\ <<>> \in Results /\ TRUE \in BOOLEAN
    <2>1. line \in Seq(Packet)
      BY DEF Core, RxTyped
    <2> QED
      BY <1>1, <2>1, HeadTail DEF Statuses, Results
  <1>3. TxTyped' /\ queued' = <<>> /\ g_txidx' = 1 + BytesOf(queued')
        /\ (replies' = replies \/ replies' = Append(replies, r))
    BY <1>1, <1>2, SendReplyKeeps
  <1>4. r \in Reply
    BY <1>2, SentTyped
  <1>5. ReplyTrue(r)
    BY DEF ReplyTrue, Sent
  <1>6. RxTyped'
    BY <1>1 DEF Core, RxTyped
  <1>7. ExecTyped' /\ Counted' /\ Underway' /\ Collected'
    BY <1>1, <1>3 DEF Core, ExecTyped, Counted, Underway, Collected
  <1> HIDE DEF r
  <1> QED
    BY <1>3, <1>4, <1>5, <1>6, <1>7 DEF Core, Replying

(* A packet decoded starts with no command performed and nothing queued.   *)
LEMMA DecodeStep ==
    ASSUME Core, Decode
    PROVE  Core' /\ replies' = replies
  <1>1. pc = "receive" /\ line # <<>> /\ ip' = 1 /\ pc' = "execute" /\ retries' = 0 /\ g_rxidx' = 0
        /\ job' = Head(line) /\ line' = Tail(line) /\ read' = 0 /\ performed' = <<>>
        /\ UNCHANGED mangled /\ UNCHANGED <<g_txidx, queued, answered, replies>>
    BY DEF Decode, txVars
  <1>2. Head(line) \in Packet /\ Tail(line) \in Seq(Packet)
    <2>1. line \in Seq(Packet)
      BY DEF Core, RxTyped
    <2> QED
      BY <1>1, <2>1, HeadTail
  <1>3. (mangled /\ prog' \in Garbage) \/ (~mangled /\ prog' = Head(line).cmds)
    BY DEF Decode, Core, RxTyped
  <1>4. prog' \in Seq(Kinds) /\ (~mangled => prog' = Head(line).cmds)
    BY <1>2, <1>3 DEF Packet
  <1>5. RxTyped'
    BY <1>1, <1>2 DEF Core, RxTyped
  <1>6. ExecTyped'
    BY <1>1, <1>2, <1>4 DEF ExecTyped
  <1>7. TxTyped' /\ Counted' /\ queued' = <<>>
    BY <1>1 DEF Core, TxTyped, Counted
  <1>8. Underway'
    <2>1. performed' = Identity(ip' - 1)
      BY <1>1 DEF Identity
    <2>2. Len(prog') \in Nat
      BY <1>4
    <2> QED
      BY <1>1, <1>4, <2>1, <2>2 DEF Underway
  <1>9. ResultsOf(prog', performed') = <<>>
    BY <1>1, <1>4, ResultsEmpty
  <1>10. Collected'
    BY <1>7, <1>9 DEF Collected
  <1> QED
    BY <1>1, <1>5, <1>6, <1>7, <1>8, <1>10 DEF Core

(* The executing half.                                                     *)
LEMMA Executing ==
    ASSUME Core, NEW kinds, At(kinds)
    PROVE  pc # "receive" /\ ip <= Len(prog) /\ prog[ip] \in kinds
  BY DEF At

(* Commands that return a word.                                            *)
LEMMA ReadStep ==
    ASSUME Core, ExecuteRead
    PROVE  Core' /\ (GoingOn \/ Ending)
  <1>1. At(ReadKinds) /\ UNCHANGED rxVars
    BY DEF ExecuteRead
  <1>2. pc # "receive" /\ ip <= Len(prog) /\ prog[ip] \in ReadKinds
    BY <1>1, Executing
  <1>3. ResultSize[prog[ip]] = 4
    BY <1>2 DEF ResultSize, ReadKinds, Kinds
  <1>4. CASE Advance /\ QueueWord /\ UNCHANGED <<answered, replies>>
    <2>1. Core'
      BY <1>1, <1>2, <1>3, <1>4, AdvanceKeeps
    <2> QED
      BY <1>4, <2>1 DEF Advance, GoingOn
  <1>5. ASSUME NEW s \in Errors, Abort(s, queued)
        PROVE  Core' /\ Ending
    BY <1>1, <1>2, <1>5, ErrorEnds
  <1>6. ASSUME NEW s \in IF prog[ip] = "CONNECT" THEN {"SWDFAULT"} ELSE Errors
        PROVE  s \in Errors
    BY DEF Errors
  <1> QED
    BY <1>4, <1>5, <1>6 DEF ExecuteRead

(* Commands that only succeed or fail.                                     *)
LEMMA WriteStep ==
    ASSUME Core, ExecuteWrite
    PROVE  Core' /\ (GoingOn \/ Ending)
  <1>1. At(WriteKinds) /\ UNCHANGED rxVars
    BY DEF ExecuteWrite
  <1>2. pc # "receive" /\ ip <= Len(prog) /\ prog[ip] \in WriteKinds
    BY <1>1, Executing
  <1>3. ResultSize[prog[ip]] = 0
    BY <1>2 DEF ResultSize, ReadKinds, WriteKinds, Kinds
  <1>4. CASE Advance /\ UNCHANGED txVars
    <2>1. UNCHANGED <<answered, replies>> /\ UNCHANGED <<g_txidx, queued>>
      BY <1>4 DEF txVars
    <2>2. Core'
      BY <1>1, <1>2, <1>3, <1>4, <2>1, AdvanceKeeps
    <2> QED
      BY <1>4, <2>1, <2>2 DEF Advance, GoingOn
  <1>5. ASSUME NEW s \in Errors, Abort(s, queued)
        PROVE  Core' /\ Ending
    BY <1>1, <1>2, <1>5, ErrorEnds
  <1> QED
    BY <1>4, <1>5 DEF ExecuteWrite

(* RESET cannot fail.                                                      *)
LEMMA ResetStep ==
    ASSUME Core, ExecuteReset
    PROVE  Core' /\ GoingOn
  <1>1. At({"RESET"}) /\ UNCHANGED rxVars /\ Advance
        /\ UNCHANGED <<answered, replies>> /\ UNCHANGED <<g_txidx, queued>>
    BY DEF ExecuteReset, txVars
  <1>2. pc # "receive" /\ ip <= Len(prog) /\ prog[ip] = "RESET"
    BY <1>1, Executing
  <1>3. ResultSize[prog[ip]] = 0
    BY <1>2 DEF ResultSize, ReadKinds, WriteKinds, Kinds
  <1>4. Core'
    BY <1>1, <1>2, <1>3, AdvanceKeeps
  <1> QED
    BY <1>1, <1>4 DEF Advance, GoingOn

(* GETPROGID cannot fail; its three bytes may be cut short.                *)
LEMMA GetProgIdStep ==
    ASSUME Core, ExecuteGetProgId
    PROVE  Core' /\ GoingOn
  <1>1. At({"GETPROGID"}) /\ UNCHANGED rxVars /\ Advance /\ QueueProgId /\ UNCHANGED <<answered, replies>>
    BY DEF ExecuteGetProgId
  <1>2. pc # "receive" /\ ip <= Len(prog) /\ prog[ip] = "GETPROGID"
    BY <1>1, Executing
  <1>3. ResultSize[prog[ip]] = 3
    BY <1>2 DEF ResultSize, ReadKinds, WriteKinds, Kinds
  <1>4. Core'
    BY <1>1, <1>2, <1>3, AdvanceKeeps
  <1> QED
    BY <1>1, <1>4 DEF Advance, GoingOn

(* An unknown command adds a word of its own to the reply.                 *)
LEMMA UnknownStep ==
    ASSUME Core, ExecuteUnknown
    PROVE  Core' /\ Ending
  <1> DEFINE d == IF g_txidx + 4 < TxSize THEN Append(queued, <<ip, 4>>) ELSE queued
             due == ResultsOf(prog, performed)
  <1>1. At({"UNKNOWN"}) /\ UNCHANGED rxVars /\ Abort("UNKNOWNCMD", d)
    BY DEF ExecuteUnknown
  <1>2. pc # "receive" /\ ip <= Len(prog)
    BY <1>1, Executing
  <1>3. /\ ip \in Nat \ {0} /\ Len(prog) \in Nat /\ queued \in Results /\ g_txidx = 1 + BytesOf(queued)
        /\ prog \in Seq(Kinds)
    BY DEF Core, ExecTyped, TxTyped, Counted
  <1>4. d \in Results /\ "UNKNOWNCMD" \in Statuses
    BY <1>3 DEF Results, Statuses
  <1>5. due \in Results
    <2>1. performed \in Done(prog)
      BY <1>2, PerformedDone
    <2> QED
      BY <1>3, <2>1, ResultsType
  <1>6. ASSUME answered = 0, 1 + BytesOf(Append(due, <<ip, 4>>)) < TxSize
        PROVE  d = Append(due, <<ip, 4>>)
    <2>1. <<ip, 4>> \in Nat \X Nat /\ <<ip, 4>>[2] = 4
      BY <1>3
    <2>2. BytesOf(Append(due, <<ip, 4>>)) = BytesOf(due) + 4
      BY <1>5, <2>1, BytesAppend
    <2>3. BytesOf(due) \in Nat
      BY <1>5, BytesNat
    <2>4. queued = due
      <3>1. 1 + BytesOf(due) < TxSize
        BY <1>6, <2>2, <2>3
      <3> QED
        BY <1>2, <1>6, <3>1 DEF Core, Collected
    <2> HIDE DEF due
    <2> QED
      BY <1>3, <1>6, <2>2, <2>3, <2>4
  <1>7. ("UNKNOWNCMD" = "OK") <=> (ip > Len(prog))
    BY <1>2, <1>3
  <1> HIDE DEF d
  <1> QED
    BY <1>1, <1>2, <1>4, <1>6, <1>7, AbortEnds

(* WAITMEMTRUE starts, matches, or looks again.                            *)
LEMMA WaitSteps ==
    ASSUME Core, WaitBegin \/ WaitMatch \/ WaitAgain
    PROVE  Core' /\ GoingOn
  <1>1. CASE WaitBegin
    <2>1. At({"WAITMEMTRUE"}) /\ UNCHANGED rxVars /\ UNCHANGED txVars /\ pc' = "wait"
          /\ retries' = 0 /\ UNCHANGED <<job, prog, ip, performed>>
      BY <1>1 DEF WaitBegin
    <2>2. pc # "receive" /\ ip <= Len(prog) /\ prog[ip] = "WAITMEMTRUE"
      BY <2>1, Executing
    <2>3. retries' \in 0 .. WaitRetries
      BY <2>1
    <2> QED
      BY <2>1, <2>2, <2>3, StayKeeps DEF txVars, GoingOn
  <1>2. CASE WaitMatch
    <2>1. pc = "wait" /\ Advance /\ UNCHANGED rxVars
          /\ UNCHANGED <<answered, replies>> /\ UNCHANGED <<g_txidx, queued>>
      BY <1>2 DEF WaitMatch, txVars
    <2>2. ip <= Len(prog) /\ prog[ip] = "WAITMEMTRUE"
      BY <2>1 DEF Core, Underway
    <2>3. ResultSize[prog[ip]] = 0
      BY <2>2 DEF ResultSize, ReadKinds, WriteKinds, Kinds
    <2>4. Core'
      BY <2>1, <2>2, <2>3, AdvanceKeeps
    <2> QED
      BY <2>1, <2>4 DEF Advance, GoingOn
  <1>3. CASE WaitAgain
    <2>1. pc = "wait" /\ retries < WaitRetries /\ retries' = retries + 1 /\ UNCHANGED rxVars
          /\ UNCHANGED txVars /\ UNCHANGED <<job, prog, ip, performed>> /\ pc' = "wait"
      BY <1>3 DEF WaitAgain
    <2>2. ip <= Len(prog) /\ prog[ip] = "WAITMEMTRUE"
      BY <2>1 DEF Core, Underway
    <2>3. retries' \in 0 .. WaitRetries
      BY <2>1 DEF Core, ExecTyped
    <2> QED
      BY <2>1, <2>2, <2>3, StayKeeps DEF txVars, GoingOn
  <1> QED
    BY <1>1, <1>2, <1>3

(* WAITMEMTRUE ends with an error of the read.                             *)
LEMMA WaitErrorStep ==
    ASSUME Core, WaitError
    PROVE  Core' /\ Ending
  <1>1. pc = "wait" /\ UNCHANGED rxVars
    BY DEF WaitError
  <1>2. PICK s \in Errors : Abort(s, queued)
    BY DEF WaitError
  <1>3. ip <= Len(prog)
    BY <1>1 DEF Core, Underway
  <1> QED
    BY <1>1, <1>2, <1>3, ErrorEnds

(* After a timeout of WAITMEMTRUE the packet goes on, but not with a first *)
(* reply.                                                                  *)
LEMMA WaitTimeoutStep ==
    ASSUME Core, WaitTimeout
    PROVE  Core' /\ Replying
  <1>1. pc = "wait" /\ pc' = "execute" /\ UNCHANGED rxVars /\ UNCHANGED <<job, prog, ip, retries, performed>>
        /\ SendReply(job, "TIMEOUT", queued, mangled)
    BY DEF WaitTimeout
  <1>2. /\ ip <= Len(prog) /\ queued \in Results /\ "TIMEOUT" \in Errors /\ "TIMEOUT" \in Statuses
        /\ job \in Packet /\ mangled \in BOOLEAN
    BY <1>1 DEF Core, Underway, TxTyped, ExecTyped, RxTyped, Errors, Statuses
  <1>3. TxTyped' /\ queued' = <<>> /\ g_txidx' = 1 + BytesOf(queued') /\ answered' # 0
    BY <1>1, <1>2, SendReplyKeeps
  <1>4. RxTyped' /\ mangled' = mangled
    BY <1>1 DEF Core, RxTyped, rxVars
  <1>5. ExecTyped'
    BY <1>1 DEF Core, ExecTyped
  <1>6. Counted' /\ Collected'
    BY <1>1, <1>3 DEF Counted, Collected
  <1>7. Underway'
    BY <1>1, <1>4 DEF Core, Underway
  <1> DEFINE r == Sent(job, "TIMEOUT", queued, mangled)
  <1>8. Replying
    <2>1. replies' = replies \/ replies' = Append(replies, r)
      BY <1>1, <1>2, SendReplyKeeps
    <2>2. r \in Reply
      BY <1>2, SentTyped
    <2>3. ReplyTrue(r)
      BY <1>1, <1>2, ErrorSent, Replied
    <2> HIDE DEF r
    <2> QED
      BY <2>1, <2>2, <2>3 DEF Replying
  <1> QED
    BY <1>3, <1>4, <1>5, <1>6, <1>7, <1>8 DEF Core

(* At the end of the packet everything has been performed.                 *)
LEMMA FinishStep ==
    ASSUME Core, Finish
    PROVE  Core' /\ Ending
  <1>1. pc = "execute" /\ ip > Len(prog) /\ Abort("OK", queued) /\ UNCHANGED rxVars
    BY DEF Finish
  <1>2. queued \in Results /\ "OK" \in Statuses /\ "OK" # "UNKNOWNCMD"
    BY DEF Core, TxTyped, Statuses
  <1>3. answered = 0 /\ 1 + BytesOf(ResultsOf(prog, performed)) < TxSize
           => queued = ResultsOf(prog, performed)
    BY <1>1 DEF Core, Collected
  <1> QED
    BY <1>1, <1>2, <1>3, AbortEnds

(* All steps of the executing half together.                               *)
LEMMA ExecutingStep ==
    ASSUME Core, Steady, pc # "receive"
    PROVE  Core' /\ UNCHANGED rxVars /\ (GoingOn \/ Ending)
  <1>1. ~ReadByte /\ ~Decode
    BY DEF ReadByte, Decode
  <1>2. UNCHANGED rxVars
    BY <1>1 DEF Steady, ExecuteRead, ExecuteWrite, ExecuteReset, ExecuteGetProgId, ExecuteUnknown,
                WaitBegin, WaitMatch, WaitError, WaitAgain, Finish
  <1>3. Core' /\ (GoingOn \/ Ending)
    BY <1>1, ReadStep, WriteStep, ResetStep, GetProgIdStep, UnknownStep, WaitSteps, WaitErrorStep,
       FinishStep DEF Steady
  <1> QED
    BY <1>2, <1>3

(* Between packets, loop() only receives.                                  *)
LEMMA ReceivingStep ==
    ASSUME Steady, pc = "receive"
    PROVE  ReadByte \/ Decode
  BY DEF Steady, ExecuteRead, ExecuteWrite, ExecuteReset, ExecuteGetProgId, ExecuteUnknown,
         WaitBegin, WaitMatch, WaitError, WaitAgain, Finish, At

(* All steps of loop() keep the invariant and reply truly.                 *)
LEMMA LoopStep ==
    ASSUME Core, Loop
    PROVE  Core' /\ Replying
  <1>1. CASE RxOverflow \/ WaitTimeout
    BY <1>1, RxOverflowStep, WaitTimeoutStep
  <1>2. CASE Steady /\ pc # "receive"
    <2>1. Core' /\ (GoingOn \/ Ending)
      BY <1>2, ExecutingStep
    <2> QED
      BY <2>1, EndingReplies DEF GoingOn, Replying
  <1>3. CASE Steady /\ pc = "receive"
    <2>1. ReadByte \/ Decode
      BY <1>3, ReceivingStep
    <2> QED
      BY <2>1, ReadByteStep, DecodeStep DEF Replying
  <1> QED
    BY <1>1, <1>2, <1>3 DEF Loop

-----------------------------------------------------------------------------
(* The host's steps, and the invariant.                                    *)

(* A packet on the line changes nothing else.                              *)
LEMMA SendStep ==
    ASSUME Core, NEW p \in Packet, Send(p)
    PROVE  Core' /\ replies' = replies
  <1>1. line' = Append(line, p) /\ UNCHANGED <<read, g_rxidx, mangled>> /\ UNCHANGED execVars
        /\ UNCHANGED txVars
    BY DEF Send
  <1>2. RxTyped'
    BY <1>1 DEF Core, RxTyped
  <1>3. ExecTyped' /\ Underway'
    BY <1>1 DEF Core, ExecTyped, Underway, execVars
  <1>4. TxTyped' /\ Counted' /\ Collected' /\ replies' = replies
    BY <1>1 DEF Core, TxTyped, Counted, Collected, execVars, txVars
  <1> QED
    BY <1>2, <1>3, <1>4 DEF Core

(* Changing only the replies.                                              *)
LEMMA RepliesOnly ==
    ASSUME Core, UNCHANGED <<g_txidx, queued, answered>>, UNCHANGED rxVars, UNCHANGED execVars,
           replies' \in Seq(Reply)
    PROVE  Core'
  <1>1. RxTyped'
    BY DEF Core, RxTyped, rxVars
  <1>2. ExecTyped' /\ Underway'
    BY DEF Core, ExecTyped, Underway, execVars, rxVars
  <1>3. TxTyped' /\ Counted' /\ Collected'
    BY DEF Core, TxTyped, Counted, Collected, execVars
  <1> QED
    BY <1>1, <1>2, <1>3 DEF Core

(* Nor does a reply taken.                                                 *)
LEMMA TakeReplyStep ==
    ASSUME Core, TakeReply
    PROVE  Core' /\ replies' = Tail(replies)
  <1>1. replies \in Seq(Reply) /\ replies # <<>> /\ replies' = Tail(replies)
        /\ UNCHANGED <<g_txidx, queued, answered>> /\ UNCHANGED rxVars /\ UNCHANGED execVars
    BY DEF TakeReply, Core, TxTyped
  <1>2. replies' \in Seq(Reply)
    BY <1>1, HeadTail
  <1> QED
    BY <1>1, <1>2, RepliesOnly

(* The invariant holds at the start.                                       *)
LEMMA InitCore == Init => Core /\ RepliesTrue
  <1> SUFFICES ASSUME Init PROVE Core /\ RepliesTrue
    OBVIOUS
  <1>1. RxTyped
    <2>1. line \in Seq(Packet)
      BY DEF Init
    <2>2. read \in Nat /\ g_rxidx \in 0 .. RxSize
      BY DEF Init
    <2>3. mangled \in BOOLEAN
      BY DEF Init
    <2> QED
      BY <2>1, <2>2, <2>3 DEF RxTyped
  <1>2. ExecTyped
    BY DEF Init, ExecTyped
  <1>3. TxTyped /\ Counted
    BY BytesEmpty DEF Init, TxTyped, Counted, Results
  <1>4. Underway /\ Collected
    BY DEF Init, Underway, Collected
  <1>5. RepliesTrue
    BY DEF Init, RepliesTrue
  <1> QED
    BY <1>1, <1>2, <1>3, <1>4, <1>5 DEF Core

(* It depends on nothing but the variables.                                *)
LEMMA StutterCore == Inv /\ UNCHANGED vars => Inv'
  <1> SUFFICES ASSUME Inv, UNCHANGED vars PROVE Inv'
    OBVIOUS
  <1>1. UNCHANGED <<g_txidx, queued, answered>> /\ UNCHANGED rxVars /\ UNCHANGED execVars /\ replies' = replies
    BY DEF vars, rxVars, execVars
  <1>2. Core'
    BY <1>1, RepliesOnly DEF Inv, Core, TxTyped
  <1> QED
    BY <1>1, <1>2 DEF Inv, RepliesTrue

(* The invariant holds in every state, for all sizes and packets.          *)
LEMMA Invariance == Spec => []Inv
  <1>1. Init => Inv
    BY InitCore DEF Inv
  <1>2. Inv /\ [Next]_vars => Inv'
    <2> SUFFICES ASSUME Inv, Next PROVE Inv'
      BY StutterCore
    <2>1. Core /\ RepliesTrue /\ replies \in Seq(Reply)
      BY DEF Inv, Core, TxTyped
    <2>2. CASE Loop
      <3>1. Core' /\ Replying
        BY <2>1, <2>2, LoopStep
      <3>2. RepliesTrue'
        <4>1. CASE replies' = replies
          BY <2>1, <4>1 DEF RepliesTrue
        <4>2. ASSUME NEW r \in Reply, ReplyTrue(r), replies' = Append(replies, r)
              PROVE  RepliesTrue'
          <5>1. \A k \in 1 .. Len(replies') : k \in 1 .. Len(replies) \/ replies'[k] = r
            BY <2>1, <4>2
          <5>2. \A k \in 1 .. Len(replies) : replies'[k] = replies[k]
            BY <2>1, <4>2
          <5> QED
            BY <2>1, <4>2, <5>1, <5>2 DEF RepliesTrue
        <4> QED
          BY <3>1, <4>1, <4>2 DEF Replying
      <3> QED
        BY <3>1, <3>2 DEF Inv
    <2>3. ASSUME NEW p \in Packet, Send(p)
          PROVE  Inv'
      BY <2>1, <2>3, SendStep DEF Inv, RepliesTrue
    <2>4. CASE TakeReply
      <3>1. Core' /\ replies' = Tail(replies) /\ replies # <<>>
        BY <2>1, <2>4, TakeReplyStep DEF TakeReply
      <3>2. \A k \in 1 .. Len(replies') : k + 1 \in 1 .. Len(replies) /\ replies'[k] = replies[k + 1]
        BY <2>1, <3>1
      <3> QED
        BY <2>1, <3>1, <3>2 DEF Inv, RepliesTrue
    <2> QED
      BY <2>2, <2>3, <2>4 DEF Next, Host
  <1> QED
    BY <1>1, <1>2, PTL DEF Spec

-----------------------------------------------------------------------------
(* The theorems.                                                           *)

(* Neither buffer of the programmer is ever overrun, whatever the host     *)
(* sends: g_txidx counts exactly the bytes queued, and every packet starts *)
(* with an empty transmit buffer, aborted ones before it or not.           *)
THEOREM TxConsistentHolds == Spec => []TxConsistent
  <1>1. Inv => TxConsistent
    <2> SUFFICES ASSUME Inv PROVE TxConsistent
      OBVIOUS
    <2>1. pc = "receive" => g_txidx = 1
      BY BytesEmpty DEF Inv, Core, Counted
    <2> QED
      BY <2>1 DEF Inv, Core, RxTyped, TxTyped, Counted, TxConsistent
  <1> QED
    BY <1>1, Invariance, PTL

(* A reply says OK exactly when every command of its packet has been       *)
(* performed, once and in order, for all packets that fit the buffer.      *)
THEOREM OkMeansPerformedHolds == Spec => []OkMeansPerformed
  <1>1. Inv => OkMeansPerformed
    BY DEF Inv, RepliesTrue, ReplyTrue, OkMeansPerformed, Untouched, Identity
  <1> QED
    BY <1>1, Invariance, PTL

(* The first reply to a packet carries the results of exactly the commands *)
(* performed of it, as long as g_txbuffer has room for them.               *)
THEOREM ResultsMatchHolds == Spec => []ResultsMatch
  <1>1. Inv => ResultsMatch
    BY DEF Inv, RepliesTrue, ReplyTrue, Due, ResultsMatch, Untouched
  <1> QED
    BY <1>1, Invariance, PTL

-----------------------------------------------------------------------------
USE SessionAssumption

(* The session: its inductive invariant.                                   *)

HostTyped ==
    /\ hpc \in {"script", "write", "read", "check"} /\ sent \in 0 .. MaxPackets
    /\ disturbed \in BOOLEAN
    /\ hpc # "script" => g_cmdQueue \in Programs

(* The packet written last, nothing under way, and an answer to it.        *)
Written == [id |-> sent - 1, cmds |-> g_cmdQueue]
Idle == line = <<>> /\ pc = "receive" /\ g_rxidx = 0 /\ read = 0
Answers(r) == r \in Reply /\ r.job = Written /\ ~r.mangled /\ r.status # "TORN" /\ ReplyTrue(r)

(* The packet written is in exactly one place: on the line, being executed,*)
(* or answered.                                                            *)
OnLine   == line = <<Written>> /\ replies = <<>> /\ pc = "receive"
Executed == line = <<>> /\ replies = <<>> /\ pc # "receive" /\ job = Written /\ g_rxidx = 0 /\ read = 0
Answered == Idle /\ Len(replies) = 1 /\ Answers(replies[1])

Lockstep ==
    /\ ~mangled
    /\ hpc \in {"script", "write"} => Idle /\ replies = <<>>
    /\ hpc # "read" => got = 0
    /\ hpc = "read"  => OnLine \/ Executed \/ Answered
    /\ hpc = "check" => /\ Idle /\ replies = <<>> /\ Answers(origin)
                        /\ g_resultQueue = [status |-> origin.status, data |-> origin.data]

SessionInv == Core /\ HostTyped /\ (~disturbed => Lockstep)

-----------------------------------------------------------------------------
(* The programmer's steps.                                                 *)

(* A sequence of one element.                                              *)
LEMMA Singleton ==
    ASSUME NEW S, NEW q \in Seq(S), NEW x, q = <<x>>
    PROVE  q # <<>> /\ Head(q) = x /\ Tail(q) = <<>>
  OBVIOUS

(* The programmer leaves the host alone.                                   *)
LEMMA HostKept ==
    ASSUME HostTyped, UNCHANGED hostVars, disturbed' \in BOOLEAN
    PROVE  HostTyped' /\ Written' = Written
  BY DEF HostTyped, hostVars, Written

(* The packet written stays on the line until it is decoded.               *)
LEMMA ReceivingKeeps ==
    ASSUME Core, Lockstep, hpc = "read", OnLine, ReadByte \/ Decode, UNCHANGED hostVars
    PROVE  Lockstep'
  <1>1. line \in Seq(Packet) /\ line = <<Written>> /\ replies = <<>> /\ ~mangled /\ Written' = Written
        /\ hpc' = "read"
    BY DEF Core, RxTyped, OnLine, Lockstep, hostVars, Written
  <1>2. CASE ReadByte
    <2>1. line' = line /\ replies' = replies /\ pc' = "receive" /\ ~mangled'
      BY <1>1, <1>2 DEF ReadByte, execVars
    <2> QED
      BY <1>1, <2>1 DEF Lockstep, OnLine
  <1>3. CASE Decode
    <2>1. line' = Tail(line) /\ replies' = replies /\ pc' = "execute" /\ mangled' = mangled
          /\ job' = Head(line) /\ g_rxidx' = 0 /\ read' = 0
      BY <1>3 DEF Decode, txVars
    <2>2. Head(line) = Written /\ Tail(line) = <<>>
      BY <1>1, Singleton
    <2> QED
      BY <1>1, <2>1, <2>2 DEF Lockstep, Executed
  <1> QED
    BY <1>2, <1>3

(* A packet executed goes on being executed, or is answered.               *)
LEMMA ExecutingKeeps ==
    ASSUME Core, Lockstep, hpc = "read", Executed, Steady, UNCHANGED hostVars
    PROVE  Lockstep'
  <1>1. /\ line = <<>> /\ replies = <<>> /\ pc # "receive" /\ job = Written /\ g_rxidx = 0 /\ read = 0
        /\ ~mangled /\ Written' = Written /\ hpc' = "read"
    BY DEF Executed, Lockstep, hostVars, Written
  <1>2. UNCHANGED rxVars /\ (GoingOn \/ Ending)
    BY <1>1, ExecutingStep
  <1>3. line' = <<>> /\ g_rxidx' = 0 /\ read' = 0 /\ ~mangled'
    BY <1>1, <1>2 DEF rxVars
  <1>4. CASE GoingOn
    BY <1>1, <1>3, <1>4 DEF GoingOn, Lockstep, Executed
  <1>5. CASE Ending
    <2>1. PICK s \in Statuses, d \in Results :
             /\ Abort(s, d) /\ Sent(job, s, d, mangled) \in Reply
             /\ ReplyTrue(Sent(job, s, d, mangled))
      BY <1>5 DEF Ending
    <2> DEFINE r == Sent(job, s, d, mangled)
    <2>2. pc' = "receive" /\ replies' = Append(replies, r)
      <3>1. Len(replies) < MaxReplies
        BY <1>1
      <3> QED
        BY <2>1, <3>1 DEF Abort, SendReply, Sent
    <2>3. r.job = job /\ r.mangled = mangled /\ r.status = s /\ s # "TORN"
      BY DEF Sent, Statuses, Errors
    <2> HIDE DEF r
    <2>4. Len(replies') = 1 /\ replies'[1] = r
      BY <1>1, <2>2
    <2>5. Answers(r)
      BY <1>1, <2>1, <2>3 DEF Answers, r
    <2> QED
      BY <1>1, <1>3, <2>2, <2>4, <2>5 DEF Lockstep, Answered, Answers, Idle
  <1> QED
    BY <1>2, <1>4, <1>5

(* The programmer stays in step: it moves only while a packet is under way.*)
LEMMA ProgrammerKeeps ==
    ASSUME SessionInv, ProgrammerStep
    PROVE  SessionInv'
  <1>1. Core /\ HostTyped /\ UNCHANGED hostVars /\ hpc' = hpc
    BY DEF SessionInv, ProgrammerStep, hostVars
  <1>2. Core' /\ disturbed' \in BOOLEAN
    <2>1. Loop
      BY DEF ProgrammerStep, Loop
    <2> QED
      BY <1>1, <2>1, LoopStep DEF ProgrammerStep, HostTyped
  <1>3. HostTyped' /\ Written' = Written
    BY <1>1, <1>2, HostKept
  <1>4. ASSUME ~disturbed'
        PROVE  Lockstep'
    <2>1. Steady /\ ~disturbed /\ Lockstep
      BY <1>4 DEF ProgrammerStep, SessionInv
    <2>2. CASE pc = "receive" /\ line # <<>>
      <3>1. hpc = "read" /\ OnLine
        BY <1>1, <2>1, <2>2 DEF HostTyped, Lockstep, Idle, Executed, Answered
      <3>2. ReadByte \/ Decode
        BY <2>1, <2>2, ReceivingStep
      <3> QED
        BY <1>1, <2>1, <3>1, <3>2, ReceivingKeeps
    <2>3. CASE pc = "receive" /\ line = <<>>
      <3>1. ReadByte \/ Decode
        BY <2>1, <2>3, ReceivingStep
      <3> QED
        BY <2>3, <3>1 DEF ReadByte, Decode, More
    <2>4. CASE pc # "receive"
      <3>1. hpc = "read" /\ Executed
        BY <1>1, <2>1, <2>4 DEF HostTyped, Lockstep, Idle, OnLine, Answered
      <3> QED
        BY <1>1, <2>1, <3>1, ExecutingKeeps
    <2> QED
      BY <2>2, <2>3, <2>4
  <1> QED
    BY <1>2, <1>3, <1>4 DEF SessionInv

-----------------------------------------------------------------------------
(* The host's steps.                                                       *)

(* Steps that change no variable of the programmer.                        *)
LEMMA CoreKept ==
    ASSUME Core, UNCHANGED vars
    PROVE  Core' /\ UNCHANGED <<line, replies, pc, g_rxidx, read, mangled, job>>
  <1>1. UNCHANGED <<g_txidx, queued, answered>> /\ UNCHANGED rxVars /\ UNCHANGED execVars
        /\ replies' = replies /\ UNCHANGED <<line, replies, pc, g_rxidx, read, mangled, job>>
    BY DEF vars, rxVars, execVars
  <1>2. replies' \in Seq(Reply)
    BY <1>1 DEF Core, TxTyped
  <1> QED
    BY <1>1, <1>2, RepliesOnly

(* A script function fills the queue between two packets.                  *)
LEMMA CallKeeps ==
    ASSUME SessionInv, NEW cmds \in Programs, Call(cmds)
    PROVE  SessionInv'
  <1>1. Core' /\ UNCHANGED <<line, replies, pc, g_rxidx, read, mangled, job>>
    BY CoreKept DEF SessionInv, Call
  <1>2. HostTyped'
    BY DEF SessionInv, HostTyped, Call
  <1>3. ~disturbed' => Lockstep'
    BY <1>1 DEF SessionInv, Call, Lockstep, Idle
  <1> QED
    BY <1>1, <1>2, <1>3 DEF SessionInv

(* A packet is written when nothing is under way.                          *)
LEMMA WriteKeeps ==
    ASSUME SessionInv, WritePacket
    PROVE  SessionInv'
  <1> DEFINE p == [id |-> sent, cmds |-> g_cmdQueue]
  <1>1. Core /\ HostTyped /\ hpc = "write" /\ sent < MaxPackets /\ sent' = sent + 1 /\ hpc' = "read"
        /\ g_cmdQueue' = g_cmdQueue
    BY DEF SessionInv, WritePacket
  <1>2. PICK wrote \in BOOLEAN :
           /\ disturbed' = (disturbed \/ ~wrote)
           /\ Send(p) \/ (~wrote /\ UNCHANGED vars)
    BY DEF WritePacket
  <1>3. p \in Packet
    BY <1>1 DEF HostTyped, Packet
  <1> HIDE DEF p
  <1>4. Core'
    BY <1>1, <1>2, <1>3, SendStep, CoreKept
  <1>5. HostTyped'
    BY <1>1, <1>2 DEF HostTyped
  <1>6. ASSUME ~disturbed'
        PROVE  Lockstep'
    <2>1. ~disturbed /\ Send(p)
      BY <1>2, <1>6
    <2>2. Idle /\ replies = <<>> /\ ~mangled
      BY <1>1, <2>1 DEF SessionInv, Lockstep
    <2>3. line' = Append(line, p) /\ pc' = "receive" /\ ~mangled' /\ replies' = <<>>
      BY <2>1, <2>2 DEF Send, execVars, txVars, Idle
    <2>4. p = Written'
      <3>1. sent' - 1 = sent
        BY <1>1 DEF HostTyped
      <3> QED
        BY <1>1, <3>1 DEF p, Written
    <2>5. line' = <<Written'>>
      BY <2>2, <2>3, <2>4 DEF Idle
    <2> QED
      BY <1>1, <2>3, <2>5 DEF Lockstep, OnLine
  <1> QED
    BY <1>4, <1>5, <1>6 DEF SessionInv

(* The reply read is the answer to the packet written.                     *)
LEMMA ReadKeeps ==
    ASSUME SessionInv, ReadPacket
    PROVE  SessionInv'
  <1>1. /\ Core /\ HostTyped /\ hpc = "read" /\ replies # <<>> /\ TakeReply /\ hpc' = "check"
        /\ g_resultQueue' = [status |-> replies[1].status, data |-> replies[1].data]
        /\ origin' = replies[1] /\ disturbed' = disturbed /\ UNCHANGED <<g_cmdQueue, sent>>
        /\ got' = 0
    BY DEF SessionInv, ReadPacket
  <1>2. Core' /\ replies' = Tail(replies)
    BY <1>1, TakeReplyStep
  <1>3. HostTyped'
    BY <1>1 DEF HostTyped
  <1>4. ASSUME ~disturbed'
        PROVE  Lockstep'
    <2>1. Answered /\ ~mangled
      BY <1>1, <1>4 DEF SessionInv, Lockstep, OnLine, Executed
    <2>2. UNCHANGED <<line, pc, g_rxidx, read, mangled>>
      BY <1>1 DEF TakeReply, rxVars, execVars
    <2>3. Written' = Written /\ Answers(replies[1])
      BY <1>1, <2>1 DEF Written, Answered
    <2>4. replies' = <<>>
      <3>1. replies \in Seq(Reply) /\ Len(replies) = 1
        BY <2>1 DEF SessionInv, Core, TxTyped, Answered
      <3> QED
        BY <1>1, <1>2, <3>1
    <2>5. Answers(origin)'
      BY <1>1, <2>3 DEF Answers
    <2>6. Idle'
      BY <2>1, <2>2 DEF Answered, Idle
    <2> QED
      BY <1>1, <2>1, <2>2, <2>4, <2>5, <2>6 DEF Lockstep
  <1> QED
    BY <1>2, <1>3, <1>4 DEF SessionInv

(* Only a disturbed session leaves part of a reply in the port.            *)
LEMMA ReadRestKeeps ==
    ASSUME SessionInv, ReadRest
    PROVE  SessionInv'
  <1>1. /\ Core /\ HostTyped /\ hpc = "read" /\ replies # <<>> /\ replies[1].status = "TORN"
        /\ TakeReply /\ hpc' = "check" /\ disturbed' = disturbed /\ UNCHANGED <<g_cmdQueue, sent>>
    BY DEF SessionInv, ReadRest
  <1>2. Core'
    BY <1>1, TakeReplyStep
  <1>3. HostTyped'
    BY <1>1 DEF HostTyped
  <1>4. disturbed
    BY <1>1 DEF SessionInv, HostTyped, Lockstep, OnLine, Executed, Answered, Answers
  <1> QED
    BY <1>1, <1>2, <1>3, <1>4 DEF SessionInv

(* A byte of a frame read changes neither what is in the port nor what the *)
(* programmer does.                                                        *)
LEMMA ReadFrameByteKeeps ==
    ASSUME SessionInv, ReadFrameByte
    PROVE  SessionInv'
  <1>1. /\ hpc = "read" /\ hpc' = "read" /\ UNCHANGED vars
        /\ UNCHANGED <<g_cmdQueue, sent, disturbed>>
    BY DEF ReadFrameByte
  <1>2. Core' /\ UNCHANGED <<line, replies, pc, g_rxidx, read, mangled, job>>
    BY <1>1, CoreKept DEF SessionInv
  <1>3. HostTyped' /\ Written' = Written
    BY <1>1 DEF SessionInv, HostTyped, Written
  <1>4. ASSUME ~disturbed'
        PROVE  Lockstep'
    <2>1. ~mangled /\ (OnLine \/ Executed \/ Answered)
      BY <1>1, <1>4 DEF SessionInv, Lockstep
    <2>2. OnLine' \/ Executed' \/ Answered'
      BY <1>2, <1>3, <2>1 DEF OnLine, Executed, Answered, Answers, Idle
    <2> QED
      BY <1>1, <1>2, <2>1, <2>2 DEF Lockstep
  <1> QED
    BY <1>2, <1>3, <1>4 DEF SessionInv

(* A torn reply still has the type of replies.                             *)
LEMMA TornTyped ==
    ASSUME NEW q \in Reply, NEW s \in Statuses \cup {"TORN"}
    PROVE  [q EXCEPT !.status = s] \in Reply
  <1> HIDE DEF Statuses, Results, Packet
  <1> QED
    BY DEF Reply

(* A timeout disturbs the session; the programmer notices nothing.         *)
LEMMA TimeoutKeeps ==
    ASSUME SessionInv, ReadTimeout
    PROVE  SessionInv'
  <1>1. Core /\ HostTyped /\ disturbed' = TRUE /\ hpc = "read" /\ hpc' = "check"
        /\ UNCHANGED <<g_cmdQueue, sent>>
    BY DEF SessionInv, ReadTimeout
  <1>2. CASE UNCHANGED vars
    BY <1>1, <1>2, CoreKept DEF SessionInv, HostTyped
  <1>3. CASE /\ replies # <<>>
             /\ replies' = [replies EXCEPT ![1].status = "TORN"]
             /\ UNCHANGED <<g_txidx, queued, answered>>
             /\ UNCHANGED rxVars /\ UNCHANGED execVars
    <2>1. replies \in Seq(Reply)
      BY <1>1 DEF Core, TxTyped
    <2>2. 1 \in 1 .. Len(replies) /\ replies[1] \in Reply
      BY <1>3, <2>1
    <2> DEFINE r == [replies[1] EXCEPT !.status = "TORN"]
    <2>3. r \in Reply
      BY <2>2, TornTyped
    <2>4. replies' = [replies EXCEPT ![1] = r]
      BY <1>3, <2>1, <2>2
    <2>5. replies' \in Seq(Reply)
      <3> HIDE DEF r
      <3> QED
        BY <2>1, <2>2, <2>3, <2>4
    <2>6. Core'
      BY <1>1, <1>3, <2>5, RepliesOnly
    <2> QED
      BY <1>1, <2>6 DEF SessionInv, HostTyped
  <1> QED
    BY <1>2, <1>3 DEF ReadTimeout

(* What the script does with the status moves nothing on the line.         *)
LEMMA CheckKeeps ==
    ASSUME SessionInv, CheckCall \/ CheckConnect
    PROVE  SessionInv'
  <1>1. /\ hpc = "check" /\ hpc' \in {"script", "write"} /\ UNCHANGED vars
        /\ UNCHANGED <<g_cmdQueue, got, sent, disturbed>>
    BY DEF CheckCall, CheckConnect
  <1>2. Core' /\ UNCHANGED <<line, replies, pc, g_rxidx, read, mangled, job>>
    BY <1>1, CoreKept DEF SessionInv
  <1>3. HostTyped'
    BY <1>1 DEF SessionInv, HostTyped
  <1>4. ~disturbed' => Lockstep'
    BY <1>1, <1>2 DEF SessionInv, Lockstep, Idle
  <1> QED
    BY <1>2, <1>3, <1>4 DEF SessionInv

(* The invariant holds in every state of a session.                        *)
LEMMA SessionInvariance == SessionSpec => []SessionInv
  <1>1. SessionInit => SessionInv
    <2> SUFFICES ASSUME SessionInit PROVE SessionInv
      OBVIOUS
    <2>1. Core
      BY InitCore DEF SessionInit
    <2>2. HostTyped
      <3>1. hpc = "script" /\ sent = 0
        BY DEF SessionInit
      <3>2. disturbed \in BOOLEAN
        BY DEF SessionInit
      <3> QED
        BY <3>1, <3>2 DEF HostTyped
    <2>3. Lockstep
      <3>1. hpc = "script" /\ got = 0 /\ replies = <<>> /\ Idle
        BY DEF SessionInit, Init, Idle
      <3>2. ~mangled
        BY DEF SessionInit, Init
      <3> QED
        BY <3>1, <3>2 DEF Lockstep
    <2> QED
      BY <2>1, <2>2, <2>3 DEF SessionInv
  <1>2. SessionInv /\ [SessionNext]_sessionVars => SessionInv'
    <2> SUFFICES ASSUME SessionInv, [SessionNext]_sessionVars PROVE SessionInv'
      OBVIOUS
    <2>1. CASE UNCHANGED sessionVars
      <3>1. Core' /\ UNCHANGED <<line, replies, pc, g_rxidx, read, mangled, job>>
        BY <2>1, CoreKept DEF SessionInv, sessionVars
      <3>2. UNCHANGED <<hpc, g_cmdQueue, g_resultQueue, got, origin, sent, disturbed>>
        BY <2>1 DEF sessionVars, hostVars
      <3>3. HostTyped'
        BY <3>2 DEF SessionInv, HostTyped
      <3>4. Written' = Written
        BY <3>2 DEF Written
      <3>5. ~disturbed' => Lockstep'
        BY <3>1, <3>2, <3>4
           DEF SessionInv, Lockstep, Idle, OnLine, Executed, Answered, Answers
      <3> QED
        BY <3>1, <3>3, <3>5 DEF SessionInv
    <2>2. CASE \E cmds \in Programs : Call(cmds)
      BY <2>2, CallKeeps
    <2>3. CASE HostStep
      BY <2>3, WriteKeeps, ReadFrameByteKeeps, ReadKeeps, ReadRestKeeps, TimeoutKeeps, CheckKeeps
         DEF HostStep
    <2>4. CASE ProgrammerStep
      BY <2>4, ProgrammerKeeps
    <2> QED
      BY <2>1, <2>2, <2>3, <2>4 DEF SessionNext
  <1> QED
    BY <1>1, <1>2, PTL DEF SessionSpec

-----------------------------------------------------------------------------
(* The theorems.                                                           *)

(* Until a timeout, a failed write, an overflow or a wait timeout, the     *)
(* host reads the one answer to the packet it has just written, and        *)
(* between two calls nothing is on the line and no part of a frame is left *)
(* in the port: the protocol needs no packet numbers as long as nothing    *)
(* goes wrong.                                                             *)
THEOREM InStepHolds == SessionSpec => []InStep
  <1>1. SessionInv => InStep
    <2> SUFFICES ASSUME SessionInv, ~disturbed PROVE InStep
      BY DEF InStep
    <2>1. Lockstep
      BY DEF SessionInv
    <2>2. hpc \in {"script", "write"} => line = <<>> /\ replies = <<>> /\ pc = "receive" /\ g_rxidx = 0
      BY <2>1 DEF Lockstep, Idle
    <2>3. hpc = "read" => Len(line) + Len(replies) + (IF pc = "receive" THEN 0 ELSE 1) = 1
      <3> SUFFICES ASSUME hpc = "read"
                   PROVE  Len(line) + Len(replies) + (IF pc = "receive" THEN 0 ELSE 1) = 1
        OBVIOUS
      <3>1. CASE OnLine
        <4>1. Len(line) = 1 /\ Len(replies) = 0 /\ pc = "receive"
          BY <3>1 DEF OnLine
        <4> QED
          BY <4>1
      <3>2. CASE Executed
        <4>1. Len(line) = 0 /\ Len(replies) = 0 /\ pc # "receive"
          BY <3>2 DEF Executed
        <4> QED
          BY <4>1
      <3>3. CASE Answered
        <4>1. Len(line) = 0 /\ Len(replies) = 1 /\ pc = "receive"
          BY <3>3 DEF Answered, Idle
        <4> QED
          BY <4>1
      <3> QED
        BY <2>1, <3>1, <3>2, <3>3 DEF Lockstep
    <2>4. hpc = "check" => origin # Nothing /\ origin.job = [id |-> sent - 1, cmds |-> g_cmdQueue]
      <3> SUFFICES ASSUME hpc = "check" PROVE origin # Nothing /\ origin.job = Written
        BY DEF Written
      <3>1. origin \in Reply /\ origin.job = Written /\ origin.status # "NONE"
        BY <2>1 DEF Lockstep, Answers, Reply, Statuses, Errors
      <3> QED
        BY <3>1 DEF Nothing
    <2>5. hpc # "read" => got = 0
      BY <2>1 DEF Lockstep
    <2> QED
      BY <2>2, <2>3, <2>4, <2>5 DEF InStep
  <1> QED
    BY <1>1, SessionInvariance, PTL

(* Then what popUInt8 returns to the script is true: OK exactly when the   *)
(* programmer has performed every command of the packet just written.      *)
THEOREM StatusTrueHolds == SessionSpec => []StatusTrue
  <1>1. SessionInv => StatusTrue
    <2> SUFFICES ASSUME SessionInv, ~disturbed, hpc = "check" PROVE StatusTrue
      BY DEF StatusTrue
    <2>1. Lockstep
      BY DEF SessionInv
    <2>2. /\ origin \in Reply /\ origin.job = Written /\ ~origin.mangled /\ ReplyTrue(origin)
          /\ g_resultQueue = [status |-> origin.status, data |-> origin.data]
      BY <2>1 DEF Lockstep, Answers
    <2>3. origin.status # "NONE"
      BY <2>2 DEF Reply, Statuses, Errors
    <2>4. PopStatus = origin.status
      BY <2>2, <2>3 DEF PopStatus, Nothing
    <2>5. /\ origin.performed = Identity(Len(origin.performed))
          /\ (origin.status = "OK") <=> (Len(origin.performed) = Len(g_cmdQueue))
      BY <2>2 DEF ReplyTrue, Written
    <2>6. Len(g_cmdQueue) \in Nat
      <3>1. g_cmdQueue \in Seq(Kinds)
        BY DEF SessionInv, HostTyped
      <3> QED
        BY <3>1
    <2>7. Len(Identity(Len(g_cmdQueue))) = Len(g_cmdQueue)
      BY <2>6 DEF Identity
    <2>8. (origin.status = "OK") <=> (origin.performed = Identity(Len(g_cmdQueue)))
      BY <2>5, <2>7
    <2> QED
      BY <2>4, <2>8 DEF StatusTrue, Identity
  <1> QED
    BY <1>1, SessionInvariance, PTL

(* Late, lost and torn replies never let a buffer of the programmer be     *)
(* overrun: TxConsistent holds in the disturbed session, too.              *)
THEOREM TxConsistentInSession == SessionSpec => []TxConsistent
  <1>1. SessionInv => TxConsistent
    <2> SUFFICES ASSUME SessionInv PROVE TxConsistent
      OBVIOUS
    <2>1. pc = "receive" => g_txidx = 1
      BY BytesEmpty DEF SessionInv, Core, Counted
    <2> QED
      BY <2>1 DEF SessionInv, Core, RxTyped, TxTyped, Counted, TxConsistent
  <1> QED
    BY <1>1, SessionInvariance, PTL
=============================================================================
