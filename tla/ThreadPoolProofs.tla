-------------------------- MODULE ThreadPoolProofs --------------------------
(***************************************************************************)
(* Proofs about the thread pools, for any pools, threads and blocks: what  *)
(* remove does to a list, the inductive invariant, the steps of the pool   *)
(* threads and of the main thread, and what follows; then that stop leaves *)
(* the pools as start needs them, as long as no block throws.              *)
(***************************************************************************)
EXTENDS ThreadPool, ListProofs

-----------------------------------------------------------------------------
(* Taking a block out of the list of a scheduler *)

\* MpMcQueue.hpp 129-133: remove leaves exactly the other blocks, and none twice
\* if none was there twice.
LEMMA WithoutProperties ==
  ASSUME NEW S, NEW s \in Seq(S), NEW b
  PROVE  LET w == Without(s, b) IN
         /\ w \in Seq(S)
         /\ \A i \in 1 .. Len(w) : w[i] # b /\ \E j \in 1 .. Len(s) : s[j] = w[i]
         /\ \A j \in 1 .. Len(s) : s[j] # b => \E i \in 1 .. Len(w) : w[i] = s[j]
         /\ Distinct(s) => Distinct(w)
<1>0. PICK D : D = {b}
  BY Zenon
<1> DEFINE w == Drop(s, D)
<1>1. w \in Seq(S) /\ (Distinct(s) => Distinct(w))
  BY DropPlaces, DropDistinct, Zenon
<1>2. ASSUME NEW i \in 1 .. Len(w)
      PROVE  w[i] \notin D /\ \E j \in 1 .. Len(s) : s[j] = w[i]
  <2>1. PICK h : Keeps(h, w, s, D, Len(s))
    BY DropPlaces, Zenon
  <2> QED BY <2>1 DEF Keeps
<1>3. \A j \in 1 .. Len(s) : s[j] \notin D => \E i \in 1 .. Len(w) : w[i] = s[j]
  BY DropAll, Zenon
<1> HIDE DEF w
<1>4. Without(s, b) = w
  BY <1>0 DEF Without, w
<1> QED BY <1>0, <1>1, <1>2, <1>3, <1>4

-----------------------------------------------------------------------------
(* The inductive invariant *)

\* While start and stop are at work, the main thread is at a thread of a pool
\* that exists.
Placed == main.pool \in m_map /\ main.i \in 1 .. Size[main.pool]

MainOK == \/ main = Idle
          \/ main.op = "start" /\ running /\ Placed
          \/ main.op \in {"stop", "join"} /\ ~running /\ Placed

\* stop has come past the thread.
Passed(t) == \/ Pool(t) \notin m_map
             \/ Pool(t) < main.pool
             \/ Pool(t) = main.pool /\ t[2] < main.i

\* A thread exists only from its start to its join.
Joined ==
  /\ \A t \in Threads : Pool(t) \notin m_map => pc[t] = "none"
  /\ main = Idle /\ ~running => \A t \in Threads : pc[t] = "none"
  /\ main.op \in {"stop", "join"} => \A t \in Threads : Passed(t) => pc[t] = "none"

InQueue(b, p) == \E i \in 1 .. Len(m_queue[p]) : m_queue[p][i] = b

\* Lists and threads have only blocks of their own pool.
AtHome ==
  /\ \A p \in Pools : \A i \in 1 .. Len(m_queue[p]) : home[m_queue[p][i]] = p
  /\ \A t \in Threads, b \in Blocks : Holds(t, b) => home[b] = Pool(t)

\* A block is in the list at most once, or held by one thread.
Single ==
  /\ \A p \in Pools : Distinct(m_queue[p])
  /\ \A t \in Threads, b \in Blocks : Holds(t, b) => ~InQueue(b, Pool(t))
  /\ \A t, u \in Threads, b \in Blocks : Holds(t, b) /\ Holds(u, b) => t = u

\* A thread that runs a block has one.
Busy == \A t \in Threads : pc[t] \in {"run", "done"} => torun[t] \in Blocks

IInv == TypeOK /\ MainOK /\ Joined /\ Busy /\ AtHome /\ Single

-----------------------------------------------------------------------------
(* Threads and the iteration over the pools *)

\* A thread is a pool and a number up to the size of the pool
\* (ThreadPool.hpp 70-82).
LEMMA ThreadFacts ==
  /\ \A t \in Threads : /\ Pool(t) \in Pools /\ t[2] \in 1 .. Size[Pool(t)]
                        /\ t = <<Pool(t), t[2]>>
  /\ \A p \in Pools : \A i \in 1 .. Size[p] : <<p, i>> \in Threads /\ Pool(<<p, i>>) = p
  /\ Pools \subseteq Nat /\ NoPool \notin Pools
  /\ \A p \in Pools : Size[p] \in Nat /\ 1 \in 1 .. Size[p]
BY PoolsAssumption, SizeAssumption DEF Threads, Pool

\* The loop over m_map goes to the next greater name or ends
\* (PoolManager.hpp 181-185 and 198-201).
LEMMA NextPoolFacts ==
  ASSUME m_map \subseteq Pools, NEW op, NEW p \in Pools
  PROVE  LET n == NextPool(op, p) IN
         \/ n = Idle /\ \A q \in m_map : q <= p
         \/ /\ n = [op |-> op, pool |-> n.pool, i |-> 1]
            /\ n.pool \in m_map /\ p < n.pool
            /\ \A q \in m_map : p < q => n.pool <= q
<1> DEFINE rest == {q \in m_map : q > p}
<1>1. rest \subseteq Nat /\ m_map \subseteq Nat /\ p \in Nat
  BY PoolsAssumption, Zenon
<1>2. CASE rest = {}
  BY <1>1, <1>2 DEF NextPool
<1>3. CASE rest # {}
  <2> DEFINE c == CHOOSE q \in rest : \A r \in rest : q <= r
  <2>1. c \in rest /\ \A r \in rest : c <= r
    <3>1. \E q \in rest : \A r \in rest : q <= r
      <4> HIDE DEF rest
      <4> QED BY <1>1, <1>3, Least, Zenon
    <3> HIDE DEF rest
    <3> QED BY <3>1
  <2>2. NextPool(op, p) = [op |-> op, pool |-> c, i |-> 1]
    BY <1>3 DEF NextPool
  <2> HIDE DEF c
  <2> QED BY <2>1, <2>2, <1>1
<1> QED BY <1>2, <1>3

\* The loop over m_map begins with the least name (PoolManager.hpp 181 and 198).
LEMMA FirstPoolFacts ==
  ASSUME m_map \subseteq Pools, NEW op
  PROVE  LET n == FirstPool(op) IN
         \/ n = Idle /\ m_map = {}
         \/ /\ n = [op |-> op, pool |-> n.pool, i |-> 1]
            /\ n.pool \in m_map /\ \A q \in m_map : n.pool <= q
<1>1. m_map \subseteq Nat
  BY PoolsAssumption
<1>2. CASE m_map = {}
  BY <1>2 DEF FirstPool
<1>3. CASE m_map # {}
  <2> DEFINE c == CHOOSE q \in m_map : \A r \in m_map : q <= r
  <2>1. c \in m_map /\ \A r \in m_map : c <= r
    BY <1>1, <1>3, Least, Zenon
  <2>2. FirstPool(op) = [op |-> op, pool |-> c, i |-> 1]
    BY <1>3 DEF FirstPool
  <2> HIDE DEF c
  <2> QED BY <2>1, <2>2
<1> QED BY <1>2, <1>3

-----------------------------------------------------------------------------
(* Every step keeps the invariant *)

\* Nothing exists when the process starts.
LEMMA InitIInv == Init => IInv
<1> SUFFICES ASSUME Init PROVE IInv
  OBVIOUS
<1>1. TypeOK
  <2>1. main \in [op : {"idle", "start", "stop", "join"}, pool : Pools \cup {NoPool},
                  i : Nat]
    BY DEF Init, Idle
  <2>2. m_queue \in [Pools -> Seq(Blocks)]
    BY DEF Init
  <2>3. m_stop \in [Threads -> BOOLEAN] /\ torun \in [Threads -> Blocks \cup {NoBlock}]
    BY DEF Init
  <2>4. pc \in [Threads -> {"none", "begin", "test", "next", "run", "done", "exit",
                           "exited"}]
    BY DEF Init
  <2> QED BY <2>1, <2>2, <2>3, <2>4, Zenon DEF Init, TypeOK
<1>2. MainOK /\ Joined
  BY DEF Init, MainOK, Joined, Idle
<1>3. Busy /\ AtHome
  BY DEF Init, Busy, AtHome, Holds
<1>4. Single
  BY DEF Init, Single, Holds, InQueue, Distinct
<1> QED BY <1>1, <1>2, <1>3, <1>4 DEF IInv

\* A step of a pool thread that exists (ThreadHandler.hpp 127-161) concerns its
\* own control only.
LEMMA ThreadControl ==
  ASSUME Joined, MainOK, NEW t \in Threads, pc[t] # "none",
         UNCHANGED <<m_map, running, main>>,
         \A u \in Threads : u # t => pc'[u] = pc[u]
  PROVE  MainOK' /\ Joined'
<1>1. MainOK'
  BY DEF MainOK, Placed, Idle
<1>2. Pool(t) \in m_map /\ ~(main = Idle /\ ~running)
      /\ (main.op \in {"stop", "join"} => ~Passed(t))
  BY DEF Joined
<1>3. \A u \in Threads : Passed(u)' <=> Passed(u)
  BY DEF Passed, Pool
<1>4. Idle' = Idle /\ \A u \in Threads : Pool(u)' = Pool(u)
  BY DEF Idle, Pool
<1>5. Joined'
  BY <1>2, <1>3, <1>4 DEF Joined
<1> QED BY <1>1, <1>5

\* ThreadHandler.hpp 139, 140 and 160: the steps of a thread around its loop.
LEMMA LoopStep ==
  ASSUME IInv, NEW t \in Threads, Begin(t) \/ TestStop(t) \/ Exit(t)
  PROVE  IInv'
<1> USE DEF IInv
<1>1. /\ UNCHANGED <<m_map, running, m_running, m_queue, home, torun, main>>
      /\ pc[t] \in {"begin", "test", "exit"} /\ pc'[t] \notin {"run", "done"}
      /\ \A u \in Threads : u # t => pc'[u] = pc[u]
  BY DEF Begin, TestStop, Exit, poolVars, TypeOK
<1>2. TypeOK'
  BY Zenon DEF TypeOK, Begin, TestStop, Exit, poolVars
<1>3. MainOK' /\ Joined'
  BY <1>1, ThreadControl
<1>4. \A u \in Threads, b \in Blocks : Holds(u, b)' => Holds(u, b)
  BY <1>1 DEF Holds
<1>5. AtHome'
  BY <1>1, <1>4 DEF AtHome, Pool
<1>6. Single'
  BY <1>1, <1>4 DEF Single, InQueue, Distinct, Pool
<1>7. Busy'
  BY <1>1 DEF Busy
<1> QED BY <1>2, <1>3, <1>5, <1>6, <1>7

\* ThreadHandler.hpp 144 and MpMcQueue.hpp 108-122: the thread takes the head of
\* the list, which nobody else has.
LEMMA NextTaskStep ==
  ASSUME IInv, NEW t \in Threads, NextTask(t)
  PROVE  IInv'
<1> USE DEF IInv
<1> DEFINE p == Pool(t)
<1>0. p \in Pools /\ m_queue[p] \in Seq(Blocks)
  BY ThreadFacts, Zenon DEF TypeOK
<1>1. /\ UNCHANGED <<m_map, running, m_running, home, m_stop, main>>
      /\ pc[t] = "next" /\ pc'[t] \in {"test", "run"}
      /\ \A u \in Threads : u # t => pc'[u] = pc[u] /\ torun'[u] = torun[u]
      /\ \A q \in Pools : q # p => m_queue'[q] = m_queue[q]
  BY <1>0 DEF NextTask, poolVars, TypeOK
<1>2. MainOK' /\ Joined'
  BY <1>1, ThreadControl
<1>3. CASE m_queue[p] = <<>>
  <2>1. UNCHANGED m_queue /\ torun' = [torun EXCEPT ![t] = NoBlock]
        /\ pc' = [pc EXCEPT ![t] = "test"]
    BY <1>3 DEF NextTask
  <2>2. TypeOK'
    BY <1>1, <2>1 DEF TypeOK
  <2>3. \A u \in Threads, b \in Blocks : Holds(u, b)' => Holds(u, b)
    BY <1>1, <2>1 DEF Holds, TypeOK
  <2>4. AtHome'
    BY <1>1, <2>1, <2>3 DEF AtHome, Pool
  <2>5. Single'
    BY <1>1, <2>1, <2>3 DEF Single, InQueue, Distinct, Pool
  <2>6. Busy'
    BY <1>1, <2>1 DEF Busy, TypeOK
  <2> QED BY <1>2, <2>2, <2>4, <2>5, <2>6
<1>4. CASE m_queue[p] # <<>>
  <2>0. PICK h : h = Head(m_queue[p])
    OBVIOUS
  <2> DEFINE L == Len(m_queue[p])
  <2>1. /\ torun' = [torun EXCEPT ![t] = h] /\ pc' = [pc EXCEPT ![t] = "run"]
        /\ m_queue' = [m_queue EXCEPT ![p] = Tail(@)]
    BY <1>4, <2>0 DEF NextTask
  <2>2. /\ h \in Blocks /\ h = m_queue[p][1] /\ L \in Nat /\ 1 \in 1 .. L
        /\ Tail(m_queue[p]) \in Seq(Blocks) /\ Len(Tail(m_queue[p])) = L - 1
        /\ \A i \in 1 .. L - 1 : Tail(m_queue[p])[i] = m_queue[p][i + 1]
    BY <1>0, <1>4, <2>0
  <2>3. /\ m_queue'[p] \in Seq(Blocks) /\ Len(m_queue'[p]) = L - 1
        /\ \A i \in 1 .. L - 1 : m_queue'[p][i] = m_queue[p][i + 1] /\ i + 1 \in 1 .. L
    BY <2>1, <2>2, <1>0 DEF TypeOK
  <2>4. TypeOK'
    <3>1. m_queue' \in [Pools -> Seq(Blocks)]
      BY <2>1, <2>2, <1>0 DEF TypeOK
    <3> QED BY <1>1, <2>1, <2>2, <3>1 DEF TypeOK
  <2>5. home[h] = p
    BY <2>2, <1>0 DEF AtHome
  <2>6. \A u \in Threads, b \in Blocks :
          Holds(u, b)' => (u = t /\ b = h) \/ (u # t /\ Holds(u, b))
    BY <1>1, <2>1 DEF Holds, TypeOK
  <2>7. \A q \in Pools, b \in Blocks : InQueue(b, q)' => InQueue(b, q)
    BY <1>1, <2>3 DEF InQueue
  <2>8. ~InQueue(h, p)'
    <3> SUFFICES ASSUME NEW i \in 1 .. L - 1, m_queue'[p][i] = h PROVE FALSE
      BY <2>3 DEF InQueue, Pool
    <3>1. i + 1 \in 1 .. L /\ m_queue[p][i + 1] = m_queue[p][1] /\ i + 1 # 1
      BY <2>2, <2>3
    <3> QED BY <3>1, <2>2, <1>0 DEF Single, Distinct
  <2>9. AtHome'
    <3>1. ASSUME NEW q \in Pools, NEW i \in 1 .. Len(m_queue'[q])
          PROVE  home'[m_queue'[q][i]] = q
      <4>1. \A r \in Pools : \A k \in 1 .. Len(m_queue[r]) : home[m_queue[r][k]] = r
        BY DEF AtHome
      <4>2. CASE q # p
        BY <4>1, <4>2, <1>1
      <4>3. CASE q = p
        <5>1. i \in 1 .. L - 1
          BY <4>3, <2>3
        <5>2. i + 1 \in 1 .. L /\ m_queue'[p][i] = m_queue[p][i + 1]
          BY <5>1, <2>2, <2>3
        <5> QED BY <5>2, <4>1, <4>3, <1>0, <1>1
      <4> QED BY <4>2, <4>3
    <3>2. ASSUME NEW u \in Threads, NEW b \in Blocks, Holds(u, b)'
          PROVE  home'[b] = Pool(u)'
      BY <3>2, <1>1, <2>5, <2>6 DEF AtHome, Pool
    <3> QED BY <3>1, <3>2 DEF AtHome
  <2>10. Single'
    <3>1. ASSUME NEW q \in Pools PROVE Distinct(m_queue[q])'
      <4>1. CASE q # p
        BY <4>1, <1>1 DEF Single, Distinct
      <4>2. CASE q = p
        <5> SUFFICES ASSUME NEW i \in 1 .. L - 1, NEW j \in 1 .. L - 1,
                            m_queue'[p][i] = m_queue'[p][j]
                     PROVE  i = j
          BY <4>2, <2>3 DEF Distinct
        <5>1. m_queue[p][i + 1] = m_queue[p][j + 1]
              /\ i + 1 \in 1 .. L /\ j + 1 \in 1 .. L
          BY <2>3
        <5>2. i + 1 = j + 1
          BY <5>1, <1>0 DEF Single, Distinct
        <5> QED BY <5>2, <2>2
      <4> QED BY <4>1, <4>2
    <3>2. ASSUME NEW u \in Threads, NEW b \in Blocks, Holds(u, b)'
          PROVE  ~InQueue(b, Pool(u))'
      <4>1. Pool(u) \in Pools /\ Pool(u)' = Pool(u)
        BY ThreadFacts DEF Pool
      <4>2. CASE u = t /\ b = h
        BY <4>1, <4>2, <2>8 DEF InQueue, Pool
      <4>3. CASE u # t /\ Holds(u, b)
        <5>1. ~InQueue(b, Pool(u))
          BY <4>3 DEF Single
        <5>2. ~InQueue(b, Pool(u))'
          BY <4>1, <5>1, <2>7 DEF InQueue
        <5> QED BY <5>2
      <4> QED BY <3>2, <4>2, <4>3, <2>6
    <3>3. ASSUME NEW u \in Threads, NEW v \in Threads, NEW b \in Blocks,
                 Holds(u, b)', Holds(v, b)'
          PROVE  u = v
      <4>1. InQueue(h, p)
        BY <2>2 DEF InQueue
      <4>2. \A w \in Threads : ~Holds(w, h)
        <5> SUFFICES ASSUME NEW w \in Threads, Holds(w, h) PROVE FALSE
          OBVIOUS
        <5>1. home[h] = Pool(w) /\ ~InQueue(h, Pool(w))
          BY <2>2 DEF AtHome, Single
        <5> QED BY <5>1, <4>1, <2>5
      <4> QED BY <3>3, <4>2, <2>6 DEF Single
    <3> QED BY <3>1, <3>2, <3>3 DEF Single
  <2>11. Busy'
    BY <1>1, <2>1, <2>2 DEF Busy, TypeOK
  <2> QED BY <1>2, <2>4, <2>9, <2>10, <2>11
<1> QED BY <1>3, <1>4

\* ThreadHandler.hpp 148 and 156: the block returns or throws; the thread keeps
\* it, or forgets it.
LEMMA RunStep ==
  ASSUME IInv, NEW t \in Threads, RunBlock(t) \/ RunThrows(t)
  PROVE  IInv'
<1> USE DEF IInv
<1>1. /\ UNCHANGED <<m_map, running, m_running, m_queue, home, m_stop, torun, main>>
      /\ pc[t] = "run" /\ pc'[t] \in {"done", "test"}
      /\ \A u \in Threads : u # t => pc'[u] = pc[u]
  BY DEF RunBlock, RunThrows, poolVars, TypeOK
<1>2. TypeOK'
  BY Zenon DEF TypeOK, RunBlock, RunThrows, poolVars
<1>3. MainOK' /\ Joined'
  BY <1>1, ThreadControl
<1>4. \A u \in Threads, b \in Blocks : Holds(u, b)' => Holds(u, b)
  BY <1>1 DEF Holds
<1>5. AtHome'
  BY <1>1, <1>4 DEF AtHome, Pool
<1>6. Single'
  BY <1>1, <1>4 DEF Single, InQueue, Distinct, Pool
<1>7. Busy'
  BY <1>1 DEF Busy
<1> QED BY <1>2, <1>3, <1>5, <1>6, <1>7

\* ThreadHandler.hpp 149 and MpMcQueue.hpp 138-142: the thread gives back the
\* block that it alone had.
LEMMA TaskDoneStep ==
  ASSUME IInv, NEW t \in Threads, TaskDone(t)
  PROVE  IInv'
<1> USE DEF IInv
<1> DEFINE p == Pool(t)
           L == Len(m_queue[p])
<1>0. PICK b0 : b0 = torun[t]
  OBVIOUS
<1>1. /\ p \in Pools /\ m_queue[p] \in Seq(Blocks) /\ L \in Nat
      /\ b0 \in Blocks /\ Holds(t, b0) /\ pc[t] = "done"
  <2>1. p \in Pools
    BY ThreadFacts
  <2>2. m_queue[p] \in Seq(Blocks)
    BY <2>1 DEF TypeOK
  <2>3. pc[t] = "done" /\ b0 \in Blocks
    BY <1>0 DEF TaskDone, Busy
  <2> QED BY <2>1, <2>2, <2>3, <1>0 DEF Holds
<1>2. /\ UNCHANGED <<m_map, running, m_running, home, m_stop, main>>
      /\ torun' = [torun EXCEPT ![t] = NoBlock] /\ pc' = [pc EXCEPT ![t] = "test"]
      /\ m_queue' = [m_queue EXCEPT ![p] = Append(@, b0)]
      /\ \A u \in Threads : u # t => pc'[u] = pc[u] /\ torun'[u] = torun[u]
  BY <1>0 DEF TaskDone, poolVars, TypeOK
<1>3. /\ \A q \in Pools : q # p => m_queue'[q] = m_queue[q]
      /\ m_queue'[p] = Append(m_queue[p], b0)
      /\ m_queue'[p] \in Seq(Blocks) /\ Len(m_queue'[p]) = L + 1
      /\ m_queue'[p][L + 1] = b0 /\ \A i \in 1 .. L : m_queue'[p][i] = m_queue[p][i]
  <2>1. m_queue'[p] = Append(m_queue[p], b0)
        /\ \A q \in Pools : q # p => m_queue'[q] = m_queue[q]
    BY <1>1, <1>2 DEF TypeOK
  <2> QED BY <2>1, <1>1
<1>4. MainOK' /\ Joined'
  BY <1>1, <1>2, ThreadControl
<1>5. TypeOK'
  <2>1. m_queue' \in [Pools -> Seq(Blocks)]
    BY <1>1, <1>2, <1>3 DEF TypeOK
  <2> QED BY <1>2, <2>1 DEF TypeOK
<1>6. \A u \in Threads, b \in Blocks : Holds(u, b)' => Holds(u, b) /\ u # t /\ b # b0
  <2> SUFFICES ASSUME NEW u \in Threads, NEW b \in Blocks, Holds(u, b)'
               PROVE  Holds(u, b) /\ u # t /\ b # b0
    OBVIOUS
  <2>1. u # t /\ Holds(u, b)
    BY <1>2 DEF Holds, TypeOK
  <2> QED BY <2>1, <1>1 DEF Single
<1>7. AtHome'
  <2>1. ASSUME NEW q \in Pools, NEW i \in 1 .. Len(m_queue'[q])
        PROVE  home'[m_queue'[q][i]] = q
    <3>1. home[b0] = p
      BY <1>1 DEF AtHome
    <3>2. CASE q = p /\ i = L + 1
      BY <3>1, <3>2, <1>2, <1>3
    <3>3. CASE q = p /\ i # L + 1
      BY <3>3, <1>1, <1>2, <1>3 DEF AtHome
    <3>4. CASE q # p
      BY <3>4, <1>2, <1>3 DEF AtHome
    <3> QED BY <3>2, <3>3, <3>4
  <2>2. ASSUME NEW u \in Threads, NEW b \in Blocks, Holds(u, b)'
        PROVE  home'[b] = Pool(u)'
    BY <2>2, <1>2, <1>6 DEF AtHome, Pool
  <2> QED BY <2>1, <2>2 DEF AtHome
<1>8. Single'
  <2>1. ~InQueue(b0, p)
    BY <1>1 DEF Single
  <2>2. ASSUME NEW q \in Pools PROVE Distinct(m_queue[q])'
    <3>1. CASE q # p
      BY <3>1, <1>3, Zenon DEF Single, Distinct
    <3>2. CASE q = p
      <4> SUFFICES ASSUME NEW i \in 1 .. L + 1, NEW j \in 1 .. L + 1,
                          m_queue'[p][i] = m_queue'[p][j], i < j
                   PROVE  FALSE
        BY <3>2, <1>1, <1>3 DEF Distinct
      <4>1. i \in 1 .. L /\ m_queue'[p][i] = m_queue[p][i]
        BY <1>1, <1>3
      <4>2. CASE j = L + 1
        BY <4>1, <4>2, <1>3, <2>1, Zenon DEF InQueue
      <4>3. CASE j # L + 1
        <5>1. j \in 1 .. L /\ m_queue[p][i] = m_queue[p][j]
          <6>1. j \in 1 .. L
            BY <4>3, <1>1
          <6> QED BY <6>1, <4>1, <1>3, Zenon
        <5>2. i = j
          BY <4>1, <5>1, <1>1 DEF Single, Distinct
        <5> QED BY <5>2, <4>1, <1>1
      <4> QED BY <4>2, <4>3
    <3> QED BY <3>1, <3>2
  <2>3. ASSUME NEW u \in Threads, NEW b \in Blocks, Holds(u, b)'
        PROVE  ~InQueue(b, Pool(u))'
    <3> DEFINE q == Pool(u)
    <3>1. q \in Pools /\ b # b0 /\ ~InQueue(b, q)
      BY <2>3, <1>6, ThreadFacts DEF Single
    <3>2. ASSUME NEW i \in 1 .. Len(m_queue'[q]) PROVE m_queue'[q][i] # b
      <4>1. CASE q # p
        BY <4>1, <3>1, <3>2, <1>3 DEF InQueue
      <4>2. CASE q = p /\ i = L + 1
        BY <4>2, <3>1, <1>3
      <4>3. CASE q = p /\ i # L + 1
        BY <4>3, <3>1, <3>2, <1>1, <1>3 DEF InQueue
      <4> QED BY <4>1, <4>2, <4>3
    <3> QED BY <3>2 DEF InQueue, Pool
  <2>4. ASSUME NEW u \in Threads, NEW v \in Threads, NEW b \in Blocks,
               Holds(u, b)', Holds(v, b)'
        PROVE  u = v
    BY <2>4, <1>6 DEF Single
  <2> QED BY <2>2, <2>3, <2>4 DEF Single
<1>9. Busy'
  BY <1>2 DEF Busy, TypeOK
<1> QED BY <1>4, <1>5, <1>7, <1>8, <1>9
-----------------------------------------------------------------------------
(* start and stop *)

\* What the steps of the main thread between start and stop leave alone.
LEMMA MainStep ==
  ASSUME IInv, UNCHANGED <<m_queue, home, torun>>,
         \A t \in Threads : pc'[t] \in {"run", "done"} => pc'[t] = pc[t]
  PROVE  Busy' /\ AtHome' /\ Single'
<1> USE DEF IInv
<1>1. \A u \in Threads, b \in Blocks : Holds(u, b)' => Holds(u, b)
  BY DEF Holds
<1>2. Busy'
  BY DEF Busy
<1>3. AtHome'
  BY <1>1 DEF AtHome, Pool
<1>4. Single'
  <2>1. \A p \in Pools : Distinct(m_queue[p])'
    BY DEF Single, Distinct
  <2>2. \A t \in Threads, b \in Blocks : Holds(t, b)' => ~InQueue(b, Pool(t))'
    BY <1>1 DEF Single, InQueue, Pool
  <2>3. \A t, u \in Threads, b \in Blocks : Holds(t, b)' /\ Holds(u, b)' => t = u
    BY <1>1 DEF Single
  <2> QED BY <2>1, <2>2, <2>3 DEF Single
<1> QED BY <1>2, <1>3, <1>4

\* PoolManager.hpp 180 and 197: start and stop begin with the first pool.
LEMMA CallStep ==
  ASSUME IInv, Start \/ Stop
  PROVE  IInv'
<1> USE DEF IInv
<1>0. PICK op \in {"start", "stop"} :
        /\ main = Idle /\ running' = (op = "start")
        /\ running # running' /\ main' = FirstPool(op)
        /\ UNCHANGED <<m_map, m_running, home, m_queue, m_stop, pc, torun>>
  BY Zenon DEF Start, Stop, poolVars, threadVars, TypeOK
<1>1. m_map \subseteq Pools /\ main.op = "idle"
  BY <1>0 DEF TypeOK, Idle
<1>2. Busy' /\ AtHome' /\ Single'
  BY <1>0, MainStep
<1>3. \/ main' = Idle /\ m_map = {}
      \/ /\ main' = [op |-> op, pool |-> main'.pool, i |-> 1]
         /\ main'.pool \in m_map /\ \A q \in m_map : main'.pool <= q
  BY <1>0, <1>1, FirstPoolFacts
<1>4. CASE main' = Idle /\ m_map = {}
  <2>1. TypeOK'
    BY <1>0, <1>4 DEF TypeOK, Idle
  <2>2. MainOK'
    BY <1>4 DEF MainOK, Idle
  <2>3. \A t \in Threads : pc'[t] = "none"
    BY <1>0, <1>4 DEF Joined
  <2>4. Joined'
    BY <2>3 DEF Joined
  <2> QED BY <1>2, <2>1, <2>2, <2>4
<1>5. CASE /\ main' = [op |-> op, pool |-> main'.pool, i |-> 1]
           /\ main'.pool \in m_map /\ \A q \in m_map : main'.pool <= q
  <2>0. main' # Idle
    BY <1>5 DEF Idle
  <2>1. /\ main'.op = op /\ main'.i = 1 /\ main'.pool \in Pools
        /\ main'.pool \in m_map /\ \A q \in m_map : main'.pool <= q
        /\ main' \in [op : {"idle", "start", "stop", "join"},
                      pool : Pools \cup {NoPool}, i : Nat]
    BY <1>5, <1>1
  <2>2. TypeOK'
    BY <1>0, <2>1 DEF TypeOK
  <2>3. MainOK'
    BY <1>0, <2>1, ThreadFacts, Zenon DEF MainOK, Placed
  <2>4. ASSUME NEW t \in Threads, Passed(t)' PROVE pc[t] = "none"
    <3>1. Pool(t) \in Pools /\ t[2] \in Nat /\ t[2] >= 1 /\ m_map \subseteq Nat
          /\ Pool(t)' = Pool(t)
      BY ThreadFacts, <1>1 DEF Pool
    <3>2. ~(Pool(t) < main'.pool) \/ Pool(t) \notin m_map
      <4>1. Pool(t) \in Nat /\ main'.pool \in Nat
        BY <3>1, <2>1, ThreadFacts, Zenon
      <4>2. Pool(t) \in m_map => main'.pool <= Pool(t)
        BY <2>1
      <4> QED BY <4>1, <4>2
    <3>3. ~(t[2] < main'.i)
      BY <3>1, <2>1
    <3>4. Pool(t) \notin m_map
      BY <3>1, <3>2, <3>3, <2>4, <1>0 DEF Passed
    <3> QED BY <3>4 DEF Joined
  <2>5. Joined'
    BY <1>0, <2>0, <2>4 DEF Joined, Idle, Pool
  <2> QED BY <1>2, <2>2, <2>3, <2>5
<1> QED BY <1>3, <1>4, <1>5

\* The loops over the threads of a pool and over the pools go to the next thread,
\* to the next pool, or end (ThreadPool.hpp 104-123).
LEMMA AdvanceFacts ==
  ASSUME TypeOK, Placed, NEW op
  PROVE  LET n == Advance(op) IN
         \/ /\ n = Idle /\ main.i = Size[main.pool]
            /\ \A q \in m_map : q <= main.pool
         \/ /\ n = [op |-> op, pool |-> main.pool, i |-> main.i + 1]
            /\ main.i + 1 \in 1 .. Size[main.pool]
         \/ /\ n = [op |-> op, pool |-> n.pool, i |-> 1] /\ main.i = Size[main.pool]
            /\ n.pool \in m_map /\ main.pool < n.pool
            /\ \A q \in m_map : main.pool < q => n.pool <= q
<1>1. main.pool \in Pools /\ m_map \subseteq Pools /\ main.i \in 1 .. Size[main.pool]
      /\ Size[main.pool] \in Nat
  BY ThreadFacts, Zenon DEF TypeOK, Placed
<1>2. CASE main.i < Size[main.pool]
  BY <1>1, <1>2 DEF Advance
<1>3. CASE ~(main.i < Size[main.pool])
  <2>1. main.i = Size[main.pool]
    BY <1>1, <1>3
  <2>2. Advance(op) = NextPool(op, main.pool)
    BY <1>3 DEF Advance
  <2> QED BY <2>1, <2>2, <1>1, NextPoolFacts
<1> QED BY <1>2, <1>3

\* The place the loop comes to is a place of the loop.
LEMMA AdvancePlace ==
  ASSUME TypeOK, Placed, NEW op \in {"start", "stop"}, main' = Advance(op),
         UNCHANGED m_map
  PROVE  /\ main' \in [op : {"idle", "start", "stop", "join"},
                       pool : Pools \cup {NoPool}, i : Nat]
         /\ main' = Idle \/ (main'.op = op /\ Placed')
<1>1. main.pool \in Pools /\ m_map \subseteq Pools /\ main.i \in 1 .. Size[main.pool]
      /\ \A p \in Pools : Size[p] \in Nat /\ 1 \in 1 .. Size[p]
  BY ThreadFacts, Zenon DEF TypeOK, Placed
<1>2. CASE main' = Idle
  BY <1>2 DEF Idle
<1>3. CASE /\ main' = [op |-> op, pool |-> main.pool, i |-> main.i + 1]
           /\ main.i + 1 \in 1 .. Size[main.pool]
  <2>1. main'.op = op /\ main'.pool = main.pool /\ main'.i = main.i + 1
    BY <1>3
  <2> QED BY <2>1, <1>3, <1>1 DEF Placed
<1>4. CASE main' = [op |-> op, pool |-> main'.pool, i |-> 1] /\ main'.pool \in m_map
  <2>1. main'.op = op /\ main'.i = 1 /\ main'.pool \in Pools
    BY <1>4, <1>1
  <2> QED BY <2>1, <1>4, <1>1 DEF Placed
<1> QED BY <1>2, <1>3, <1>4, AdvanceFacts

\* ThreadPool::run starts one more thread (ThreadPool.hpp 104-110).
LEMMA StartThreadStep ==
  ASSUME IInv, StartThread
  PROVE  IInv'
<1> USE DEF IInv
<1> DEFINE t0 == <<main.pool, main.i>>
<1>0. /\ main.op = "start" /\ main' = Advance("start")
      /\ pc' = [pc EXCEPT ![t0] = "begin"]
      /\ m_running' = [m_running EXCEPT ![main.pool] = LastThread]
      /\ UNCHANGED <<m_map, running, m_queue, home, m_stop, torun>>
  BY DEF StartThread
<1>1. running /\ Placed
  BY <1>0 DEF MainOK, Idle
<1>2. t0 \in Threads /\ Pool(t0) \in m_map
  BY <1>1, ThreadFacts, Zenon DEF Placed, TypeOK
<1>3. /\ main' \in [op : {"idle", "start", "stop", "join"},
                    pool : Pools \cup {NoPool}, i : Nat]
      /\ main' = Idle \/ (main'.op = "start" /\ Placed')
  BY <1>0, <1>1, AdvancePlace
<1> HIDE DEF t0
<1>4. \A t \in Threads : pc'[t] = IF t = t0 THEN "begin" ELSE pc[t]
  BY <1>0, <1>2 DEF TypeOK
<1>5. Busy' /\ AtHome' /\ Single'
  BY <1>0, <1>4, MainStep
<1>6. TypeOK'
  <2>1. m_running' \in [Pools -> BOOLEAN]
    BY <1>0, Zenon DEF TypeOK, LastThread
  <2>2. pc' \in [Threads -> {"none", "begin", "test", "next", "run", "done", "exit",
                             "exited"}]
    BY <1>0, Zenon DEF TypeOK
  <2> QED BY <2>1, <2>2, <1>0, <1>3 DEF TypeOK
<1>7. MainOK'
  BY <1>0, <1>1, <1>3 DEF MainOK
<1>8. Joined'
  <2>1. main'.op \notin {"stop", "join"}
    BY <1>3 DEF Idle
  <2>2. \A t \in Threads : Pool(t)' \notin m_map' => pc'[t] = "none"
    BY <1>0, <1>2, <1>4 DEF Joined, Pool
  <2> QED BY <2>1, <2>2, <1>0, <1>1 DEF Joined
<1> QED BY <1>5, <1>6, <1>7, <1>8

\* ThreadHandler::stop sets m_stop of the thread (ThreadHandler.hpp 166-168).
LEMMA StopThreadStep ==
  ASSUME IInv, StopThread
  PROVE  IInv'
<1> USE DEF IInv
<1>0. /\ main.op = "stop" /\ main' = [main EXCEPT !.op = "join"]
      /\ m_stop' = [m_stop EXCEPT ![<<main.pool, main.i>>] = TRUE]
      /\ UNCHANGED <<m_map, m_running, home, running, m_queue, pc, torun>>
  BY DEF StopThread, poolVars
<1>1. ~running /\ Placed
  BY <1>0 DEF MainOK, Idle
<1>2. /\ main'.op = "join" /\ main'.pool = main.pool /\ main'.i = main.i
      /\ main' \in [op : {"idle", "start", "stop", "join"},
                    pool : Pools \cup {NoPool}, i : Nat]
  BY <1>0, Zenon DEF TypeOK
<1>3. Busy' /\ AtHome' /\ Single'
  BY <1>0, MainStep
<1>4. TypeOK'
  <2>1. m_stop' \in [Threads -> BOOLEAN]
    BY <1>0, Zenon DEF TypeOK
  <2> QED BY <2>1, <1>0, <1>2 DEF TypeOK
<1>5. MainOK'
  BY <1>0, <1>1, <1>2 DEF MainOK, Placed
<1>6. Joined'
  <2>1. main' # Idle
    BY <1>2 DEF Idle
  <2>2. \A t \in Threads : Passed(t)' => Passed(t)
    BY <1>0, <1>2 DEF Passed, Pool
  <2> QED BY <2>1, <2>2, <1>0 DEF Joined, Pool
<1> QED BY <1>3, <1>4, <1>5, <1>6

\* ThreadHandler::stop returns when the thread has ended (ThreadHandler.hpp 169).
LEMMA JoinThreadStep ==
  ASSUME IInv, JoinThread
  PROVE  IInv'
<1> USE DEF IInv
<1> DEFINE t0 == <<main.pool, main.i>>
<1>0. /\ main.op = "join" /\ main' = Advance("stop")
      /\ pc' = [pc EXCEPT ![t0] = "none"]
      /\ m_running' = [m_running EXCEPT ![main.pool] = ~LastThread]
      /\ UNCHANGED <<m_map, running, m_queue, home, m_stop, torun>>
  BY DEF JoinThread
<1>1. ~running /\ Placed
  BY <1>0 DEF MainOK, Idle
<1>2. t0 \in Threads /\ main.pool \in Pools /\ main.i \in Nat /\ Size[main.pool] \in Nat
  BY <1>1, ThreadFacts, Zenon DEF Placed, TypeOK
<1>3. /\ main' \in [op : {"idle", "start", "stop", "join"},
                    pool : Pools \cup {NoPool}, i : Nat]
      /\ main' = Idle \/ (main'.op = "stop" /\ Placed')
  BY <1>0, <1>1, AdvancePlace
<1>4. \A t \in Threads : pc'[t] = IF t = t0 THEN "none" ELSE pc[t]
  BY <1>0, <1>2 DEF TypeOK
<1>5. Busy' /\ AtHome' /\ Single'
  BY <1>0, <1>4, MainStep
<1>6. TypeOK'
  <2>1. m_running' \in [Pools -> BOOLEAN]
    BY <1>0, Zenon DEF TypeOK, LastThread
  <2>2. pc' \in [Threads -> {"none", "begin", "test", "next", "run", "done", "exit",
                             "exited"}]
    BY <1>0, Zenon DEF TypeOK
  <2> QED BY <2>1, <2>2, <1>0, <1>3 DEF TypeOK
<1>7. MainOK'
  BY <1>0, <1>1, <1>3 DEF MainOK
<1>8. ASSUME NEW t \in Threads, t = t0 \/ Passed(t) PROVE pc'[t] = "none"
  BY <1>0, <1>4, <1>8 DEF Joined
<1>9. ASSUME NEW t \in Threads,
             \/ Pool(t) \notin m_map
             \/ Pool(t) <= main.pool /\ main.i = Size[main.pool]
             \/ Pool(t) = main.pool /\ t[2] <= main.i
             \/ Pool(t) < main.pool
      PROVE  pc'[t] = "none"
  <2>1. /\ Pool(t) \in Nat /\ main.pool \in Nat /\ t[2] \in Nat
        /\ t[2] <= Size[Pool(t)] /\ t = <<Pool(t), t[2]>>
    <3>1. /\ Pool(t) \in Pools /\ t[2] \in 1 .. Size[Pool(t)] /\ Pools \subseteq Nat
          /\ Size[Pool(t)] \in Nat /\ t = <<Pool(t), t[2]>>
      BY ThreadFacts, Zenon
    <3>2. Pool(t) \in Nat /\ main.pool \in Nat
      BY <3>1, <1>2, Zenon
    <3> HIDE DEF t0
    <3> QED BY <3>1, <3>2
  <2>2. \/ Pool(t) \notin m_map \/ Pool(t) < main.pool
        \/ Pool(t) = main.pool /\ t[2] <= main.i
    BY <2>1, <1>9
  <2>3. CASE Pool(t) \notin m_map \/ Pool(t) < main.pool
    BY <2>3, <1>8 DEF Passed
  <2>4. CASE Pool(t) = main.pool /\ t[2] <= main.i
    <3>1. CASE t[2] = main.i
      BY <3>1, <2>1, <2>4, <1>8
    <3>2. CASE t[2] < main.i
      BY <3>2, <2>4, <1>8 DEF Passed
    <3> QED BY <3>1, <3>2, <2>1, <2>4, <1>2
  <2> QED BY <2>2, <2>3, <2>4
<1>10. Joined'
  <2>0. \A t \in Threads : Pool(t)' = Pool(t)
    BY DEF Pool
  <2>1. \A t \in Threads : Pool(t) \notin m_map => pc'[t] = "none"
    BY <1>9
  <2>2. CASE /\ main' = Idle /\ main.i = Size[main.pool]
             /\ \A q \in m_map : q <= main.pool
    <3>1. \A t \in Threads : pc'[t] = "none"
      BY <2>2, <1>9
    <3> QED BY <3>1 DEF Joined
  <2>3. CASE /\ main' = [op |-> "stop", pool |-> main.pool, i |-> main.i + 1]
             /\ main.i + 1 \in 1 .. Size[main.pool]
    <3>1. main'.op = "stop" /\ main'.pool = main.pool /\ main'.i = main.i + 1
          /\ main' # Idle
      BY <2>3 DEF Idle
    <3>2. ASSUME NEW t \in Threads, Passed(t)' PROVE pc'[t] = "none"
      <4>1. t[2] \in Nat
        BY ThreadFacts
      <4>2. \/ Pool(t) \notin m_map \/ Pool(t) < main.pool
            \/ Pool(t) = main.pool /\ t[2] < main.i + 1
        BY <3>1, <3>2, <2>0, <1>0 DEF Passed
      <4>3. t[2] < main.i + 1 => t[2] <= main.i
        BY <4>1, <1>2
      <4> QED BY <4>2, <4>3, <1>9
    <3> QED BY <3>1, <3>2, <2>0, <2>1, <1>0 DEF Joined
  <2>4. CASE /\ main' = [op |-> "stop", pool |-> main'.pool, i |-> 1]
             /\ main.i = Size[main.pool]
             /\ main'.pool \in m_map /\ main.pool < main'.pool
             /\ \A q \in m_map : main.pool < q => main'.pool <= q
    <3>1. main'.op = "stop" /\ main'.i = 1 /\ main' # Idle
      BY <2>4 DEF Idle
    <3>2. ASSUME NEW t \in Threads, Passed(t)' PROVE pc'[t] = "none"
      <4>1. /\ t[2] \in Nat /\ t[2] >= 1 /\ Pool(t) \in Nat /\ main.pool \in Nat
            /\ main'.pool \in Nat
        BY ThreadFacts, <1>2, <2>4 DEF TypeOK
      <4>2. Pool(t) \notin m_map \/ Pool(t) < main'.pool
        BY <3>1, <3>2, <4>1, <2>0, <1>0 DEF Passed
      <4>3. Pool(t) \in m_map => Pool(t) <= main.pool
        BY <4>1, <4>2, <2>4
      <4> QED BY <4>3, <2>4, <1>9
    <3> QED BY <3>1, <3>2, <2>0, <2>1, <1>0 DEF Joined
  <2> QED BY <2>2, <2>3, <2>4, <1>0, <1>1, AdvanceFacts
<1> QED BY <1>5, <1>6, <1>7, <1>10

-----------------------------------------------------------------------------
(* Configuration steps *)

\* No thread exists while the pools are configured: only the lists have to be
\* looked at (bmprocess.py 119 and 135 stop the schedulers first).
LEMMA QuietStep ==
  ASSUME IInv, main = Idle, ~running, UNCHANGED <<running, pc, main>>, TypeOK',
         \A p \in Pools : \A i \in 1 .. Len(m_queue'[p]) : home'[m_queue'[p][i]] = p,
         \A p \in Pools : Distinct(m_queue'[p])
  PROVE  IInv'
<1> USE DEF IInv
<1>1. \A t \in Threads : pc'[t] = "none"
  BY DEF Joined
<1>2. \A t \in Threads, b \in Blocks : ~Holds(t, b)'
  BY <1>1 DEF Holds
<1>3. MainOK'
  BY DEF MainOK
<1>4. Joined'
  BY <1>1 DEF Joined
<1>5. Busy'
  BY <1>1 DEF Busy
<1>6. AtHome'
  BY <1>2 DEF AtHome
<1>7. Single'
  <2>1. \A p \in Pools : Distinct(m_queue[p])'
    BY DEF Distinct
  <2> QED BY <2>1, <1>2 DEF Single
<1> QED BY <1>3, <1>4, <1>5, <1>6, <1>7

\* PoolManager::create_pool and delete_pool (PoolManager.hpp 98-121).
LEMMA PoolStep ==
  ASSUME IInv, NEW p \in Pools, CreatePool(p) \/ DeletePool(p)
  PROVE  IInv'
<1> USE DEF IInv
<1>1. /\ main = Idle /\ ~running /\ UNCHANGED <<running, home, pc, main>>
      /\ \A q \in Pools : m_queue'[q] = m_queue[q] \/ m_queue'[q] = <<>>
  BY DEF CreatePool, DeletePool, threadVars, TypeOK
<1>2. TypeOK'
  <2>1. CASE CreatePool(p)
    <3>1. m_queue' \in [Pools -> Seq(Blocks)]
      BY <2>1 DEF CreatePool, TypeOK
    <3>2. m_running' \in [Pools -> BOOLEAN] /\ m_map' \subseteq Pools
      BY <2>1 DEF CreatePool, TypeOK
    <3>3. /\ torun' \in [Threads -> Blocks \cup {NoBlock}]
          /\ m_stop' \in [Threads -> BOOLEAN]
      BY <2>1 DEF CreatePool, TypeOK
    <3> QED BY <3>1, <3>2, <3>3, <1>1 DEF TypeOK
  <2>2. CASE DeletePool(p)
    BY <2>2 DEF DeletePool, threadVars, TypeOK
  <2> QED BY <2>1, <2>2
<1>3. ASSUME NEW q \in Pools, NEW i \in 1 .. Len(m_queue'[q])
      PROVE  home'[m_queue'[q][i]] = q
  <2>1. m_queue'[q] = m_queue[q]
    BY <1>1
  <2> QED BY <2>1, <1>1 DEF AtHome
<1>4. ASSUME NEW q \in Pools PROVE Distinct(m_queue'[q])
  <2>1. CASE m_queue'[q] = m_queue[q]
    BY <2>1 DEF Single
  <2>2. CASE m_queue'[q] = <<>>
    BY <2>2 DEF Distinct
  <2> QED BY <2>1, <2>2, <1>1
<1> QED BY <1>1, <1>2, <1>3, <1>4, QuietStep

\* PoolManager::add_to_pool: the block was in no list (PoolManager.hpp 129-143).
LEMMA AddStep ==
  ASSUME IInv, NEW b \in Blocks, NEW p \in Pools, AddToPool(b, p)
  PROVE  IInv'
<1> USE DEF IInv
<1> DEFINE L == Len(m_queue[p])
<1>1. /\ main = Idle /\ ~running /\ home[b] = NoPool
      /\ UNCHANGED <<m_map, running, m_running, m_stop, pc, torun, main>>
      /\ home' = [home EXCEPT ![b] = p]
      /\ m_queue' = [m_queue EXCEPT ![p] = Append(m_queue[p], b)]
  BY DEF AddToPool, threadVars
<1>2. /\ m_queue[p] \in Seq(Blocks) /\ m_queue'[p] = Append(m_queue[p], b)
      /\ \A q \in Pools \ {p} : m_queue'[q] = m_queue[q]
      /\ home'[b] = p /\ \A c \in Blocks \ {b} : home'[c] = home[c]
  BY <1>1 DEF TypeOK
<1>3. /\ L \in Nat /\ Len(m_queue'[p]) = L + 1 /\ m_queue'[p][L + 1] = b
      /\ \A i \in 1 .. L : m_queue'[p][i] = m_queue[p][i]
  BY <1>2
<1>4. TypeOK'
  <2>1. m_queue' \in [Pools -> Seq(Blocks)]
    BY <1>1, <1>2 DEF TypeOK
  <2>2. home' \in [Blocks -> Pools \cup {NoPool}]
    BY <1>1 DEF TypeOK
  <2> QED BY <2>1, <2>2, <1>1 DEF TypeOK
<1>5. \A q \in Pools : \A i \in 1 .. Len(m_queue[q]) :
         m_queue[q][i] \in Blocks /\ m_queue[q][i] # b /\ home[m_queue[q][i]] = q
  <2> SUFFICES ASSUME NEW q \in Pools, NEW i \in 1 .. Len(m_queue[q])
               PROVE  m_queue[q][i] \in Blocks /\ m_queue[q][i] # b
                      /\ home[m_queue[q][i]] = q
    OBVIOUS
  <2>1. home[m_queue[q][i]] = q
    BY DEF AtHome
  <2>2. m_queue[q] \in Seq(Blocks)
    BY DEF TypeOK
  <2>3. m_queue[q][i] \in Blocks
    BY <2>2
  <2> QED BY <2>1, <2>3, <1>1, ThreadFacts
<1> HIDE DEF L
<1>6. ASSUME NEW q \in Pools, NEW i \in 1 .. Len(m_queue'[q])
      PROVE  home'[m_queue'[q][i]] = q
  <2>1. CASE q # p
    BY <2>1, <1>2, <1>5
  <2>2. CASE q = p /\ i = L + 1
    BY <2>2, <1>2, <1>3
  <2>3. CASE q = p /\ i # L + 1
    <3>1. i \in 1 .. L
      BY <2>3, <1>3
    <3> QED BY <3>1, <2>3, <1>2, <1>3, <1>5 DEF L
  <2> QED BY <2>1, <2>2, <2>3
<1>7. ASSUME NEW q \in Pools PROVE Distinct(m_queue'[q])
  <2>1. CASE q # p
    BY <2>1, <1>2 DEF Single
  <2>2. CASE q = p
    <3> SUFFICES ASSUME NEW i \in 1 .. L + 1, NEW j \in 1 .. L + 1, i < j,
                        m_queue'[p][i] = m_queue'[p][j]
                 PROVE  FALSE
      BY <2>2, <1>3 DEF Distinct
    <3>1. i \in 1 .. L
      BY <1>3
    <3>2. CASE j = L + 1
      BY <3>1, <3>2, <1>3, <1>5 DEF L
    <3>3. CASE j # L + 1
      <4>1. j \in 1 .. L
        BY <3>3, <1>3
      <4>2. m_queue[p][i] = m_queue[p][j]
        BY <4>1, <3>1, <1>3
      <4> QED BY <4>1, <4>2, <3>1, <1>3 DEF L, Single, Distinct
    <3> QED BY <3>2, <3>3
  <2> QED BY <2>1, <2>2, SMTT(30)
<1> QED BY <1>1, <1>4, <1>6, <1>7, QuietStep

\* PoolManager::remove_from_pool (PoolManager.hpp 151-165).
LEMMA RemoveStep ==
  ASSUME IInv, NEW b \in Blocks, RemoveFromPool(b)
  PROVE  IInv'
<1> USE DEF IInv
<1> DEFINE p == home[b]
           w == Without(m_queue[p], b)
<1>1. /\ main = Idle /\ ~running /\ p \in Pools
      /\ UNCHANGED <<m_map, running, m_running, m_stop, pc, torun, main>>
      /\ home' = [home EXCEPT ![b] = NoPool]
      /\ m_queue' = [m_queue EXCEPT ![p] = w]
  BY DEF RemoveFromPool, threadVars, TypeOK
<1>2. m_queue[p] \in Seq(Blocks)
  BY <1>1 DEF TypeOK
<1>3. /\ w \in Seq(Blocks)
      /\ \A i \in 1 .. Len(w) : w[i] # b /\ \E j \in 1 .. Len(m_queue[p]) :
                                               m_queue[p][j] = w[i]
      /\ Distinct(m_queue[p]) => Distinct(w)
  BY <1>2, WithoutProperties
<1>4. PICK q0, w0 : q0 = p /\ w0 = w
  OBVIOUS
<1> HIDE DEF p, w
<1>5. /\ m_queue'[q0] = w0
      /\ \A q \in Pools \ {q0} : m_queue'[q] = m_queue[q]
      /\ \A c \in Blocks \ {b} : home'[c] = home[c]
  BY <1>1, <1>4 DEF TypeOK
<1>6. TypeOK'
  <2>1. m_queue' \in [Pools -> Seq(Blocks)]
    BY <1>1, <1>3 DEF TypeOK
  <2>2. home' \in [Blocks -> Pools \cup {NoPool}]
    BY <1>1, SMTT(30) DEF TypeOK
  <2> QED BY <2>1, <2>2, <1>1 DEF TypeOK
<1>7. \A q \in Pools : \A i \in 1 .. Len(m_queue[q]) :
         m_queue[q][i] \in Blocks /\ home[m_queue[q][i]] = q
  <2>1. \A q \in Pools : m_queue[q] \in Seq(Blocks)
    BY DEF TypeOK
  <2> QED BY <2>1 DEF AtHome
<1>8. ASSUME NEW q \in Pools, NEW i \in 1 .. Len(m_queue'[q])
      PROVE  home'[m_queue'[q][i]] = q
  <2>1. CASE q # q0
    <3>1. m_queue[q][i] \in Blocks /\ home[m_queue[q][i]] = q
          /\ m_queue'[q] = m_queue[q]
      BY <2>1, <1>5, <1>7
    <3>2. m_queue[q][i] # b
      BY <3>1, <2>1, <1>4 DEF p
    <3> QED BY <3>1, <3>2, <1>5
  <2>2. CASE q = q0
    <3>1. PICK j \in 1 .. Len(m_queue[p]) : m_queue[p][j] = w[i]
      BY <2>2, <1>3, <1>4, <1>5
    <3>2. w[i] # b
      BY <2>2, <1>3, <1>4, <1>5
    <3>3. m_queue[p][j] \in Blocks /\ home[m_queue[p][j]] = p
      BY <3>1, <1>1, <1>7
    <3>4. w[i] \in Blocks /\ home[w[i]] = p
      BY <3>1, <3>3, Zenon
    <3> QED BY <2>2, <3>2, <3>4, <1>4, <1>5
  <2> QED BY <2>1, <2>2
<1>9. ASSUME NEW q \in Pools PROVE Distinct(m_queue'[q])
  <2>1. \A r \in Pools : Distinct(m_queue[r])
    BY DEF Single
  <2>2. CASE q # q0
    BY <2>1, <2>2, <1>5
  <2>3. CASE q = q0
    BY <2>1, <2>3, <1>1, <1>3, <1>4, <1>5
  <2> QED BY <2>2, <2>3
<1> QED BY <1>1, <1>6, <1>8, <1>9, QuietStep

-----------------------------------------------------------------------------
(* The theorems *)

\* Every step of the pool manager and of the pool threads keeps the invariant.
LEMMA NextIInv == IInv /\ [Next]_vars => IInv'
<1> SUFFICES ASSUME IInv, [Next]_vars PROVE IInv'
  OBVIOUS
<1>1. CASE Configure
  BY <1>1, PoolStep, AddStep, RemoveStep DEF Configure
<1>2. CASE Start \/ Stop
  BY <1>2, CallStep
<1>3. CASE MainProgress
  BY <1>3, StartThreadStep, StopThreadStep, JoinThreadStep DEF MainProgress
<1>4. ASSUME NEW t \in Threads, ThreadStep(t) \/ RunThrows(t) PROVE IInv'
  BY <1>4, LoopStep, NextTaskStep, RunStep, TaskDoneStep DEF ThreadStep
<1>5. CASE UNCHANGED vars
  <2>1. UNCHANGED <<m_map, running, m_running, m_queue, home, m_stop, pc, torun, main>>
    BY <1>5 DEF vars
  <2>2. TypeOK'
    BY <2>1 DEF IInv, TypeOK
  <2>3. MainOK' /\ Joined'
    BY <2>1 DEF IInv, MainOK, Placed, Joined, Passed, Pool
  <2>4. Busy' /\ AtHome' /\ Single'
    BY <2>1, MainStep
  <2> QED BY <2>2, <2>3, <2>4 DEF IInv
<1> QED BY <1>1, <1>2, <1>3, <1>4, <1>5 DEF Next, NormalNext

\* The invariant holds throughout.
LEMMA Invariance == Spec => []IInv
BY InitIInv, NextIInv, PTL DEF Spec

\* Of any number of pools, threads and blocks, with blocks that throw and pools
\* that are created, changed, started and stopped at any time: the variables of
\* PoolManager, ThreadPool and ThreadHandler keep their types.
THEOREM PoolTypeCorrect == Spec => []TypeOK
BY Invariance, PTL DEF IInv

\* ThreadHandler.hpp 144-149: whatever the sizes of the pools, a block is run by
\* at most one thread at a time, a thread of the pool it was added to.
THEOREM ExclusiveBlocks == Spec => []ExclusiveRun
<1>1. IInv => ExclusiveRun
  BY DEF IInv, ExclusiveRun, AtHome, Single
<1> QED BY <1>1, Invariance, PTL

-----------------------------------------------------------------------------
(* Stop: no thread is left, and every block is in the list of its pool     *)
(* once, if no block throws.                                               *)

\* A block that was added to a pool is in its list, or a thread holds it.
Kept ==
  \A b \in Blocks :
    home[b] # NoPool => /\ home[b] \in m_map
                        /\ InQueue(b, home[b]) \/ \E t \in Threads : Holds(t, b)

\* start has not come to the thread yet.
Ahead(t) == \/ main.pool < Pool(t)
            \/ Pool(t) = main.pool /\ main.i <= t[2]

Unstarted == main.op = "start" => \A t \in Threads : Ahead(t) => pc[t] = "none"

\* m_running is false for the pools that stop has passed.
Stopped ==
  /\ main = Idle /\ ~running => \A p \in m_map : ~m_running[p]
  /\ main.op \in {"stop", "join"} =>
       \A p \in m_map : p < main.pool => ~m_running[p]

QInv == IInv /\ Kept /\ Unstarted /\ Stopped

\* Nothing was added to a pool yet, and no pool exists (PoolManager.hpp 98-121).
LEMMA InitQInv == Init => QInv
<1> SUFFICES ASSUME Init PROVE QInv
  OBVIOUS
<1>1. IInv
  BY InitIInv
<1>2. Kept
  BY DEF Init, Kept
<1>3. Unstarted /\ Stopped
  BY DEF Init, Unstarted, Stopped, Idle
<1> QED BY <1>1, <1>2, <1>3 DEF QInv

-----------------------------------------------------------------------------
(* Blocks are kept *)

\* Steps that leave the lists alone keep the blocks if no thread drops one.
LEMMA KeptSame ==
  ASSUME Kept, UNCHANGED <<m_map, home, m_queue>>,
         \A t \in Threads, b \in Blocks : Holds(t, b) => Holds(t, b)'
  PROVE  Kept'
<1> SUFFICES ASSUME NEW b \in Blocks, home'[b] # NoPool
             PROVE  /\ home'[b] \in m_map'
                    /\ InQueue(b, home[b])' \/ \E t \in Threads : Holds(t, b)'
  BY DEF Kept
<1>1. home[b] \in m_map /\ (InQueue(b, home[b]) \/ \E t \in Threads : Holds(t, b))
  BY DEF Kept
<1>2. InQueue(b, home[b]) => InQueue(b, home[b])'
  BY DEF InQueue
<1> QED BY <1>1, <1>2

\* next_task hands the head of the list to the thread (MpMcQueue.hpp 108-122).
LEMMA NextTaskKeeps ==
  ASSUME IInv, Kept, NEW t \in Threads, NextTask(t)
  PROVE  Kept'
<1> USE DEF IInv
<1> DEFINE p == Pool(t)
<1>1. /\ p \in Pools /\ m_queue[p] \in Seq(Blocks) /\ pc[t] = "next"
      /\ UNCHANGED <<m_map, home>>
  BY ThreadFacts, Zenon DEF TypeOK, NextTask, poolVars
<1>2. \A u \in Threads : u # t => pc'[u] = pc[u] /\ torun'[u] = torun[u]
  BY DEF NextTask, TypeOK
<1>3. \A u \in Threads, b \in Blocks : Holds(u, b) => Holds(u, b)'
  BY <1>1, <1>2 DEF Holds
<1>4. CASE m_queue[p] = <<>>
  <2>1. UNCHANGED m_queue
    BY <1>4 DEF NextTask
  <2> QED BY <2>1, <1>1, <1>3, KeptSame
<1>5. CASE m_queue[p] # <<>>
  <2> DEFINE L == Len(m_queue[p])
  <2>0. PICK h : h = Head(m_queue[p])
    OBVIOUS
  <2>1. /\ torun' = [torun EXCEPT ![t] = h] /\ pc' = [pc EXCEPT ![t] = "run"]
        /\ m_queue' = [m_queue EXCEPT ![p] = Tail(m_queue[p])]
    BY <1>5, <2>0 DEF NextTask
  <2>2. Holds(t, h)'
    <3>1. pc'[t] = "run" /\ torun'[t] = h
      BY <2>1 DEF TypeOK
    <3> QED BY <3>1 DEF Holds
  <2>3. /\ L \in Nat /\ h = m_queue[p][1] /\ m_queue'[p] = Tail(m_queue[p])
        /\ \A q \in Pools \ {p} : m_queue'[q] = m_queue[q]
    BY <1>1, <1>5, <2>0, <2>1 DEF TypeOK
  <2>4. /\ Len(m_queue'[p]) = L - 1
        /\ \A i \in 1 .. L - 1 : m_queue'[p][i] = m_queue[p][i + 1]
    <3> DEFINE s == m_queue[p]
    <3>1. s \in Seq(Blocks) /\ s # <<>> /\ m_queue'[p] = Tail(s) /\ L = Len(s)
      BY <1>1, <1>5, <2>3
    <3> HIDE DEF s
    <3> QED BY <3>1 DEF s
  <2> HIDE DEF L
  <2>5. ASSUME NEW b \in Blocks, NEW q \in Pools, InQueue(b, q), b # h
        PROVE  InQueue(b, q)'
    <3>1. PICK i \in 1 .. Len(m_queue[q]) : m_queue[q][i] = b
      BY <2>5 DEF InQueue
    <3>2. CASE q # p
      BY <3>1, <3>2, <2>3 DEF InQueue
    <3>3. CASE q = p
      <4>1. i \in 1 .. L /\ i # 1
        BY <3>1, <3>3, <2>3, <2>5 DEF L
      <4>2. i - 1 \in 1 .. L - 1 /\ (i - 1) + 1 = i
        BY <4>1, <2>3
      <4>3. m_queue'[p][i - 1] = b /\ i - 1 \in 1 .. Len(m_queue'[p])
        BY <4>2, <3>1, <3>3, <2>4, SMTT(30)
      <4> QED BY <4>3, <3>3 DEF InQueue
    <3> QED BY <3>2, <3>3
  <2>6. ASSUME NEW b \in Blocks, home'[b] # NoPool
        PROVE  /\ home'[b] \in m_map'
               /\ InQueue(b, home[b])' \/ \E u \in Threads : Holds(u, b)'
    <3>1. home[b] \in m_map /\ home[b] \in Pools
          /\ (InQueue(b, home[b]) \/ \E u \in Threads : Holds(u, b))
      BY <2>6, <1>1 DEF Kept, TypeOK
    <3>2. PICK q : q = home[b]
      OBVIOUS
    <3>3. InQueue(b, q) /\ b # h => InQueue(b, q)'
      BY <3>1, <3>2, <2>5
    <3>4. InQueue(b, home[b]) => InQueue(b, q)
      BY <3>2
    <3>5. InQueue(b, q)' => InQueue(b, home[b])'
      BY <3>2, <1>1 DEF InQueue
    <3> QED BY <3>1, <3>3, <3>4, <3>5, <2>2, <1>1, <1>3
  <2> QED BY <2>6 DEF Kept
<1> QED BY <1>4, <1>5

\* task_done puts the block back at the end of the list (MpMcQueue.hpp 138-142).
LEMMA TaskDoneKeeps ==
  ASSUME IInv, Kept, NEW t \in Threads, TaskDone(t)
  PROVE  Kept'
<1> USE DEF IInv
<1> DEFINE p == Pool(t)
           L == Len(m_queue[p])
<1>0. PICK b0 : b0 = torun[t]
  OBVIOUS
<1>1. /\ p \in Pools /\ m_queue[p] \in Seq(Blocks) /\ pc[t] = "done"
      /\ UNCHANGED <<m_map, home>> /\ m_queue' = [m_queue EXCEPT ![p] = Append(@, b0)]
  BY <1>0, ThreadFacts, Zenon DEF TypeOK, TaskDone, poolVars
<1>2. b0 \in Blocks /\ Holds(t, b0)
  BY <1>0, <1>1 DEF Busy, Holds
<1>3. home[b0] = p
  BY <1>2 DEF AtHome
<1>4. \A u \in Threads : u # t => pc'[u] = pc[u] /\ torun'[u] = torun[u]
  BY DEF TaskDone, TypeOK
<1>5. /\ L \in Nat /\ m_queue'[p] = Append(m_queue[p], b0)
      /\ \A q \in Pools \ {p} : m_queue'[q] = m_queue[q]
  BY <1>1 DEF TypeOK
<1>6. /\ Len(m_queue'[p]) = L + 1 /\ m_queue'[p][L + 1] = b0
      /\ \A i \in 1 .. L : m_queue'[p][i] = m_queue[p][i]
  BY <1>1, <1>2, <1>5
<1> HIDE DEF L
<1>7. InQueue(b0, p)'
  <2>1. L + 1 \in 1 .. Len(m_queue'[p])
    BY <1>5, <1>6
  <2> QED BY <2>1, <1>6 DEF InQueue, Pool
<1>8. ASSUME NEW b \in Blocks, NEW q \in Pools, InQueue(b, q) PROVE InQueue(b, q)'
  <2>1. PICK i \in 1 .. Len(m_queue[q]) : m_queue[q][i] = b
    BY <1>8 DEF InQueue
  <2>2. CASE q # p
    BY <2>1, <2>2, <1>5, SMTT(30) DEF InQueue
  <2>3. CASE q = p
    <3>1. i \in 1 .. L /\ i \in 1 .. Len(m_queue'[p])
      BY <2>1, <2>3, <1>5, <1>6 DEF L
    <3> QED BY <3>1, <2>1, <2>3, <1>6 DEF InQueue
  <2> QED BY <2>2, <2>3
<1>9. ASSUME NEW b \in Blocks, home'[b] # NoPool
      PROVE  /\ home'[b] \in m_map'
             /\ InQueue(b, home[b])' \/ \E u \in Threads : Holds(u, b)'
  <2>1. home[b] \in m_map /\ home[b] \in Pools
        /\ (InQueue(b, home[b]) \/ \E u \in Threads : Holds(u, b))
    BY <1>9, <1>1 DEF Kept, TypeOK
  <2>2. PICK q : q = home[b]
    OBVIOUS
  <2>3. InQueue(b, q)' => InQueue(b, home[b])'
    BY <2>2, <1>1 DEF InQueue
  <2>4. CASE InQueue(b, home[b])
    <3>1. InQueue(b, q)
      BY <2>2, <2>4
    <3>2. InQueue(b, q)'
      BY <3>1, <2>1, <2>2, <1>8, SMTT(30)
    <3> QED BY <3>2, <2>1, <2>3, <1>1
  <2>5. CASE b = b0
    <3>1. InQueue(b, q)'
      BY <2>2, <2>5, <1>3, <1>7 DEF Pool
    <3> QED BY <3>1, <2>1, <2>3, <1>1
  <2>6. ASSUME NEW u \in Threads, Holds(u, b), b # b0
        PROVE  Holds(u, b)'
    BY <2>6, <1>0, <1>4 DEF Holds
  <2> QED BY <2>1, <2>4, <2>5, <2>6, <1>1
<1> QED BY <1>9 DEF Kept

\* PoolManager.hpp 98-158: blocks are added to a pool that exists, taken out
\* alone, and no pool that has one is deleted.
LEMMA ConfigureKeeps ==
  ASSUME IInv, Kept, Configure, main = Idle, ~running
  PROVE  Kept'
<1> USE DEF IInv
<1>1. \A t \in Threads, b \in Blocks : ~Holds(t, b)
  BY DEF Joined, Holds
<1>2. \A b \in Blocks : home[b] # NoPool =>
         home[b] \in m_map /\ home[b] \in Pools /\ InQueue(b, home[b])
  BY <1>1 DEF Kept, TypeOK
<1>3. ASSUME NEW p \in Pools, CreatePool(p) PROVE Kept'
  <2>1. /\ UNCHANGED home /\ m_map \subseteq m_map' /\ p \notin m_map
        /\ \A q \in Pools \ {p} : m_queue'[q] = m_queue[q]
    BY <1>3 DEF CreatePool, TypeOK
  <2>2. \A b \in Blocks : home[b] # NoPool => m_queue'[home[b]] = m_queue[home[b]]
    BY <2>1, <1>2, SMTT(30)
  <2> QED BY <2>1, <2>2, <1>2 DEF Kept, InQueue
<1>4. ASSUME NEW p \in Pools, DeletePool(p) PROVE Kept'
  <2>1. /\ UNCHANGED <<home, m_queue>> /\ m_map' = m_map \ {p}
        /\ \A b \in Blocks : home[b] # p
    BY <1>4, SMTT(30) DEF DeletePool
  <2> QED BY <2>1, <1>2 DEF Kept, InQueue
<1>5. ASSUME NEW c \in Blocks, NEW p \in Pools, AddToPool(c, p) PROVE Kept'
  <2> DEFINE L == Len(m_queue[p])
  <2>1. /\ p \in m_map /\ UNCHANGED m_map
        /\ home' = [home EXCEPT ![c] = p]
        /\ m_queue' = [m_queue EXCEPT ![p] = Append(@, c)]
        /\ m_queue[p] \in Seq(Blocks)
    BY <1>5 DEF AddToPool, TypeOK
  <2>2. /\ L \in Nat /\ m_queue'[p] = Append(m_queue[p], c)
        /\ \A q \in Pools \ {p} : m_queue'[q] = m_queue[q]
        /\ home'[c] = p /\ \A b \in Blocks \ {c} : home'[b] = home[b]
    BY <2>1 DEF TypeOK
  <2>3. /\ Len(m_queue'[p]) = L + 1 /\ m_queue'[p][L + 1] = c
        /\ \A i \in 1 .. L : m_queue'[p][i] = m_queue[p][i]
    BY <2>1, <2>2
  <2>4. \A q \in Pools : \A i \in 1 .. Len(m_queue[q]) :
           i \in 1 .. Len(m_queue'[q]) /\ m_queue'[q][i] = m_queue[q][i]
    BY <2>2, <2>3
  <2>5. L + 1 \in 1 .. Len(m_queue'[p])
    BY <2>2, <2>3
  <2> HIDE DEF L
  <2>6. ASSUME NEW b \in Blocks, home'[b] # NoPool
        PROVE  /\ home'[b] \in m_map'
               /\ \E i \in 1 .. Len(m_queue'[home'[b]]) : m_queue'[home'[b]][i] = b
    <3>1. CASE b = c
      BY <3>1, <2>1, <2>2, <2>3, <2>5, SMTT(30)
    <3>2. CASE b # c
      <4>1. /\ home'[b] = home[b] /\ home[b] \in m_map /\ home[b] \in Pools
            /\ \E i \in 1 .. Len(m_queue[home[b]]) : m_queue[home[b]][i] = b
        BY <3>2, <2>2, <2>6, <1>2 DEF InQueue
      <4> QED BY <4>1, <2>1, <2>4
    <3> QED BY <3>1, <3>2
  <2> QED BY <2>6 DEF Kept, InQueue
<1>6. ASSUME NEW c \in Blocks, RemoveFromPool(c) PROVE Kept'
  <2>0. PICK p : p = home[c]
    OBVIOUS
  <2>1. /\ p \in Pools /\ UNCHANGED m_map
        /\ home' = [home EXCEPT ![c] = NoPool]
        /\ m_queue' = [m_queue EXCEPT ![p] = Without(m_queue[p], c)]
        /\ m_queue[p] \in Seq(Blocks)
    BY <1>6, <2>0 DEF RemoveFromPool, TypeOK
  <2>2. /\ m_queue'[p] = Without(m_queue[p], c)
        /\ \A q \in Pools \ {p} : m_queue'[q] = m_queue[q]
        /\ home'[c] = NoPool /\ \A b \in Blocks \ {c} : home'[b] = home[b]
    BY <2>1 DEF TypeOK
  <2>3. \A j \in 1 .. Len(m_queue[p]) :
           m_queue[p][j] # c => \E i \in 1 .. Len(m_queue'[p]) :
                                   m_queue'[p][i] = m_queue[p][j]
    BY <2>1, <2>2, WithoutProperties, SMTT(30)
  <2>4. ASSUME NEW b \in Blocks, home'[b] # NoPool
        PROVE  /\ home'[b] \in m_map'
               /\ \E i \in 1 .. Len(m_queue'[home'[b]]) : m_queue'[home'[b]][i] = b
    <3>1. b # c
      BY <2>2, <2>4
    <3>2. home'[b] = home[b] /\ home[b] \in m_map /\ home[b] \in Pools
      BY <3>1, <2>2, <2>4, <1>2
    <3>3. PICK j \in 1 .. Len(m_queue[home[b]]) : m_queue[home[b]][j] = b
      BY <3>2, <2>4, <1>2, SMTT(30) DEF InQueue
    <3>4. CASE home[b] = p
      BY <3>1, <3>2, <3>3, <3>4, <2>1, <2>3
    <3>5. CASE home[b] # p
      BY <3>2, <3>3, <3>5, <2>1, <2>2
    <3> QED BY <3>4, <3>5
  <2> QED BY <2>4 DEF Kept, InQueue
<1> QED BY <1>3, <1>4, <1>5, <1>6 DEF Configure

-----------------------------------------------------------------------------
(* Threads and pools on the way of start and stop *)

\* The steps of a thread that runs do not touch the main thread's state
\* (ThreadHandler.hpp 136-161).
LEMMA ThreadStepQ ==
  ASSUME QInv, NEW t \in Threads, ThreadStep(t)
  PROVE  Kept' /\ Unstarted' /\ Stopped'
<1> USE DEF QInv
<1>1. /\ UNCHANGED <<m_map, running, m_running, home, main>> /\ pc[t] # "none"
      /\ \A u \in Threads : u # t => pc'[u] = pc[u]
  BY Zenon DEF ThreadStep, Begin, TestStop, NextTask, RunBlock, TaskDone, Exit, poolVars,
               IInv, TypeOK
<1>2. Unstarted'
  BY <1>1 DEF Unstarted, Ahead, Pool
<1>3. Stopped'
  BY <1>1 DEF Stopped
<1>4. CASE Begin(t) \/ TestStop(t) \/ Exit(t) \/ RunBlock(t)
  <2>1. /\ UNCHANGED <<m_queue, torun>>
        /\ pc[t] \in {"run", "done"} => pc'[t] \in {"run", "done"}
    BY <1>4, Zenon DEF Begin, TestStop, Exit, RunBlock, IInv, TypeOK
  <2>2. \A u \in Threads, b \in Blocks : Holds(u, b) => Holds(u, b)'
    BY <2>1, <1>1 DEF Holds
  <2>3. Kept'
    BY <2>1, <2>2, <1>1, KeptSame
  <2> QED BY <2>3, <1>2, <1>3
<1>5. CASE NextTask(t) \/ TaskDone(t)
  BY <1>2, <1>3, <1>5, NextTaskKeeps, TaskDoneKeeps
<1> QED BY <1>4, <1>5 DEF ThreadStep

\* Configuration finds the pools stopped and leaves them stopped
\* (PoolManager.hpp 98-158).
LEMMA ConfigureQ ==
  ASSUME QInv, Configure
  PROVE  Kept' /\ Unstarted' /\ Stopped'
<1> USE DEF QInv
<1>1. /\ main = Idle /\ ~running /\ UNCHANGED <<main, running>>
      /\ \A p \in m_map' : ~m_running'[p]
  <2>1. m_map \subseteq Pools /\ m_running \in [Pools -> BOOLEAN]
    BY DEF IInv, TypeOK
  <2>2. ASSUME NEW p \in Pools, CreatePool(p)
        PROVE  /\ main = Idle /\ ~running /\ UNCHANGED <<main, running>>
               /\ \A q \in m_map' : ~m_running'[q]
    BY <2>1, <2>2 DEF CreatePool, Stopped
  <2>3. ASSUME NEW p \in Pools, DeletePool(p)
        PROVE  /\ main = Idle /\ ~running /\ UNCHANGED <<main, running>>
               /\ \A q \in m_map' : ~m_running'[q]
    BY <2>1, <2>3 DEF DeletePool, Stopped
  <2>4. ASSUME NEW b \in Blocks, NEW p \in Pools, AddToPool(b, p)
        PROVE  /\ main = Idle /\ ~running /\ UNCHANGED <<main, running>>
               /\ \A q \in m_map' : ~m_running'[q]
    BY <2>4 DEF AddToPool, Stopped
  <2>5. ASSUME NEW b \in Blocks, RemoveFromPool(b)
        PROVE  /\ main = Idle /\ ~running /\ UNCHANGED <<main, running>>
               /\ \A q \in m_map' : ~m_running'[q]
    BY <2>5 DEF RemoveFromPool, Stopped
  <2> QED BY <2>2, <2>3, <2>4, <2>5 DEF Configure
<1>2. Kept'
  BY <1>1, ConfigureKeeps
<1>3. Unstarted' /\ Stopped'
  BY <1>1 DEF Unstarted, Stopped, Idle
<1> QED BY <1>2, <1>3

\* start and stop begin with the first pool (PoolManager.hpp 180 and 197).
LEMMA CallQ ==
  ASSUME QInv, Start \/ Stop
  PROVE  Kept' /\ Unstarted' /\ Stopped'
<1> USE DEF QInv
<1>1. /\ main = Idle /\ UNCHANGED <<m_map, m_running, home, m_queue, pc, torun>>
      /\ m_map \subseteq Pools
      /\ \/ ~running /\ running' /\ main' = FirstPool("start")
         \/ ~running' /\ main' = FirstPool("stop")
  BY Zenon DEF Start, Stop, poolVars, threadVars, IInv, TypeOK
<1>2. Kept'
  <2>1. \A t \in Threads, b \in Blocks : Holds(t, b) => Holds(t, b)'
    BY <1>1 DEF Holds
  <2> QED BY <2>1, <1>1, KeptSame
<1>3. CASE ~running /\ running' /\ main' = FirstPool("start")
  <2>1. \A t \in Threads : pc'[t] = "none"
    BY <1>1, <1>3 DEF IInv, Joined
  <2>2. Unstarted'
    BY <2>1 DEF Unstarted
  <2>3. main'.op \in {"idle", "start"}
    BY <1>1, <1>3, FirstPoolFacts DEF Idle
  <2>4. Stopped'
    BY <2>3, <1>3 DEF Stopped
  <2> QED BY <2>2, <2>4, <1>2
<1>4. CASE ~running' /\ main' = FirstPool("stop")
  <2>1. \/ main' = Idle /\ m_map = {}
        \/ /\ main' = [op |-> "stop", pool |-> main'.pool, i |-> 1]
           /\ main'.pool \in m_map /\ \A q \in m_map : main'.pool <= q
    BY <1>1, <1>4, FirstPoolFacts
  <2>2. CASE main' = Idle /\ m_map = {}
    BY <2>2, <1>1, <1>2 DEF Unstarted, Stopped, Idle
  <2>3. CASE /\ main' = [op |-> "stop", pool |-> main'.pool, i |-> 1]
             /\ main'.pool \in m_map /\ \A q \in m_map : main'.pool <= q
    <3>1. main'.op = "stop" /\ main' # Idle
      BY <2>3 DEF Idle
    <3>2. m_map \subseteq Nat
      BY <1>1, ThreadFacts, Zenon
    <3>3. \A q \in m_map : ~(q < main'.pool)
      BY <3>2, <2>3
    <3> QED BY <3>1, <3>3, <1>1, <1>2 DEF Unstarted, Stopped
  <2> QED BY <2>1, <2>2, <2>3
<1> QED BY <1>1, <1>3, <1>4

\* ThreadPool::run starts a thread that did not exist (ThreadPool.hpp 104-110).
LEMMA StartThreadQ ==
  ASSUME QInv, StartThread
  PROVE  Kept' /\ Unstarted' /\ Stopped'
<1> USE DEF QInv
<1> DEFINE t0 == <<main.pool, main.i>>
<1>1. /\ main.op = "start" /\ main' = Advance("start")
      /\ pc' = [pc EXCEPT ![t0] = "begin"]
      /\ UNCHANGED <<m_map, running, m_queue, home, m_stop, torun>>
  BY DEF StartThread
<1>2. running /\ Placed /\ TypeOK
  BY <1>1 DEF IInv, MainOK, Idle
<1>3. /\ main.pool \in Pools /\ main.pool \in Nat /\ main.i \in Nat
      /\ t0 \in Threads /\ Pool(t0) = main.pool /\ t0[2] = main.i
      /\ m_map \subseteq Nat
  <2>1. main.pool \in Pools /\ main.i \in 1 .. Size[main.pool]
    BY <1>2, Zenon DEF Placed, TypeOK
  <2>2. t0 \in Threads /\ Pool(t0) = main.pool
    BY <2>1, ThreadFacts, Zenon
  <2>3. Pools \subseteq Nat /\ Size[main.pool] \in Nat /\ m_map \subseteq Pools
    BY <2>1, <1>2, ThreadFacts, Zenon DEF TypeOK
  <2>4. main.pool \in Nat /\ m_map \subseteq Nat
    BY <2>1, <2>3, Zenon
  <2>5. main.i \in Nat
    BY <2>1, <2>3
  <2>6. t0[2] = main.i
    OBVIOUS
  <2> QED BY <2>1, <2>2, <2>4, <2>5, <2>6, Zenon
<1>4. pc[t0] = "none"
  <2>1. main.i <= t0[2]
    BY <1>3
  <2>2. Ahead(t0)
    BY <2>1, <1>3, Zenon DEF Ahead
  <2> QED BY <2>2, <1>1, <1>3, Zenon DEF Unstarted
<1>5. \A t \in Threads : pc'[t] = IF t = t0 THEN "begin" ELSE pc[t]
  BY <1>1, <1>2, Zenon DEF TypeOK
<1> HIDE DEF t0
<1>6. Kept'
  <2>1. \A t \in Threads, b \in Blocks : Holds(t, b) => Holds(t, b)'
    BY <1>1, <1>4, <1>5 DEF Holds
  <2> QED BY <2>1, <1>1, KeptSame
<1>7. main' = Idle \/ main'.op = "start"
  BY <1>1, <1>2, AdvancePlace, SMTT(30)
<1>8. Stopped'
  BY <1>1, <1>2, <1>7 DEF Stopped, Idle
<1>9. ASSUME NEW t \in Threads, t # t0, Ahead(t) PROVE pc'[t] = "none"
  BY <1>1, <1>5, <1>9, SMTT(30) DEF Unstarted
<1>10. Unstarted'
  <2>1. CASE main' = Idle
    BY <2>1 DEF Unstarted, Idle
  <2>2. ASSUME NEW t \in Threads, Ahead(t)',
               main' = [op |-> "start", pool |-> main.pool, i |-> main.i + 1]
        PROVE  pc'[t] = "none"
    <3>1. main'.pool = main.pool /\ main'.i = main.i + 1
      BY <2>2
    <3>2. main.pool < Pool(t) \/ (Pool(t) = main.pool /\ main.i + 1 <= t[2])
      BY <2>2, <3>1 DEF Ahead, Pool
    <3>3. t[2] \in Nat
      BY ThreadFacts
    <3>4. Ahead(t)
      BY <3>2, <3>3, <1>3 DEF Ahead
    <3>5. t # t0
      BY <3>2, <3>3, <1>3
    <3> QED BY <3>4, <3>5, <1>9
  <2>3. ASSUME NEW t \in Threads, Ahead(t)',
               main' = [op |-> "start", pool |-> main'.pool, i |-> 1],
               main.pool < main'.pool, main'.pool \in m_map
        PROVE  pc'[t] = "none"
    <3>1. main'.pool < Pool(t) \/ Pool(t) = main'.pool
      BY <2>3 DEF Ahead, Pool
    <3>2. Pool(t) \in Nat /\ main'.pool \in Nat
      BY <2>3, <1>3, ThreadFacts, Zenon
    <3>3. main.pool < Pool(t)
      BY <3>1, <3>2, <2>3, <1>3
    <3>4. Ahead(t) /\ t # t0
      BY <3>2, <3>3, <1>3 DEF Ahead
    <3> QED BY <3>4, <1>9
  <2> QED BY <2>1, <2>2, <2>3, <1>1, <1>2, AdvanceFacts, SMTT(30) DEF Unstarted
<1> QED BY <1>6, <1>8, <1>10

\* stop sets the flag of a thread, and waits for it to end (ThreadHandler.hpp
\* 166-170); after the last one of a pool m_running is false (ThreadPool.hpp 130).
LEMMA StopThreadQ ==
  ASSUME QInv, StopThread \/ JoinThread
  PROVE  Kept' /\ Unstarted' /\ Stopped'
<1> USE DEF QInv
<1> DEFINE t0 == <<main.pool, main.i>>
<1>1. /\ main.op \in {"stop", "join"}
      /\ UNCHANGED <<m_map, running, m_queue, home, torun>>
  BY DEF StopThread, JoinThread, poolVars
<1>2. ~running /\ Placed /\ TypeOK
  BY <1>1 DEF IInv, MainOK, Idle
<1>3. /\ main.pool \in Pools /\ main.pool \in Nat /\ t0 \in Threads
      /\ m_map \subseteq Nat /\ m_map \subseteq Pools
  <2>1. main.pool \in Pools /\ main.i \in 1 .. Size[main.pool] /\ m_map \subseteq Pools
    BY <1>2, Zenon DEF Placed, TypeOK
  <2>2. t0 \in Threads
    BY <2>1, ThreadFacts, Zenon
  <2> QED BY <2>1, <2>2, ThreadFacts, Zenon
<1>4. CASE StopThread
  <2>1. /\ main.op = "stop" /\ UNCHANGED <<m_running, pc>>
        /\ main'.op = "join" /\ main'.pool = main.pool /\ main' # Idle
    BY <1>4, <1>2 DEF StopThread, poolVars, TypeOK, Idle
  <2>2. \A t \in Threads, b \in Blocks : Holds(t, b) => Holds(t, b)'
    BY <2>1, <1>1 DEF Holds
  <2>3. Kept'
    BY <2>2, <1>1, KeptSame, SMTT(30)
  <2> QED BY <2>1, <2>3, <1>1 DEF Unstarted, Stopped
<1>5. CASE JoinThread
  <2>1. /\ main.op = "join" /\ pc[t0] = "exited" /\ main' = Advance("stop")
        /\ pc' = [pc EXCEPT ![t0] = "none"]
        /\ m_running' = [m_running EXCEPT ![main.pool] = ~LastThread]
    BY <1>5 DEF JoinThread
  <2>2. \A t \in Threads : t # t0 => pc'[t] = pc[t]
    BY <2>1, <1>2, Zenon DEF TypeOK
  <2>3. \A t \in Threads, b \in Blocks : Holds(t, b) => Holds(t, b)'
    BY <2>1, <2>2, <1>1 DEF Holds
  <2>4. Kept'
    BY <2>3, <1>1, KeptSame
  <2>5. /\ \A p \in m_map : p < main.pool => ~m_running[p]
        /\ \A p \in Pools \ {main.pool} : m_running'[p] = m_running[p]
        /\ m_running'[main.pool] = ~LastThread
    BY <2>1, <1>2, <1>3, Zenon DEF Stopped, TypeOK
  <2>6. ASSUME NEW p \in m_map,
               \/ p < main.pool
               \/ p <= main.pool /\ main.i = Size[main.pool]
        PROVE  ~m_running'[p]
    <3>1. p < main.pool \/ (p = main.pool /\ LastThread)
      BY <2>6, <1>3 DEF LastThread
    <3>2. p \in Pools /\ (p < main.pool => p # main.pool)
      BY <1>3, SMTT(30)
    <3> QED BY <3>1, <3>2, <2>5, Zenon
  <2>7. CASE /\ main' = Idle /\ main.i = Size[main.pool]
             /\ \A q \in m_map : q <= main.pool
    <3>1. \A p \in m_map : ~m_running'[p]
      BY <2>6, <2>7
    <3> QED BY <3>1, <2>4, <2>7, <1>1, ZenonT(40) DEF Unstarted, Stopped, Idle
  <2>8. CASE main' = [op |-> "stop", pool |-> main.pool, i |-> main.i + 1]
    <3>1. main'.op = "stop" /\ main'.pool = main.pool /\ main' # Idle
      BY <2>8 DEF Idle
    <3> QED BY <3>1, <2>4, <2>6, <1>1 DEF Unstarted, Stopped
  <2>9. CASE /\ main' = [op |-> "stop", pool |-> main'.pool, i |-> 1]
             /\ main.i = Size[main.pool]
             /\ main'.pool \in m_map /\ main.pool < main'.pool
             /\ \A q \in m_map : main.pool < q => main'.pool <= q
    <3>1. main'.op = "stop" /\ main' # Idle
      BY <2>9 DEF Idle
    <3>2. \A p \in m_map : p < main'.pool => p <= main.pool
      BY <2>9, <1>3
    <3>3. \A p \in m_map : p < main'.pool => ~m_running'[p]
      BY <3>2, <2>6, <2>9
    <3> QED BY <3>1, <3>3, <2>4, <1>1 DEF Unstarted, Stopped
  <2> QED BY <2>1, <2>7, <2>8, <2>9, <1>2, AdvanceFacts, SMTT(30)
<1> QED BY <1>4, <1>5

-----------------------------------------------------------------------------
(* The theorem *)

\* Every step but an exception of a block keeps the invariant.
LEMMA NormalQInv == QInv /\ [NormalNext]_vars => QInv'
<1> SUFFICES ASSUME QInv, [NormalNext]_vars PROVE QInv'
  OBVIOUS
<1>1. IInv'
  <2>1. [Next]_vars
    BY DEF Next
  <2> QED BY <2>1, NextIInv DEF QInv
<1>2. CASE Configure
  BY <1>1, <1>2, ConfigureQ DEF QInv
<1>3. CASE Start \/ Stop
  BY <1>1, <1>3, CallQ DEF QInv
<1>4. CASE MainProgress
  BY <1>1, <1>4, StartThreadQ, StopThreadQ DEF QInv, MainProgress
<1>5. ASSUME NEW t \in Threads, ThreadStep(t) PROVE QInv'
  BY <1>1, <1>5, ThreadStepQ, SMTT(30) DEF QInv
<1>6. CASE UNCHANGED vars
  <2>1. UNCHANGED <<m_map, running, m_running, m_queue, home, pc, torun, main>>
    BY <1>6 DEF vars
  <2>2. \A t \in Threads, b \in Blocks : Holds(t, b) => Holds(t, b)'
    BY <2>1 DEF Holds
  <2>3. Kept'
    BY <2>1, <2>2, KeptSame DEF QInv
  <2> QED BY <2>1, <2>3, <1>1 DEF QInv, Unstarted, Ahead, Pool, Stopped
<1> QED BY <1>2, <1>3, <1>4, <1>5, <1>6 DEF NormalNext

\* With the threads gone, every block is in the list of its pool, once.
LEMMA QInvQuiescent == QInv => Quiescent
<1> SUFFICES ASSUME QInv, main = Idle, ~running
             PROVE  /\ \A t \in Threads : pc[t] = "none"
                    /\ \A p \in m_map : ~m_running[p]
                    /\ \A b \in Blocks : home[b] # NoPool =>
                                           Count(m_queue[home[b]], b) = 1
  BY DEF Quiescent
<1>1. \A t \in Threads : pc[t] = "none"
  BY DEF QInv, IInv, Joined
<1>2. \A p \in m_map : ~m_running[p]
  BY DEF QInv, Stopped
<1>3. ASSUME NEW b \in Blocks, home[b] # NoPool PROVE Count(m_queue[home[b]], b) = 1
  <2> DEFINE s == m_queue[home[b]]
  <2>1. home[b] \in Pools /\ InQueue(b, home[b])
    BY <1>1, <1>3 DEF QInv, Kept, Holds, IInv, TypeOK
  <2>2. Distinct(s)
    BY <2>1, SMTT(30) DEF QInv, IInv, Single
  <2>3. PICK i \in 1 .. Len(s) : s[i] = b
    BY <2>1 DEF InQueue
  <2> HIDE DEF s
  <2>4. {j \in 1 .. Len(s) : s[j] = b} = {i}
    BY <2>2, <2>3 DEF Distinct
  <2>5. Cardinality({i}) = 1
    BY FS_Singleton, Zenon
  <2>6. Count(s, b) = 1
    BY <2>4, <2>5, Zenon DEF Count
  <2> QED BY <2>6 DEF s
<1> QED BY <1>1, <1>2, <1>3

\* PoolManager.hpp 196-202: for any pools and blocks, when stop has returned no
\* thread is left and every block is in its list exactly once, after any number
\* of starts, stops and changes in between.
THEOREM StopQuiesces == FairNormalSpec => []Quiescent
BY InitQInv, NormalQInv, QInvQuiescent, PTL DEF FairNormalSpec
=============================================================================
