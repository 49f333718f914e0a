----------------------------- MODULE ThreadPool -----------------------------
(***************************************************************************)
(* The execution engine (core/scheduler): the pool manager starts and      *)
(* stops the threads of every pool, each thread takes a block from the     *)
(* scheduler of its pool, runs it and gives it back.  The scheduler is     *)
(* the mutex-protected list of DumbScheduler and MpMcQueue.                *)
(*                                                                         *)
(* The main thread calls PoolManager (from the Python process manager or   *)
(* from main); main is its place in start() and stop().  The pool threads  *)
(* share m_queue and, with the main thread, m_stop.                        *)
(***************************************************************************)
EXTENDS Naturals, Sequences, FiniteSets, Lists

CONSTANTS Pools,     \* the pool names, numbers in the order of m_map
          Size,      \* m_threadnum of each pool
          Blocks,
          NoBlock,   \* the empty shared_ptr
          NoPool

ASSUME PoolsAssumption == IsFiniteSet(Pools) /\ Pools \subseteq Nat
                          /\ NoPool \notin Pools
ASSUME SizeAssumption == Size \in [Pools -> Nat \ {0}]
ASSUME NoBlockAssumption == NoBlock \notin Blocks

Threads == UNION {{p} \X (1 .. Size[p]) : p \in Pools}
Pool(t) == t[1]

VARIABLES
  m_map,        \* the pools that exist
  running,      \* PoolManager::running
  m_running,    \* per pool
  m_queue,      \* per pool: the blocks waiting to be run
  home,         \* per block: the pool the composition assigned it to
  m_stop, pc, torun,   \* per thread
  main          \* [op, pool, i]: the main thread's place

poolVars   == <<m_map, m_running, home>>
threadVars == <<m_stop, pc, torun>>
vars == <<m_map, running, m_running, m_queue, home, m_stop, pc, torun, main>>

Idle == [op |-> "idle", pool |-> NoPool, i |-> 0]

\* The iteration over m_map and over the threads of a pool: where op continues
\* after thread i of pool p, or at the first pool greater than p.
NextPool(op, p) ==
  LET rest == {q \in m_map : q > p}
  IN IF rest = {} THEN Idle
     ELSE [op |-> op, pool |-> CHOOSE q \in rest : \A r \in rest : q <= r, i |-> 1]

FirstPool(op) ==
  IF m_map = {} THEN Idle
  ELSE [op |-> op, pool |-> CHOOSE q \in m_map : \A r \in m_map : q <= r, i |-> 1]

Advance(op) ==
  IF main.i < Size[main.pool] THEN [op |-> op, pool |-> main.pool, i |-> main.i + 1]
                              ELSE NextPool(op, main.pool)

LastThread == main.i = Size[main.pool]

\* MpMcQueue::remove: every pointer to b is taken out, the rest keeps its order.
Without(s, b) == Drop(s, {b})

Init ==
  /\ m_map = {} /\ running = FALSE
  /\ m_running = [p \in Pools |-> FALSE]
  /\ m_queue = [p \in Pools |-> <<>>]
  /\ home = [b \in Blocks |-> NoPool]
  /\ m_stop = [t \in Threads |-> TRUE]
  /\ pc = [t \in Threads |-> "none"]
  /\ torun = [t \in Threads |-> NoBlock]
  /\ main = Idle

-----------------------------------------------------------------------------
(* Configuration, by the main thread.  The process manager stops the        *)
(* schedulers before it changes a composition (bmprocess.py 119, 135).      *)

CreatePool(p) ==
  /\ main = Idle /\ ~running
  /\ p \notin m_map
  /\ m_map' = m_map \cup {p}
  /\ m_queue' = [m_queue EXCEPT ![p] = <<>>]
  /\ m_running' = [m_running EXCEPT ![p] = FALSE]
  /\ m_stop' = [t \in Threads |-> Pool(t) = p \/ m_stop[t]]
  /\ torun' = [t \in Threads |-> IF Pool(t) = p THEN NoBlock ELSE torun[t]]
  /\ UNCHANGED <<running, home, pc, main>>

\* threadpool.py 64-69: only a pool without blocks is removed.
DeletePool(p) ==
  /\ main = Idle /\ ~running
  /\ p \in m_map /\ \A b \in Blocks : home[b] # p
  /\ m_map' = m_map \ {p}
  /\ UNCHANGED <<running, m_running, m_queue, home, threadVars, main>>

AddToPool(b, p) ==
  /\ main = Idle /\ ~running
  /\ home[b] = NoPool
  /\ p \in m_map /\ ~m_running[p]
  /\ m_queue' = [m_queue EXCEPT ![p] = Append(@, b)]
  /\ home' = [home EXCEPT ![b] = p]
  /\ UNCHANGED <<m_map, running, m_running, threadVars, main>>

RemoveFromPool(b) ==
  /\ main = Idle /\ ~running
  /\ home[b] \in m_map /\ ~m_running[home[b]]
  /\ m_queue' = [m_queue EXCEPT ![home[b]] = Without(@, b)]
  /\ home' = [home EXCEPT ![b] = NoPool]
  /\ UNCHANGED <<m_map, running, m_running, threadVars, main>>

-----------------------------------------------------------------------------
(* PoolManager::start and stop *)

Start ==
  /\ main = Idle /\ ~running
  /\ \A p \in m_map : ~m_running[p]
  /\ running' = TRUE
  /\ main' = FirstPool("start")
  /\ UNCHANGED <<poolVars, m_queue, threadVars>>

\* ThreadHandler::run creates the thread; the loop of ThreadPool::run.
StartThread ==
  /\ main.op = "start"
  /\ pc' = [pc EXCEPT ![<<main.pool, main.i>>] = "begin"]
  /\ m_running' = [m_running EXCEPT ![main.pool] = LastThread]
  /\ main' = Advance("start")
  /\ UNCHANGED <<m_map, running, m_queue, home, m_stop, torun>>

Stop ==
  /\ main = Idle /\ running
  /\ running' = FALSE
  /\ main' = FirstPool("stop")
  /\ UNCHANGED <<poolVars, m_queue, threadVars>>

StopThread ==
  /\ main.op = "stop"
  /\ m_stop' = [m_stop EXCEPT ![<<main.pool, main.i>>] = TRUE]
  /\ main' = [main EXCEPT !.op = "join"]
  /\ UNCHANGED <<poolVars, running, m_queue, pc, torun>>

\* Mutant of JoinThread: stop does not wait for the thread.
JoinForgotten ==
  /\ main.op = "join"
  /\ m_running' = [m_running EXCEPT ![main.pool] = ~LastThread]
  /\ main' = Advance("stop")
  /\ UNCHANGED <<m_map, running, m_queue, home, threadVars>>

JoinThread ==
  /\ main.op = "join"
  /\ pc[<<main.pool, main.i>>] = "exited"
  /\ pc' = [pc EXCEPT ![<<main.pool, main.i>>] = "none"]
  /\ m_running' = [m_running EXCEPT ![main.pool] = ~LastThread]
  /\ main' = Advance("stop")
  /\ UNCHANGED <<m_map, running, m_queue, home, m_stop, torun>>

-----------------------------------------------------------------------------
(* ThreadHandler::operator() *)

Begin(t) ==
  /\ pc[t] = "begin"
  /\ m_stop' = [m_stop EXCEPT ![t] = FALSE]
  /\ pc' = [pc EXCEPT ![t] = "test"]
  /\ UNCHANGED <<poolVars, running, m_queue, torun, main>>

\* Mutant of TestStop: the loop does not look at m_stop.
TestForgotten(t) ==
  /\ pc[t] = "test"
  /\ pc' = [pc EXCEPT ![t] = "next"]
  /\ UNCHANGED <<poolVars, running, m_queue, m_stop, torun, main>>

TestStop(t) ==
  /\ pc[t] = "test"
  /\ pc' = [pc EXCEPT ![t] = IF m_stop[t] THEN "exit" ELSE "next"]
  /\ UNCHANGED <<poolVars, running, m_queue, m_stop, torun, main>>

\* Mutant of NextTask: the head is read and not taken off the list.
NextTaskPeek(t) ==
  /\ pc[t] = "next"
  /\ IF m_queue[Pool(t)] = <<>>
     THEN /\ torun' = [torun EXCEPT ![t] = NoBlock]
          /\ pc' = [pc EXCEPT ![t] = "test"]
     ELSE /\ torun' = [torun EXCEPT ![t] = Head(m_queue[Pool(t)])]
          /\ pc' = [pc EXCEPT ![t] = "run"]
  /\ UNCHANGED <<poolVars, running, m_queue, m_stop, main>>

\* Assigning torun drops the block it still held after an exception.  With
\* nothing to run the thread sleeps and tests m_stop again.
NextTask(t) ==
  /\ pc[t] = "next"
  /\ \/ /\ m_queue[Pool(t)] = <<>>
        /\ torun' = [torun EXCEPT ![t] = NoBlock]
        /\ pc' = [pc EXCEPT ![t] = "test"]
        /\ UNCHANGED m_queue
     \/ /\ m_queue[Pool(t)] # <<>>
        /\ torun' = [torun EXCEPT ![t] = Head(m_queue[Pool(t)])]
        /\ m_queue' = [m_queue EXCEPT ![Pool(t)] = Tail(@)]
        /\ pc' = [pc EXCEPT ![t] = "run"]
  /\ UNCHANGED <<poolVars, running, m_stop, main>>

\* Block::run returns.
RunBlock(t) ==
  /\ pc[t] = "run"
  /\ pc' = [pc EXCEPT ![t] = "done"]
  /\ UNCHANGED <<poolVars, running, m_queue, m_stop, torun, main>>

\* Block::run throws: the handler swallows the exception.
RunThrows(t) ==
  /\ pc[t] = "run"
  /\ pc' = [pc EXCEPT ![t] = "test"]
  /\ UNCHANGED <<poolVars, running, m_queue, m_stop, torun, main>>

\* Mutant of TaskDone: the block goes back to the front of the list.
TaskDoneFront(t) ==
  /\ pc[t] = "done"
  /\ m_queue' = [m_queue EXCEPT ![Pool(t)] = <<torun[t]>> \o @]
  /\ torun' = [torun EXCEPT ![t] = NoBlock]
  /\ pc' = [pc EXCEPT ![t] = "test"]
  /\ UNCHANGED <<poolVars, running, m_stop, main>>

\* Mutant of TaskDone: the pointer is reset before it is pushed.
TaskDoneEmpty(t) ==
  /\ pc[t] = "done"
  /\ m_queue' = [m_queue EXCEPT ![Pool(t)] = Append(@, NoBlock)]
  /\ torun' = [torun EXCEPT ![t] = NoBlock]
  /\ pc' = [pc EXCEPT ![t] = "test"]
  /\ UNCHANGED <<poolVars, running, m_stop, main>>

TaskDone(t) ==
  /\ pc[t] = "done"
  /\ m_queue' = [m_queue EXCEPT ![Pool(t)] = Append(@, torun[t])]
  /\ torun' = [torun EXCEPT ![t] = NoBlock]
  /\ pc' = [pc EXCEPT ![t] = "test"]
  /\ UNCHANGED <<poolVars, running, m_stop, main>>

Exit(t) ==
  /\ pc[t] = "exit"
  /\ m_stop' = [m_stop EXCEPT ![t] = TRUE]
  /\ pc' = [pc EXCEPT ![t] = "exited"]
  /\ UNCHANGED <<poolVars, running, m_queue, torun, main>>

-----------------------------------------------------------------------------
Configure == \/ \E p \in Pools : CreatePool(p) \/ DeletePool(p)
             \/ \E b \in Blocks, p \in Pools : AddToPool(b, p)
             \/ \E b \in Blocks : RemoveFromPool(b)

MainProgress == StartThread \/ StopThread \/ JoinThread

ThreadStep(t) == \/ Begin(t) \/ TestStop(t) \/ NextTask(t) \/ RunBlock(t)
                 \/ TaskDone(t) \/ Exit(t)

\* No block throws.
NormalNext == \/ Configure \/ Start \/ Stop \/ MainProgress
              \/ \E t \in Threads : ThreadStep(t)

Next == NormalNext \/ \E t \in Threads : RunThrows(t)

\* stop is called only when every thread has passed the first store of m_stop.
SettledNext == NormalNext /\ (Stop => \A t \in Threads : pc[t] # "begin")

\* The operating system runs every thread, and start and stop go on by
\* themselves once they are called.
Fairness == WF_vars(MainProgress) /\ \A t \in Threads : WF_vars(ThreadStep(t))

Spec            == Init /\ [][Next]_vars
FairNormalSpec  == Init /\ [][NormalNext]_vars /\ Fairness
FairSettledSpec == Init /\ [][SettledNext]_vars /\ Fairness
FairSpec        == Spec /\ Fairness

-----------------------------------------------------------------------------
(* Properties *)

TypeOK ==
  /\ m_map \subseteq Pools /\ running \in BOOLEAN
  /\ m_running \in [Pools -> BOOLEAN]
  /\ m_queue \in [Pools -> Seq(Blocks)]
  /\ home \in [Blocks -> Pools \cup {NoPool}]
  /\ m_stop \in [Threads -> BOOLEAN]
  /\ pc \in [Threads -> {"none", "begin", "test", "next", "run", "done", "exit",
                         "exited"}]
  /\ torun \in [Threads -> Blocks \cup {NoBlock}]
  /\ main \in [op : {"idle", "start", "stop", "join"}, pool : Pools \cup {NoPool},
               i : Nat]

\* The block is held by thread t between next_task and task_done.
Holds(t, b) == pc[t] \in {"run", "done"} /\ torun[t] = b

\* ThreadHandler.hpp 144-149: a block is run by at most one thread at a time and
\* only by a thread of its own pool.  The single consumer of every input queue,
\* and the blocks' state without locks, rest on it.
ExclusiveRun ==
  \A t \in Threads, b \in Blocks :
    Holds(t, b) => /\ Pool(t) = home[b]
                   /\ \A u \in Threads \ {t} : ~Holds(u, b)

Count(s, b) == Cardinality({i \in 1 .. Len(s) : s[i] = b})

\* PoolManager.hpp 196-202: when stop has returned no thread is left and every
\* block is back in the list of its pool, once, so that the composition can be
\* changed and started again.
Quiescent ==
  main = Idle /\ ~running =>
    /\ \A t \in Threads : pc[t] = "none"
    /\ \A p \in m_map : ~m_running[p]
    /\ \A b \in Blocks : home[b] # NoPool => Count(m_queue[home[b]], b) = 1

\* DumbScheduler.hpp 71-80: while the pools run, every block is run again and
\* again, however many blocks share the pool.
NoStarvation ==
  \A b \in Blocks :
    home[b] # NoPool /\ running ~> (\E t \in Threads : pc[t] = "run" /\ torun[t] = b)
                                   \/ ~running

\* ThreadHandler.hpp 164, "Tells the running thread to stop and blocks until it
\* terminates.": stop returns.
StopReturns == main.op \in {"stop", "join"} ~> main = Idle

\* ThreadHandler.hpp 122-123, "It receives a block from the scheduler, class its
\* run() method and returns it to the scheduler.": a block that is run is given
\* back.
BlockReturned ==
  \A b \in Blocks :
    (\E t \in Threads : Holds(t, b)) ~> \E p \in Pools : Count(m_queue[p], b) > 0
=============================================================================
