-------------------------- MODULE TimerThreadProofs --------------------------
(***************************************************************************)
(* Timers are fired once, never for a deleted block, and never while       *)
(* blockmon is down, for any number of timers, blocks, packet sources and  *)
(* starts, and for any times.                                              *)
(***************************************************************************)
EXTENDS TimerThread, TLAPS

Places == {"none", "begin", "test", "clock", "pop", "handle", "resched", "insert",
           "past", "exited"}

(* Between PopExpired and the end of Reschedule or Reinsert a worker has a *)
(* timer that is in neither container.                                     *)
Holding == {"handle", "resched", "insert"}

(* The types, without the bounds that TLC needs. *)
Types ==
  /\ m_queue \subseteq Timers /\ m_heap \subseteq Timers /\ unset \subseteq Timers
  /\ pc \in [Workers -> Places] /\ cur \in [Workers -> Timers \cup {NoTimer}]
  /\ fires \in [Timers -> 0 .. 2]
  /\ clock \in Nat /\ next \in [Workers -> Nat] /\ target \in [Workers -> Nat]

(* A worker has a timer exactly while it handles one. *)
Held == \A w \in Workers : IF pc[w] \in Holding THEN cur[w] \in Timers
                                                ELSE cur[w] = NoTimer

(* stop_bm joins the packet sources before the timer thread, and the timer *)
(* thread resets m_running before it ends.                                 *)
Joined ==
  /\ main \in {"timer", "down"} => \A w \in Sources : pc[w] = "none"
  /\ main = "down" => pc["timer"] = "none"
  /\ pc["timer"] \in {"none", "begin", "exited"} => ~m_running

(* A timer is in one place: not set yet, queued, in the heap, or with one  *)
(* worker.                                                                 *)
Apart ==
  /\ unset \cap m_queue = {} /\ unset \cap m_heap = {} /\ m_queue \cap m_heap = {}
  /\ \A w \in Workers : cur[w] \notin unset \cup m_queue \cup m_heap
  /\ \A v, w \in Workers : cur[v] = cur[w] /\ cur[v] # NoTimer => v = w

(* A one-shot timer that may still fire has not fired; one that has fired  *)
(* is not put back.                                                        *)
Unfired ==
  /\ \A t \in unset \cup m_queue \cup m_heap : Period[t] = 0 => fires[t] = 0
  /\ \A w \in Workers : /\ pc[w] = "handle" /\ Period[cur[w]] = 0 => fires[cur[w]] = 0
                        /\ pc[w] = "insert" => Period[cur[w]] # 0

IInv == /\ Types /\ Held /\ Joined /\ Apart /\ Unfired
        /\ OneShotOnce /\ NoDanglingTimer

-----------------------------------------------------------------------------
(* Init => IInv. *)
LEMMA InitIInv ==
  Init => IInv
<1> SUFFICES ASSUME Init PROVE IInv
  OBVIOUS
<1> USE TimersAssumption DEF Init
<1>1. Types
  BY DEF Types, Places
<1>2. Held
  BY DEF Held, Holding
<1>3. Joined
  BY DEF Joined, Workers
<1>4. Apart
  BY DEF Apart
<1>5. Unfired /\ OneShotOnce
  BY DEF Unfired, OneShotOnce
<1>6. NoDanglingTimer
  BY DEF NoDanglingTimer
<1>7. QED
  BY <1>1, <1>2, <1>3, <1>4, <1>5, <1>6 DEF IInv

-----------------------------------------------------------------------------
(* The steps of a worker in process_timer_events. *)

(* A worker that holds no timer moves on and holds none: nothing else of   *)
(* the invariant depends on where it is.                                   *)
LEMMA MovesOn ==
  ASSUME IInv, NEW w \in Workers, NEW v \in Places, pc' = [pc EXCEPT ![w] = v],
         pc[w] \notin Holding, v \notin Holding,
         UNCHANGED <<m_queue, m_heap, unset, alive, cur, fires>>,
         clock' \in Nat, next' \in [Workers -> Nat], target' \in [Workers -> Nat],
         Joined'
  PROVE  IInv'
<1>1. Types'
  BY Zenon DEF IInv, Types
<1>2. Held'
  BY DEF IInv, Held, Types
<1>3. Apart'
  BY DEF IInv, Apart
<1>4. Unfired' /\ OneShotOnce'
  BY DEF IInv, Unfired, OneShotOnce, Types, Holding
<1>5. NoDanglingTimer'
  BY DEF IInv, NoDanglingTimer
<1>6. QED
  BY <1>1, <1>2, <1>3, <1>4, <1>5 DEF IInv

(* A worker inside process_timer_events or time_past, and the timer thread *)
(* in its loop, do not disturb stop_bm: it waits for them.                 *)
LEMMA StaysJoined ==
  ASSUME IInv, NEW w \in Workers, NEW v \in Places, pc' = [pc EXCEPT ![w] = v],
         pc[w] \notin {"none", "begin", "exited"},
         w = "timer" => v \notin {"none", "begin", "exited"},
         UNCHANGED <<main, m_running>>
  PROVE  Joined'
<1>1. pc \in [Workers -> Places] /\ Joined
  BY DEF IInv, Types
<1>2. CASE w = "timer"
  BY <1>1, <1>2, SourcesAssumption DEF Joined, Workers
<1>3. CASE w \in Sources
  BY <1>1, <1>3, SourcesAssumption DEF Joined, Workers
<1>4. QED
  BY <1>2, <1>3 DEF Workers

(* TimerThread.cpp 96: tnow is read. *)
LEMMA ReadClockStep ==
  ASSUME IInv, NEW w \in Workers, ReadClock(w)
  PROVE  IInv'
<1>1. /\ pc' = [pc EXCEPT ![w] = "pop"] /\ pc[w] = "clock"
      /\ UNCHANGED <<m_queue, m_heap, unset, alive, cur, fires, clock, next, target,
                     main, m_running>>
  BY DEF ReadClock, timerVars, packVars, mainVars
<1>2. Joined'
  BY <1>1, StaysJoined, Zenon DEF Places
<1>3. QED
  BY <1>1, <1>2, MovesOn, Zenon DEF Places, Holding, IInv, Types

(* Nothing has expired. *)
LEMMA NoneExpiredStep ==
  ASSUME IInv, NEW w \in Workers, NoneExpired(w)
  PROVE  IInv'
<1>1. PICK v \in {"test", "past", "none"} :
        pc' = [pc EXCEPT ![w] = v] /\ (w = "timer" => v = "test")
  BY Zenon DEF NoneExpired
<1>2. /\ pc[w] = "pop"
      /\ UNCHANGED <<m_queue, m_heap, unset, alive, cur, fires, clock, next, target,
                     main, m_running>>
  BY DEF NoneExpired, timerVars, packVars, mainVars
<1>3. Joined'
  BY <1>1, <1>2, StaysJoined, Zenon DEF Places
<1>4. QED
  BY <1>1, <1>2, <1>3, MovesOn, Zenon DEF Places, Holding, IInv, Types

(* The top of the heap goes from the heap to the worker. *)
LEMMA PopExpiredStep ==
  ASSUME IInv, NEW w \in Workers, PopExpired(w)
  PROVE  IInv'
<1>1. PICK t \in m_heap : cur' = [cur EXCEPT ![w] = t] /\ m_heap' = m_heap \ {t}
  BY Zenon DEF PopExpired
<1>2. /\ pc[w] = "pop" /\ pc' = [pc EXCEPT ![w] = "handle"]
      /\ UNCHANGED <<m_queue, unset, alive, fires, clock, next, target, main, m_running>>
  BY DEF PopExpired, packVars, mainVars
<1>3. Types /\ t \in Timers /\ t # NoTimer /\ cur[w] = NoTimer
  BY <1>1, <1>2, TimersAssumption DEF IInv, Types, Held, Holding
<1>4. Types'
  BY <1>1, <1>2, <1>3 DEF Types, Places
<1>5. Held'
  BY <1>1, <1>2, <1>3, SMTT(30) DEF IInv, Held, Types, Holding
<1>6. Joined'
  BY <1>2, StaysJoined, Zenon DEF Places
<1>7. Apart'
  BY <1>1, <1>2, <1>3 DEF IInv, Apart, Types
<1>8. Unfired' /\ OneShotOnce'
  BY <1>1, <1>2, <1>3 DEF IInv, Unfired, OneShotOnce, Types
<1>9. NoDanglingTimer'
  BY <1>1, <1>2, <1>3 DEF IInv, NoDanglingTimer, Types
<1>10. QED
  BY <1>4, <1>5, <1>6, <1>7, <1>8, <1>9 DEF IInv

(* The handler is called.  Nobody else has this timer, so that a one-shot  *)
(* timer has not fired before.                                             *)
LEMMA HandleStep ==
  ASSUME IInv, NEW w \in Workers, Handle(w)
  PROVE  IInv'
<1> DEFINE t == cur[w]
<1>1. /\ pc[w] = "handle" /\ pc' = [pc EXCEPT ![w] = "resched"]
      /\ fires' = [fires EXCEPT ![t] = IF @ < 2 THEN @ + 1 ELSE @]
      /\ UNCHANGED <<m_queue, m_heap, unset, alive, cur, clock, next, target, main,
                     m_running>>
  BY DEF Handle, timerVars, packVars, mainVars
<1>2. Types /\ t \in Timers /\ t # NoTimer
  BY <1>1, TimersAssumption DEF IInv, Types, Held, Holding
<1>3. /\ \A u \in Timers \ {t} : fires'[u] = fires[u]
      /\ fires[t] = 0 => fires'[t] = 1
      /\ fires' \in [Timers -> 0 .. 2]
  BY <1>1, <1>2 DEF Types
<1>4. Types'
  BY <1>1, <1>2, <1>3 DEF Types, Places
<1>5. Held'
  BY <1>1, <1>2 DEF IInv, Held, Types, Holding
<1>6. Joined'
  BY <1>1, StaysJoined, Zenon DEF Places
<1>7. Apart'
  BY <1>1 DEF IInv, Apart
<1>8. Unfired'
  <2>1. ASSUME NEW u \in unset \cup m_queue \cup m_heap, Period[u] = 0
        PROVE  fires'[u] = 0
    BY <1>2, <1>3, <2>1 DEF IInv, Apart, Unfired, Types
  <2>2. ASSUME NEW v \in Workers, pc'[v] = "handle", Period[cur[v]] = 0
        PROVE  fires'[cur[v]] = 0
    <3>1. v # w /\ pc[v] = "handle"
      BY <1>1, <1>2, <2>2 DEF Types
    <3>2. cur[v] \in Timers \ {t}
      BY <1>2, <3>1 DEF IInv, Held, Holding, Apart
    <3>3. QED
      BY <1>3, <2>2, <3>1, <3>2 DEF IInv, Unfired
  <2>3. \A v \in Workers : pc'[v] = "insert" => Period[cur[v]] # 0
    BY <1>1, <1>2 DEF IInv, Unfired, Types
  <2>4. QED
    BY <1>1, <2>1, <2>2, <2>3 DEF Unfired
<1>9. OneShotOnce'
  <2>1. Period[t] = 0 => fires'[t] = 1
    BY <1>1, <1>3 DEF IInv, Unfired
  <2>2. QED
    BY <1>2, <1>3, <2>1 DEF IInv, OneShotOnce
<1>10. NoDanglingTimer'
  BY <1>1 DEF IInv, NoDanglingTimer
<1>11. QED
  BY <1>4, <1>5, <1>6, <1>7, <1>8, <1>9, <1>10 DEF IInv

(* A one-shot timer is dropped, because its next time is its last one.     *)
LEMMA RescheduleStep ==
  ASSUME IInv, NEW w \in Workers, Reschedule(w)
  PROVE  IInv'
<1>1. /\ pc[w] = "resched"
      /\ UNCHANGED <<m_queue, m_heap, unset, alive, fires, clock, next, target, main,
                     m_running>>
  BY DEF Reschedule, packVars, mainVars
<1>2. Types /\ cur[w] \in Timers /\ cur[w] # NoTimer
  BY <1>1, TimersAssumption DEF IInv, Types, Held, Holding
<1>3. CASE Period[cur[w]] # 0 /\ pc' = [pc EXCEPT ![w] = "insert"] /\ cur' = cur
  <2>1. Types' /\ Held'
    BY <1>1, <1>2, <1>3 DEF IInv, Types, Held, Places, Holding
  <2>2. Joined'
    BY <1>1, <1>3, StaysJoined, Zenon DEF Places
  <2>3. Apart' /\ NoDanglingTimer'
    BY <1>1, <1>3 DEF IInv, Apart, NoDanglingTimer
  <2>4. Unfired' /\ OneShotOnce'
    BY <1>1, <1>2, <1>3 DEF IInv, Unfired, OneShotOnce, Types
  <2>5. QED
    BY <2>1, <2>2, <2>3, <2>4 DEF IInv
<1>4. CASE pc' = [pc EXCEPT ![w] = "pop"] /\ cur' = [cur EXCEPT ![w] = NoTimer]
  <2>1. Types' /\ Held'
    BY <1>1, <1>2, <1>4 DEF IInv, Types, Held, Places, Holding
  <2>2. Joined'
    BY <1>1, <1>4, StaysJoined, Zenon DEF Places
  <2>3. Apart' /\ NoDanglingTimer'
    BY <1>1, <1>2, <1>4, TimersAssumption DEF IInv, Apart, NoDanglingTimer, Types
  <2>4. Unfired' /\ OneShotOnce'
    BY <1>1, <1>2, <1>4 DEF IInv, Unfired, OneShotOnce, Types
  <2>5. QED
    BY <2>1, <2>2, <2>3, <2>4 DEF IInv
<1>5. QED
  BY <1>3, <1>4 DEF Reschedule, next_time

(* A periodic timer goes from the worker back to the heap. *)
LEMMA ReinsertStep ==
  ASSUME IInv, NEW w \in Workers, Reinsert(w)
  PROVE  IInv'
<1>1. /\ pc[w] = "insert" /\ pc' = [pc EXCEPT ![w] = "pop"]
      /\ m_heap' = m_heap \cup {cur[w]} /\ cur' = [cur EXCEPT ![w] = NoTimer]
      /\ UNCHANGED <<m_queue, unset, alive, fires, clock, next, target, main, m_running>>
  BY DEF Reinsert, packVars, mainVars
<1>2. Types /\ cur[w] \in Timers /\ cur[w] # NoTimer /\ Period[cur[w]] # 0
  BY <1>1, TimersAssumption DEF IInv, Types, Held, Holding, Unfired
<1>3. Types' /\ Held'
  BY <1>1, <1>2 DEF IInv, Types, Held, Places, Holding
<1>4. Joined'
  BY <1>1, StaysJoined, Zenon DEF Places
<1>5. Apart'
  BY <1>1, <1>2, TimersAssumption DEF IInv, Apart, Types
<1>6. Unfired' /\ OneShotOnce'
  BY <1>1, <1>2 DEF IInv, Unfired, OneShotOnce, Types
<1>7. NoDanglingTimer'
  BY <1>1, <1>2 DEF IInv, NoDanglingTimer, Types
<1>8. QED
  BY <1>3, <1>4, <1>5, <1>6, <1>7 DEF IInv

-----------------------------------------------------------------------------
(* A timer is set: from unset into the queue, while its block is alive. *)
LEMMA ScheduleStep ==
  ASSUME IInv, NEW t \in Timers, NEW ts, Schedule(t, ts)
  PROVE  IInv'
<1>1. /\ t \in unset /\ OwnerOf[t] \in alive
      /\ m_queue' = m_queue \cup {t} /\ unset' = unset \ {t}
      /\ UNCHANGED <<m_heap, alive, pc, cur, fires, clock, next, target, main, m_running>>
  BY DEF Schedule, procVars, packVars, mainVars
<1>2. Types' /\ Held' /\ Joined'
  BY <1>1 DEF IInv, Types, Held, Joined
<1>3. Apart' /\ NoDanglingTimer'
  BY <1>1 DEF IInv, Apart, NoDanglingTimer
<1>4. Unfired' /\ OneShotOnce'
  BY <1>1 DEF IInv, Unfired, OneShotOnce
<1>5. QED
  BY <1>2, <1>3, <1>4 DEF IInv

(* The loop of the timer thread: its begin, one turn, its end. *)
LEMMA TimerLoopStep ==
  ASSUME IInv, TimerBegin \/ Drain \/ TimerExit
  PROVE  IInv'
<1>0. "timer" \in Workers /\ Types /\ Joined
  BY DEF Workers, IInv
<1>1. CASE TimerBegin
  <2>1. /\ pc["timer"] = "begin" /\ pc' = [pc EXCEPT !["timer"] = "test"]
        /\ UNCHANGED <<m_queue, m_heap, unset, alive, cur, fires, clock, next, target, main>>
    BY <1>1 DEF TimerBegin, timerVars, packVars, mainVars
  <2>2. Joined'
    BY <1>0, <2>1, SourcesAssumption DEF Joined, Types, Workers
  <2>3. QED
    BY <1>0, <2>1, <2>2, MovesOn, Zenon DEF Places, Holding, Types
<1>2. CASE Drain
  <2>1. /\ pc["timer"] = "test" /\ pc' = [pc EXCEPT !["timer"] = "clock"]
        /\ m_heap' = m_heap \cup m_queue /\ m_queue' = {}
        /\ UNCHANGED <<unset, alive, cur, fires, clock, next, target, main, m_running>>
    BY <1>2 DEF Drain, packVars, mainVars
  <2>2. Types' /\ Held'
    BY <1>0, <2>1 DEF IInv, Types, Held, Places, Holding
  <2>3. Joined'
    BY <1>0, <2>1, StaysJoined, Zenon DEF Places
  <2>4. Apart' /\ NoDanglingTimer'
    BY <2>1 DEF IInv, Apart, NoDanglingTimer
  <2>5. Unfired' /\ OneShotOnce'
    BY <1>0, <2>1 DEF IInv, Unfired, OneShotOnce, Types
  <2>6. QED
    BY <2>2, <2>3, <2>4, <2>5 DEF IInv
<1>3. CASE TimerExit
  <2>1. /\ pc["timer"] = "test" /\ pc' = [pc EXCEPT !["timer"] = "exited"]
        /\ m_running' = FALSE
        /\ UNCHANGED <<m_queue, m_heap, unset, alive, cur, fires, clock, next, target, main>>
    BY <1>3 DEF TimerExit, timerVars, packVars, mainVars
  <2>2. Joined'
    BY <1>0, <2>1, SourcesAssumption DEF Joined, Types, Workers
  <2>3. QED
    BY <1>0, <2>1, <2>2, MovesOn, Zenon DEF Places, Holding, Types
<1>4. QED
  BY <1>1, <1>2, <1>3

(* Steps in which no worker moves and no timer changes its place. *)
LEMMA OnlyClockOrMain ==
  ASSUME IInv, clock' \in Nat, Joined',
         UNCHANGED <<m_queue, m_heap, unset, alive, pc, cur, fires, next, target>>
  PROVE  IInv'
BY DEF IInv, Types, Held, Apart, Unfired, OneShotOnce, NoDanglingTimer

(* The clocks: a tick, and a packet source in time_past. *)
LEMMA ClockStep ==
  ASSUME IInv,
         \/ Tick
         \/ \E w \in Sources : Advance(w) \/ \E ts \in Times : TimePast(w, ts)
  PROVE  IInv'
<1>0. Types /\ Joined /\ BoundsAssumption
  BY BoundsAssumption DEF IInv
<1>1. CASE Tick
  <2>1. UNCHANGED <<m_queue, m_heap, unset, alive, pc, cur, fires, next, target, main, m_running>>
    BY <1>1 DEF Tick, timerVars, procVars, packVars, mainVars
  <2>2. clock' \in Nat
    BY <1>0, <1>1 DEF Tick, Types
  <2>3. QED
    BY <1>0, <2>1, <2>2, OnlyClockOrMain DEF Joined
<1>2. ASSUME NEW w \in Sources, Advance(w) PROVE IInv'
  <2>0. w \in Workers /\ w # "timer"
    BY SourcesAssumption DEF Workers
  <2>1. /\ pc[w] = "past"
        /\ UNCHANGED <<m_queue, m_heap, unset, alive, cur, fires, target, main, m_running>>
    BY <1>2 DEF Advance, timerVars, mainVars
  <2>2. clock' \in Nat /\ next' \in [Workers -> Nat]
    BY <1>0, <1>2, <2>0 DEF Advance, Types
  <2>3. PICK v \in {"none", "clock"} : pc' = [pc EXCEPT ![w] = v]
    BY <1>2, Zenon DEF Advance
  <2>4. Joined'
    BY <2>0, <2>1, <2>3, StaysJoined, Zenon DEF Places
  <2>5. QED
    BY <1>0, <2>0, <2>1, <2>2, <2>3, <2>4, MovesOn, Zenon DEF Places, Holding, Types
<1>3. ASSUME NEW w \in Sources, NEW ts \in Times, TimePast(w, ts) PROVE IInv'
  <2>0. w \in Workers /\ w # "timer" /\ ts \in Nat
    BY <1>0, SourcesAssumption DEF Workers, Times, BoundsAssumption
  <2>1. /\ pc[w] = "none" /\ main = "up" /\ pc' = [pc EXCEPT ![w] = "past"]
        /\ UNCHANGED <<m_queue, m_heap, unset, alive, cur, fires, clock, main, m_running>>
    BY <1>3 DEF TimePast, timerVars, mainVars
  <2>2. next' \in [Workers -> Nat] /\ target' \in [Workers -> Nat]
    BY <1>0, <1>3, <2>0 DEF TimePast, Types
  <2>3. Joined'
    BY <1>0, <2>0, <2>1 DEF Joined, Types, Workers
  <2>4. QED
    BY <1>0, <2>0, <2>1, <2>2, <2>3, MovesOn, Zenon DEF Places, Holding, Types
<1>4. QED
  BY <1>1, <1>2, <1>3

(* start_bm and stop_bm. *)
LEMMA StartStopStep ==
  ASSUME IInv, StartBm \/ StopSchedulers \/ StopTimer \/ JoinTimer
  PROVE  IInv'
<1>0. "timer" \in Workers /\ Types /\ Joined
  BY DEF Workers, IInv
<1>1. CASE StartBm
  <2>1. /\ main = "down" /\ main' = "up" /\ pc' = [pc EXCEPT !["timer"] = "begin"]
        /\ UNCHANGED <<m_queue, m_heap, unset, alive, cur, fires, clock, next, target, m_running>>
    BY <1>1 DEF StartBm, timerVars, packVars
  <2>2. Joined'
    BY <1>0, <2>1 DEF Joined, Types
  <2>3. pc["timer"] = "none"
    BY <1>0, <2>1 DEF Joined
  <2>4. QED
    BY <1>0, <2>1, <2>2, <2>3, MovesOn, Zenon DEF Places, Holding, Types
<1>2. CASE StopSchedulers \/ StopTimer
  <2>1. UNCHANGED <<m_queue, m_heap, unset, alive, pc, cur, fires, clock, next, target, m_running>>
    BY <1>2 DEF StopSchedulers, StopTimer, timerVars, procVars, packVars
  <2>2. Joined'
    BY <1>0, <1>2, <2>1 DEF StopSchedulers, StopTimer, Joined
  <2>3. QED
    BY <1>0, <2>1, <2>2, OnlyClockOrMain DEF Types
<1>3. CASE JoinTimer
  <2>1. /\ main = "timer" /\ main' = "down" /\ pc["timer"] = "exited"
        /\ pc' = [pc EXCEPT !["timer"] = "none"]
        /\ UNCHANGED <<m_queue, m_heap, unset, alive, cur, fires, clock, next, target, m_running>>
    BY <1>3 DEF JoinTimer, timerVars, packVars
  <2>2. Joined'
    BY <1>0, <2>1, SourcesAssumption DEF Joined, Types, Workers
  <2>3. QED
    BY <1>0, <2>1, <2>2, MovesOn, Zenon DEF Places, Holding, Types
<1>4. QED
  BY <1>1, <1>2, <1>3

(* A block is deleted while blockmon is down: no worker has a timer then,  *)
(* so that emptying the containers is enough.                              *)
LEMMA DeleteBlockStep ==
  ASSUME IInv, NEW b \in Blocks, DeleteBlock(b)
  PROVE  IInv'
<1>1. /\ main = "down" /\ alive' = alive \ {b} /\ m_heap' = {}
      /\ m_queue' = {t \in m_queue : OwnerOf[t] # b}
      /\ UNCHANGED <<unset, pc, cur, fires, clock, next, target, main, m_running>>
  BY DEF DeleteBlock, procVars, packVars, mainVars
<1>2. \A w \in Workers : cur[w] = NoTimer
  BY <1>1 DEF IInv, Joined, Held, Holding, Workers
<1>3. Types' /\ Held' /\ Joined'
  BY <1>1 DEF IInv, Types, Held, Joined
<1>4. Apart' /\ Unfired' /\ OneShotOnce'
  BY <1>1 DEF IInv, Apart, Unfired, OneShotOnce
<1>5. NoDanglingTimer'
  BY <1>1, <1>2 DEF IInv, NoDanglingTimer
<1>6. QED
  BY <1>3, <1>4, <1>5 DEF IInv

(* IInv /\ [Next]_vars => IInv'. *)
LEMMA NextIInv ==
  IInv /\ [Next]_vars => IInv'
<1> SUFFICES ASSUME IInv, [Next]_vars PROVE IInv'
  OBVIOUS
<1>1. ASSUME NEW w \in Workers, Process(w) PROVE IInv'
  BY <1>1, ReadClockStep, PopExpiredStep, NoneExpiredStep, HandleStep,
     RescheduleStep, ReinsertStep DEF Process
<1>2. CASE TimerStep
  BY <1>1, <1>2, TimerLoopStep DEF TimerStep, Workers
<1>3. ASSUME NEW w \in Sources, SourceStep(w) PROVE IInv'
  BY <1>1, <1>3, ClockStep DEF SourceStep, Workers
<1>4. CASE UNCHANGED vars
  BY <1>4, OnlyClockOrMain DEF vars, IInv, Types, Joined
<1>5. QED
  BY <1>2, <1>3, <1>4, ScheduleStep, ClockStep, StartStopStep, DeleteBlockStep
     DEF Next, MainStep

-----------------------------------------------------------------------------
(* TimerThread.cpp 104-116: a one-shot timer fires at most once, although  *)
(* the timer thread and the packet sources share one heap and release the  *)
(* spinlock while a handler runs.                                          *)
THEOREM FiresOnce == Spec => []OneShotOnce
<1>1. IInv => OneShotOnce
  BY DEF IInv
<1>2. QED
  BY <1>1, InitIInv, NextIInv, PTL DEF Spec

(* TimerThread.cpp 122-136, Block.cpp 97-101: no timer of a deleted block  *)
(* is queued, in the heap or being handled.                                *)
THEOREM NeverDangles == Spec => []NoDanglingTimer
<1>1. IInv => NoDanglingTimer
  BY DEF IInv
<1>2. QED
  BY <1>1, InitIInv, NextIInv, PTL DEF Spec

(* backend_glue.cpp 63-70: after stop_bm no worker is inside the timer     *)
(* code and the timer thread is gone, which is what lets a block be        *)
(* deleted without the spinlock.                                           *)
THEOREM QuietWhenDown == Spec => []DownIsQuiet
<1>1. IInv => DownIsQuiet
  BY DEF IInv, Joined, DownIsQuiet, Workers
<1>2. QED
  BY <1>1, InitIInv, NextIInv, PTL DEF Spec

(* PacketTime.cpp 61-99: the packet time goes back only in a call of       *)
(* time_past that ends with the out-of-order exception.                    *)
THEOREM BackWithException == Spec => BackOnlyWithException
<1>1. ASSUME IInv, [Next]_vars
      PROVE  [clock' < clock => \E w \in Sources : pc[w] = "past" /\ pc'[w] = "none"]_vars
  <2>1. CASE UNCHANGED clock
    BY <1>1, <2>1 DEF IInv, Types
  <2>2. CASE Tick
    BY <1>1, <2>2 DEF Tick, IInv, Types
  <2>3. ASSUME NEW w \in Sources, Advance(w), clock' < clock
        PROVE  pc[w] = "past" /\ pc'[w] = "none"
    BY <1>1, <2>3 DEF Advance, IInv, Types, Workers
  <2>4. QED
    BY <1>1, <2>1, <2>2, <2>3, Zenon
       DEF Next, Schedule, TimerStep, TimerBegin, Drain, TimerExit, Process, ReadClock,
           PopExpired, NoneExpired, Handle, Reschedule, Reinsert, SourceStep, TimePast,
           StartBm, StopSchedulers, MainStep, StopTimer, JoinTimer, DeleteBlock, vars
<1>2. QED
  BY <1>1, InitIInv, NextIInv, PTL DEF Spec, BackOnlyWithException

(* PacketTime.cpp 61-99 and TimerThread.cpp 75-116: the clock, which is    *)
(* cut at the time of the packet, and what the workers read of it stay     *)
(* within the times of the packets, and a timer is never due later than a  *)
(* period after that, in any order of the sources' steps.  The bound on    *)
(* the times covers the periods.                                           *)
THEOREM TimerTypeCorrect ==
  ASSUME \A t \in Timers : Period[t] <= MaxTime
  PROVE  Spec => []TypeOK
<1> USE TimersAssumption, SourcesAssumption, BoundsAssumption
<1>1. ASSUME Init PROVE TypeOK
  <2>1. Init
    BY <1>1
  <2>2. due \in [Timers -> 0 .. 2 * MaxTime] /\ fires \in [Timers -> 0 .. 2] /\ starts \in 0 .. MaxStarts
    BY <2>1 DEF Init
  <2>3. /\ tnow \in [Workers -> 0 .. MaxTime] /\ next \in [Workers -> 0 .. MaxTime]
        /\ target \in [Workers -> 0 .. MaxTime] /\ cur \in [Workers -> Timers \cup {NoTimer}]
    BY <2>1 DEF Init
  <2>4. /\ clock_source \in Clocks /\ clock \in 0 .. MaxTime
        /\ m_queue \subseteq Timers /\ m_heap \subseteq Timers /\ unset \subseteq Timers
        /\ alive \subseteq Blocks /\ main \in {"up", "pools", "timer", "down"}
    BY <2>1 DEF Init
  <2>5. pc \in [Workers -> {"none", "begin", "test", "clock", "pop", "handle",
                            "resched", "insert", "past", "exited"}]
    BY <2>1 DEF Init
  <2>6. m_stop \in BOOLEAN /\ m_running \in BOOLEAN
    BY <2>1, ZenonT(40) DEF Init
  <2> QED BY <2>2, <2>3, <2>4, <2>5, <2>6 DEF TypeOK
<1>2. ASSUME IInv, TypeOK, [Next]_vars PROVE TypeOK'
  <2> USE <1>2 DEF TypeOK
  <2>1. CASE UNCHANGED vars
    BY <2>1 DEF vars
  <2>2. ASSUME NEW t \in Timers, NEW ts \in 1 .. 2 * MaxTime, Schedule(t, ts) PROVE TypeOK'
    BY <2>2, SMTT(30) DEF Schedule, procVars, packVars, mainVars
  <2>3. ASSUME NEW w \in Workers, Process(w) PROVE TypeOK'
    <3>1. CASE ReadClock(w)
      BY <3>1 DEF ReadClock, timerVars, packVars, mainVars
    <3>2. CASE PopExpired(w)
      BY <3>2 DEF PopExpired, packVars, mainVars
    <3>3. CASE NoneExpired(w)
      BY <3>3 DEF NoneExpired, timerVars, packVars, mainVars
    <3>4. CASE Handle(w)
      <4>1. cur[w] \in Timers
        BY <3>4 DEF Handle, IInv, Held, Holding
      <4>2. fires' \in [Timers -> 0 .. 2]
        BY <3>4, <4>1 DEF Handle
      <4> QED BY <3>4, <4>2 DEF Handle, timerVars, packVars, mainVars
    <3>5. CASE Reschedule(w)
      <4>1. ASSUME NEW t \in Timers PROVE next_time(t) \in 0 .. 2 * MaxTime
        BY DEF next_time
      <4>2. due' \in [Timers -> 0 .. 2 * MaxTime]
        BY <3>5, <4>1, Zenon DEF Reschedule
      <4> QED BY <3>5, <4>2 DEF Reschedule, packVars, mainVars
    <3>6. CASE Reinsert(w)
      <4>1. cur[w] \in Timers
        BY <3>6 DEF Reinsert, IInv, Held, Holding
      <4> QED BY <3>6, <4>1 DEF Reinsert, packVars, mainVars
    <3> QED BY <2>3, <3>1, <3>2, <3>3, <3>4, <3>5, <3>6 DEF Process
  <2>4. CASE TimerBegin \/ Drain \/ TimerExit
    BY <2>4, Zenon DEF TimerBegin, Drain, TimerExit, timerVars, packVars, mainVars
  <2>5. CASE Tick
    BY <2>5 DEF Tick, timerVars, procVars, packVars, mainVars
  <2>6. ASSUME NEW w \in Sources, Advance(w) PROVE TypeOK'
    BY <2>6 DEF Advance, timerVars, mainVars, Workers
  <2>7. ASSUME NEW w \in Sources, NEW ts \in Times, TimePast(w, ts) PROVE TypeOK'
    BY <2>7 DEF TimePast, Times, timerVars, mainVars, Workers
  <2>8. CASE StartBm \/ StopSchedulers \/ StopTimer \/ JoinTimer
    <3>1. CASE StartBm
      <4>1. starts' \in 0 .. MaxStarts
        BY <3>1 DEF StartBm
      <4>2. pc' \in [Workers -> {"none", "begin", "test", "clock", "pop", "handle",
                                 "resched", "insert", "past", "exited"}]
        BY <3>1, Zenon DEF StartBm
      <4> QED BY <3>1, <4>1, <4>2 DEF StartBm, timerVars, packVars
    <3>2. CASE StopSchedulers \/ StopTimer
      BY <3>2, Zenon DEF StopSchedulers, StopTimer, timerVars, procVars, packVars
    <3>3. CASE JoinTimer
      BY <3>3, Zenon DEF JoinTimer, timerVars, packVars
    <3> QED BY <2>8, <3>1, <3>2, <3>3
  <2>9. ASSUME NEW b \in Blocks, DeleteBlock(b) PROVE TypeOK'
    BY <2>9 DEF DeleteBlock, procVars, packVars, mainVars
  <2> QED
    <3> USE DEF Workers
    <3>1. TimerStep => Process("timer") \/ TimerBegin \/ Drain \/ TimerExit
      BY DEF TimerStep
    <3>2. \A w \in Sources : SourceStep(w) => Advance(w) \/ Process(w)
      BY DEF SourceStep
    <3>3. MainStep => StopTimer \/ JoinTimer
      BY DEF MainStep
    <3> QED BY <2>1, <2>2, <2>3, <2>4, <2>5, <2>6, <2>7, <2>8, <2>9, <3>1, <3>2, <3>3 DEF Next
<1> QED BY <1>1, <1>2, InitIInv, NextIInv, PTL DEF Spec
=============================================================================
