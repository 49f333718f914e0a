----------------------------- MODULE TimerThread -----------------------------
(***************************************************************************)
(* Timers and clocks (core/time): blocks schedule timers into a queue; the *)
(* timer thread moves them into a heap and fires the expired ones; with    *)
(* the packet clock every packet source advances the time itself and fires *)
(* expired timers too (PacketTime::time_past).  The process manager starts *)
(* and stops the pools and the timer thread together, and deletes blocks   *)
(* only while both are stopped.                                            *)
(*                                                                         *)
(* A unit of time is the step of the packet clock, a millisecond.  Every   *)
(* section under the spinlock is one action.                               *)
(***************************************************************************)
EXTENDS Naturals, FiniteSets

CONSTANTS Timers,      \* the timers the blocks may set
          Blocks,
          OwnerOf,     \* timer -> its block
          Period,      \* timer -> its period, 0 for a one-shot timer
          Sources,     \* the threads that call time_past
          Clocks,      \* the clock sources a composition may select
          MaxTime,     \* bound on the time
          MaxStarts,   \* bound on the starts of the process manager
          NoTimer

ASSUME TimersAssumption == /\ OwnerOf \in [Timers -> Blocks]
                           /\ Period \in [Timers -> Nat]
                           /\ NoTimer \notin Timers
ASSUME SourcesAssumption == "timer" \notin Sources
ASSUME BoundsAssumption == MaxTime \in Nat /\ MaxStarts \in Nat
                           /\ Clocks \subseteq {"WALL", "PACKET"}

Workers == Sources \cup {"timer"}

VARIABLES
  clock_source, clock,   \* the selected clock and the time it shows
  m_stop, m_running,     \* of the timer thread
  m_queue, m_heap,       \* sets of timers
  due,                   \* m_time of each timer
  unset,                 \* timers not set yet
  alive,                 \* the blocks that exist
  pc, tnow, cur,         \* per worker: its place in process_timer_events
  next, target,          \* per worker: next_time, target_time of time_past
  main, starts,          \* the process manager: "up", "pools", "timer", "down"
  fires                  \* per timer how often it fired, counted up to 2

timerVars == <<m_queue, m_heap, due, unset, alive>>
procVars  == <<pc, tnow, cur>>
packVars  == <<next, target>>
mainVars  == <<main, starts>>
vars == <<clock_source, clock, m_stop, m_running, m_queue, m_heap, due, unset, alive,
          pc, tnow, cur, next, target, main, starts, fires>>

Init ==
  /\ clock_source \in Clocks /\ clock = 0
  /\ m_stop = FALSE /\ m_running = FALSE
  /\ m_queue = {} /\ m_heap = {}
  /\ due = [t \in Timers |-> 0] /\ unset = Timers /\ alive = Blocks
  /\ pc = [w \in Workers |-> "none"]
  /\ tnow = [w \in Workers |-> 0] /\ cur = [w \in Workers |-> NoTimer]
  /\ next = [w \in Workers |-> 0] /\ target = [w \in Workers |-> 0]
  /\ main = "down" /\ starts = 0
  /\ fires = [t \in Timers |-> 0]

-----------------------------------------------------------------------------
(* Block::set_timer_at, Block::set_periodic_timer and schedule_timer *)

\* A one-shot timer is set to a time to come, a periodic one to now plus its
\* period: when the block is configured, while it runs, or by the handler of
\* another timer.
Schedule(t, ts) ==
  /\ OwnerOf[t] \in alive /\ t \in unset
  /\ IF Period[t] = 0 THEN ts > clock ELSE ts = clock + Period[t]
  /\ due' = [due EXCEPT ![t] = ts]
  /\ m_queue' = m_queue \cup {t} /\ unset' = unset \ {t}
  /\ UNCHANGED <<clock_source, clock, m_stop, m_running, m_heap, alive, procVars,
                 packVars, mainVars, fires>>

-----------------------------------------------------------------------------
(* process_timer_events, by the timer thread or by a packet source *)

ReadClock(w) ==
  /\ pc[w] = "clock"
  /\ tnow' = [tnow EXCEPT ![w] = clock]
  /\ pc' = [pc EXCEPT ![w] = "pop"]
  /\ UNCHANGED <<clock_source, clock, m_stop, m_running, timerVars, cur, packVars,
                 mainVars, fires>>

Expired(w) == {t \in m_heap : due[t] <= tnow[w]}

\* Mutant of PopExpired: the timer is copied from the top and left in the heap.
PopCopy(w) ==
  /\ pc[w] = "pop" /\ Expired(w) # {}
  /\ \E t \in m_heap :
       /\ \A u \in m_heap : due[t] <= due[u]
       /\ cur' = [cur EXCEPT ![w] = t]
       /\ UNCHANGED m_heap
  /\ pc' = [pc EXCEPT ![w] = "handle"]
  /\ UNCHANGED <<clock_source, clock, m_stop, m_running, m_queue, due, unset, alive,
                 tnow, packVars, mainVars, fires>>

\* The top of the heap has expired: it is removed, and the spinlock released.
PopExpired(w) ==
  /\ pc[w] = "pop" /\ Expired(w) # {}
  /\ \E t \in m_heap :
       /\ \A u \in m_heap : due[t] <= due[u]
       /\ cur' = [cur EXCEPT ![w] = t]
       /\ m_heap' = m_heap \ {t}
  /\ pc' = [pc EXCEPT ![w] = "handle"]
  /\ UNCHANGED <<clock_source, clock, m_stop, m_running, m_queue, due, unset, alive,
                 tnow, packVars, mainVars, fires>>

\* Nothing has expired: the timer thread sleeps and tests m_stop again, a
\* packet source goes on with its loop in time_past.
NoneExpired(w) ==
  /\ pc[w] = "pop" /\ Expired(w) = {}
  /\ pc' = [pc EXCEPT ![w] = IF w = "timer" THEN "test"
                             ELSE IF next[w] < target[w] THEN "past" ELSE "none"]
  /\ UNCHANGED <<clock_source, clock, m_stop, m_running, timerVars, tnow, cur,
                 packVars, mainVars, fires>>

\* handle_timer of the owner is called, without the spinlock.
Handle(w) ==
  /\ pc[w] = "handle"
  /\ fires' = [fires EXCEPT ![cur[w]] = IF @ < 2 THEN @ + 1 ELSE @]
  /\ pc' = [pc EXCEPT ![w] = "resched"]
  /\ UNCHANGED <<clock_source, clock, m_stop, m_running, timerVars, tnow, cur,
                 packVars, mainVars>>

\* next_time: a periodic timer is moved to now plus its period.
next_time(t) == IF Period[t] = 0 THEN due[t] ELSE clock + Period[t]

\* Still without the spinlock, the timer is asked for its next time; it is
\* dropped when that has not changed.
Reschedule(w) ==
  LET t == cur[w] IN
  /\ pc[w] = "resched"
  /\ due' = [due EXCEPT ![t] = next_time(t)]
  /\ IF next_time(t) # due[t]
     THEN pc' = [pc EXCEPT ![w] = "insert"] /\ UNCHANGED cur
     ELSE pc' = [pc EXCEPT ![w] = "pop"] /\ cur' = [cur EXCEPT ![w] = NoTimer]
  /\ UNCHANGED <<clock_source, clock, m_stop, m_running, m_queue, m_heap, unset,
                 alive, tnow, packVars, mainVars, fires>>

\* It goes back into the heap, under the spinlock.
Reinsert(w) ==
  /\ pc[w] = "insert"
  /\ m_heap' = m_heap \cup {cur[w]}
  /\ cur' = [cur EXCEPT ![w] = NoTimer]
  /\ pc' = [pc EXCEPT ![w] = "pop"]
  /\ UNCHANGED <<clock_source, clock, m_stop, m_running, m_queue, due, unset, alive,
                 tnow, packVars, mainVars, fires>>

-----------------------------------------------------------------------------
(* TimerThread::operator() *)

\* A second thread would end with an exception here.
TimerBegin ==
  /\ pc["timer"] = "begin" /\ ~m_running
  /\ m_running' = TRUE
  /\ pc' = [pc EXCEPT !["timer"] = "test"]
  /\ UNCHANGED <<clock_source, clock, m_stop, timerVars, tnow, cur, packVars,
                 mainVars, fires>>

\* Mutant of Drain: the timers of the queue are thrown away.
DrainLost ==
  /\ pc["timer"] = "test" /\ ~m_stop
  /\ m_queue' = {}
  /\ pc' = [pc EXCEPT !["timer"] = "clock"]
  /\ UNCHANGED <<clock_source, clock, m_stop, m_running, m_heap, due, unset, alive,
                 tnow, cur, packVars, mainVars, fires>>

\* One turn of the loop: the queue is emptied into the heap.
Drain ==
  /\ pc["timer"] = "test" /\ ~m_stop
  /\ m_heap' = m_heap \cup m_queue /\ m_queue' = {}
  /\ pc' = [pc EXCEPT !["timer"] = "clock"]
  /\ UNCHANGED <<clock_source, clock, m_stop, m_running, due, unset, alive, tnow,
                 cur, packVars, mainVars, fires>>

TimerExit ==
  /\ pc["timer"] = "test" /\ m_stop
  /\ m_running' = FALSE /\ m_stop' = TRUE
  /\ pc' = [pc EXCEPT !["timer"] = "exited"]
  /\ UNCHANGED <<clock_source, clock, timerVars, tnow, cur, packVars, mainVars,
                 fires>>

-----------------------------------------------------------------------------
(* The clocks *)

\* The wall clock goes on.
Tick ==
  /\ clock_source = "WALL" /\ clock < MaxTime
  /\ clock' = clock + 1
  /\ UNCHANGED <<clock_source, m_stop, m_running, timerVars, procVars, packVars,
                 mainVars, fires>>

\* A source calls time_past with the time of a packet.
TimePast(w, ts) ==
  /\ w \in Sources /\ main = "up" /\ clock_source = "PACKET"
  /\ pc[w] = "none"
  /\ target' = [target EXCEPT ![w] = ts]
  /\ next' = [next EXCEPT ![w] = IF clock = 0 THEN ts ELSE clock]
  /\ pc' = [pc EXCEPT ![w] = "past"]
  /\ UNCHANGED <<clock_source, clock, m_stop, m_running, timerVars, tnow, cur,
                 mainVars, fires>>

\* Mutant of Advance: an order violation is not noticed.
AdvanceUnchecked(w) ==
  LET n == IF next[w] + 1 < target[w] THEN next[w] + 1 ELSE target[w]
  IN /\ pc[w] = "past"
     /\ next' = [next EXCEPT ![w] = n]
     /\ clock' = n
     /\ pc' = [pc EXCEPT ![w] = "clock"]
     /\ UNCHANGED <<clock_source, m_stop, m_running, timerVars, tnow, cur, target,
                    mainVars, fires>>

\* Mutant of Advance: the last step is not cut at the target.
AdvanceOvershoot(w) ==
  LET n == next[w] + 1
  IN /\ pc[w] = "past"
     /\ next' = [next EXCEPT ![w] = n]
     /\ clock' = n
     /\ pc' = [pc EXCEPT ![w] = IF clock > n THEN "none" ELSE "clock"]
     /\ UNCHANGED <<clock_source, m_stop, m_running, timerVars, tnow, cur, target,
                    mainVars, fires>>

\* One turn of its loop: the exchange of m_packet_time, and the exception when
\* the old value was greater (the new one stays).
Advance(w) ==
  LET n == IF next[w] + 1 < target[w] THEN next[w] + 1 ELSE target[w]
  IN /\ pc[w] = "past"
     /\ next' = [next EXCEPT ![w] = n]
     /\ clock' = n
     /\ pc' = [pc EXCEPT ![w] = IF clock > n THEN "none" ELSE "clock"]
     /\ UNCHANGED <<clock_source, m_stop, m_running, timerVars, tnow, cur, target,
                    mainVars, fires>>

-----------------------------------------------------------------------------
(* The process manager: start_bm, stop_bm and the deletion of blocks *)

StartBm ==
  /\ main = "down" /\ starts < MaxStarts
  /\ main' = "up" /\ starts' = starts + 1
  /\ pc' = [pc EXCEPT !["timer"] = "begin"]
  /\ UNCHANGED <<clock_source, clock, m_stop, m_running, timerVars, tnow, cur,
                 packVars, fires>>

\* stop_schedulers: its threads, the packet sources among them, are joined.  The
\* step stands where no block begins another call of time_past.
StopSchedulers ==
  /\ main = "up" /\ main' = "pools"
  /\ UNCHANGED <<clock_source, clock, m_stop, m_running, timerVars, procVars,
                 packVars, starts, fires>>

\* Mutant of StopTimer: the flag is not set.
StopForgotten ==
  /\ main = "pools" /\ \A w \in Sources : pc[w] = "none"
  /\ main' = "timer"
  /\ UNCHANGED <<clock_source, clock, m_stop, m_running, timerVars, procVars,
                 packVars, starts, fires>>

StopTimer ==
  /\ main = "pools" /\ \A w \in Sources : pc[w] = "none"
  /\ m_stop' = TRUE /\ main' = "timer"
  /\ UNCHANGED <<clock_source, clock, m_running, timerVars, procVars, packVars,
                 starts, fires>>

\* Mutant of JoinTimer: the process manager does not wait for the timer thread.
JoinForgotten ==
  /\ main = "timer"
  /\ main' = "down"
  /\ UNCHANGED <<clock_source, clock, m_stop, m_running, timerVars, procVars,
                 packVars, starts, fires>>

JoinTimer ==
  /\ main = "timer" /\ pc["timer"] = "exited"
  /\ main' = "down"
  /\ pc' = [pc EXCEPT !["timer"] = "none"]
  /\ UNCHANGED <<clock_source, clock, m_stop, m_running, timerVars, tnow, cur,
                 packVars, starts, fires>>

\* Mutant of DeleteBlock: the heap keeps the timers of the block.
DeleteKeepsHeap(b) ==
  /\ main = "down" /\ b \in alive
  /\ alive' = alive \ {b}
  /\ m_queue' = {t \in m_queue : OwnerOf[t] # b}
  /\ UNCHANGED <<clock_source, clock, m_stop, m_running, m_heap, due, unset,
                 procVars, packVars, mainVars, fires>>

\* ~Block calls remove_references: its timers leave the queue, and the whole
\* heap is emptied.
DeleteBlock(b) ==
  /\ main = "down" /\ b \in alive
  /\ alive' = alive \ {b}
  /\ m_queue' = {t \in m_queue : OwnerOf[t] # b}
  /\ m_heap' = {}
  /\ UNCHANGED <<clock_source, clock, m_stop, m_running, due, unset, procVars,
                 packVars, mainVars, fires>>

-----------------------------------------------------------------------------
Times == 1 .. MaxTime

Process(w) == \/ ReadClock(w) \/ PopExpired(w) \/ NoneExpired(w) \/ Handle(w)
              \/ Reschedule(w) \/ Reinsert(w)

TimerStep == TimerBegin \/ Drain \/ TimerExit \/ Process("timer")

SourceStep(w) == Advance(w) \/ Process(w)

MainStep == StopTimer \/ JoinTimer

Next == \/ \E t \in Timers, ts \in 1 .. 2 * MaxTime : Schedule(t, ts)
        \/ TimerStep \/ Tick
        \/ \E w \in Sources : SourceStep(w) \/ \E ts \in Times : TimePast(w, ts)
        \/ StartBm \/ StopSchedulers \/ MainStep
        \/ \E b \in Blocks : DeleteBlock(b)

\* The threads run, and stop_bm goes on by itself; nothing makes a block set a
\* timer, a packet arrive or an operator start or stop the process.
Fairness == /\ WF_vars(TimerStep) /\ WF_vars(MainStep)
            /\ \A w \in Sources : WF_vars(SourceStep(w))

Spec     == Init /\ [][Next]_vars
FairSpec == Spec /\ Fairness

-----------------------------------------------------------------------------
(* Properties *)

TypeOK ==
  /\ clock_source \in Clocks /\ clock \in 0 .. MaxTime
  /\ m_stop \in BOOLEAN /\ m_running \in BOOLEAN
  /\ m_queue \subseteq Timers /\ m_heap \subseteq Timers
  /\ due \in [Timers -> 0 .. 2 * MaxTime]
  /\ unset \subseteq Timers /\ alive \subseteq Blocks
  /\ pc \in [Workers -> {"none", "begin", "test", "clock", "pop", "handle",
                         "resched", "insert", "past", "exited"}]
  /\ tnow \in [Workers -> 0 .. MaxTime]
  /\ cur \in [Workers -> Timers \cup {NoTimer}]
  /\ next \in [Workers -> 0 .. MaxTime] /\ target \in [Workers -> 0 .. MaxTime]
  /\ main \in {"up", "pools", "timer", "down"} /\ starts \in 0 .. MaxStarts
  /\ fires \in [Timers -> 0 .. 2]

\* TimerThread.cpp 104-116: a one-shot timer fires at most once, although the
\* timer thread and the packet sources empty the same heap and release the
\* spinlock while the handler runs.
OneShotOnce == \A t \in Timers : Period[t] = 0 => fires[t] <= 1

\* TimerThread.cpp 122-136 and Block.cpp 97-101: no timer of a deleted block is
\* left anywhere, so its handler is never called on a block that is gone.
NoDanglingTimer ==
  /\ \A t \in m_queue \cup m_heap : OwnerOf[t] \in alive
  /\ \A w \in Workers : cur[w] # NoTimer => OwnerOf[cur[w]] \in alive

\* TimerThread.cpp 62 and 124: while the process manager considers blockmon
\* stopped, the timer thread is gone and nobody touches the heap.
DownIsQuiet ==
  main = "down" => ~m_running /\ \A w \in Workers : pc[w] = "none"

\* PacketTime.cpp 61-99: the packet time goes back only in a call that ends
\* with the out-of-order exception.
BackOnlyWithException ==
  [][clock' < clock => \E w \in Sources : pc[w] = "past" /\ pc'[w] = "none"]_vars

IsDue(t) == t \in m_queue \cup m_heap /\ due[t] <= clock
Fired(t) == \E w \in Workers : pc[w] = "handle" /\ cur[w] = t

\* TimerThread.cpp 59-92: in the first run of the timer thread every timer that
\* is due is fired, whichever of the two containers it is in, unless the packet
\* time goes back.
FirstRunFires ==
  \A t \in Timers : IsDue(t) /\ main = "up" /\ starts = 1
                    ~> Fired(t) \/ clock < due[t] \/ main # "up"

\* bmprocess.py 182, "Starts all blockmon schedulers and timers": the same after
\* blockmon was stopped and started again.
DueTimersFire ==
  \A t \in Timers : IsDue(t) /\ main = "up"
                    ~> Fired(t) \/ clock < due[t] \/ main # "up"

\* backend_glue.cpp 63-70: stop_bm returns.
StopBmReturns == main \in {"pools", "timer"} ~> main = "down"

\* TimerThread.hpp 193, "Removes both from the timer heap and the timer queue
\* all of the timers associated to a given block.": and no other.
OthersKeepTimers ==
  [][\A b \in Blocks : DeleteBlock(b) =>
       \A t \in m_queue \cup m_heap : OwnerOf[t] # b => t \in m_queue' \cup m_heap']_vars
=============================================================================
