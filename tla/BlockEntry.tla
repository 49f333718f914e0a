----------------------------- MODULE BlockEntry ------------------------------
(***************************************************************************)
(* The entry points of class Block as threads go through them: a pool      *)
(* thread in run() of a block with queues, the timer thread in             *)
(* handle_timer, and whoever sends to a direct block in receive_msg, on    *)
(* top of the frames of its own handler.  The mutex of a direct block is   *)
(* held over everything its handler sends.  The gate's queue is a count    *)
(* here (module InGate has its threads) and the choice of the block to run *)
(* is the pool's (module ThreadPool: no block is run twice at a time).     *)
(***************************************************************************)
EXTENDS Integers, Sequences, Functions

CONSTANTS Order,       \* the blocks as they are configured, with
          Invocation,  \*   "direct", "indirect" or "async",
          Configs,     \*   what their node may say, block -> set of [mode, sync],
          Topologies,  \*   and the links between them: block -> Seq([to, gate])
          PoolThreads,
          NGates,      \* input gates of a block
          QueueSize, MAX_MSG_DEQUEUE, MaxEntries

VARIABLES links, node,
          m_queue_type, m_issynchronized,  \* block -> set by configure
          configured,    \* how many blocks configure has returned for
          mutex,         \* block -> owner of m_mutex, or "free"
          stack,         \* thread -> frames, the innermost first
          queue,         \* block -> gate -> messages waiting
          m_timer_queue, \* block -> timers waiting
          lost,          \* blocks that threw: the pool's thread forgets them
          entries        \* calls by the pools and the timer so far
vars == <<links, node, m_queue_type, m_issynchronized, configured, mutex, stack, queue, m_timer_queue, lost, entries>>

Blocks == Range(Order)
Threads == PoolThreads \cup {"timer"}
Gates == 1..NGates
is_direct(b) == Invocation[b] = "direct"
Links == [to : Blocks, gate : Gates]

(* What a composition gives: every link leads to a gate of a block, and    *)
(* the node says whether the block is thread-safe.                         *)
Composed ==
  /\ Order \in Seq(Blocks)
  /\ Invocation \in [Blocks -> {"direct", "indirect", "async"}]
  /\ Topologies \subseteq [Blocks -> Seq(Links)]
  /\ \A b \in Blocks : Configs[b] \subseteq [mode : STRING, sync : BOOLEAN]
  /\ "free" \notin Threads
  /\ NGates \in Nat /\ QueueSize \in Nat /\ MAX_MSG_DEQUEUE \in Nat

(* A handler still has to send through `todo`; a run() is at gate g, 0 for *)
(* the timers, and took so many messages of each gate.                     *)
Handler(b, todo, locked) == [b |-> b, pc |-> "in", locked |-> locked, todo |-> todo]
Waiting(b) == [b |-> b, pc |-> "lock", locked |-> FALSE, todo |-> <<>>]
Running(b) == [b |-> b, pc |-> "run", locked |-> FALSE, todo |-> <<>>,
               g |-> 0, took |-> [i \in Gates |-> 0], had |-> queue[b]]

Init ==
  /\ links \in Topologies
  /\ node \in {n \in [Blocks -> UNION {Configs[b] : b \in Blocks}] : \A b \in Blocks : n[b] \in Configs[b]}
  /\ m_queue_type = [b \in Blocks |-> "drop"]
  /\ m_issynchronized = [b \in Blocks |-> TRUE]
  /\ configured = 0
  /\ mutex = [b \in Blocks |-> "free"]
  /\ stack = [t \in Threads |-> <<>>]
  /\ queue = [b \in Blocks |-> [i \in Gates |-> 0]] /\ m_timer_queue = [b \in Blocks |-> 0]
  /\ lost = {} /\ entries = 0
-----------------------------------------------------------------------------
(* The queue type is asked for by an attribute, of an indirect block only; *)
(* "sleep" without a positive sleep_usec and an unknown word throw, and    *)
(* the composition is not installed.                                       *)
QueueTypeOf(b) ==
  IF Invocation[b] # "indirect" THEN "drop"
  ELSE IF node[b].mode = "none" THEN m_queue_type[b] ELSE node[b].mode
Refused(b) == Invocation[b] = "indirect" /\ node[b].mode \in {"sleep 0", "unknown"}

configure ==
  /\ configured < Len(Order)
  /\ LET b == Order[configured + 1]
     IN  /\ ~Refused(b)
         /\ m_queue_type' = [m_queue_type EXCEPT ![b] = QueueTypeOf(b)]
         /\ m_issynchronized' = [m_issynchronized EXCEPT ![b] = node[b].sync]
  /\ configured' = configured + 1
  /\ UNCHANGED <<links, node, mutex, stack, queue, m_timer_queue, lost, entries>>
-----------------------------------------------------------------------------
Top(t) == Head(stack[t])
(* The block's code decides whether a handler sends through its gates. *)
Todos(b) == {links[b], <<>>}

(* Mutant of Guarded: handlers of timers are called without the mutex. *)
GuardedMessages(b, what) == what = "message" /\ m_issynchronized[b]
Guarded(b, what) == m_issynchronized[b]

(* receive_msg and handle_timer of a direct block, called by thread t with *)
(* the frames `under` below: the mutex first if there is need of it.       *)
Enter(t, b, what, under) ==
  IF Guarded(b, what) THEN stack' = [stack EXCEPT ![t] = <<Waiting(b)>> \o under]
  ELSE \E todo \in Todos(b) : stack' = [stack EXCEPT ![t] = <<Handler(b, todo, FALSE)>> \o under]

Lock(t) ==
  /\ stack[t] # <<>> /\ Top(t).pc = "lock" /\ mutex[Top(t).b] = "free"
  /\ mutex' = [mutex EXCEPT ![Top(t).b] = t]
  /\ \E todo \in Todos(Top(t).b) :
       stack' = [stack EXCEPT ![t] = <<Handler(Top(t).b, todo, TRUE)>> \o Tail(@)]
  /\ UNCHANGED <<links, node, m_queue_type, m_issynchronized, configured, queue, m_timer_queue, lost, entries>>

(* A lock_guard gives the mutex back when its frame is left. *)
Unlocked(frames) ==
  [b \in Blocks |-> IF \E i \in DOMAIN frames : frames[i].b = b /\ frames[i].locked THEN "free" ELSE mutex[b]]

Return(t) ==
  /\ stack[t] # <<>> /\ Top(t).pc = "in" /\ Top(t).todo = <<>>
  /\ mutex' = Unlocked(<<Top(t)>>)
  /\ stack' = [stack EXCEPT ![t] = Tail(@)]
  /\ UNCHANGED <<links, node, m_queue_type, m_issynchronized, configured, queue, m_timer_queue, lost, entries>>

(* Mutant of Thrown: mutexes are given back by a statement that the        *)
(* exception skips.                                                        *)
ThrownLocked(t) == mutex' = mutex
Thrown(t) == mutex' = Unlocked(stack[t])
(* An exception goes through all frames up to the pool's thread, which     *)
(* drops it and does not give the block back to the scheduler.             *)
Throw(t) ==
  /\ t \in PoolThreads /\ stack[t] # <<>> /\ Top(t).pc = "in"
  /\ Thrown(t)
  /\ lost' = lost \cup {stack[t][Len(stack[t])].b}
  /\ stack' = [stack EXCEPT ![t] = <<>>]
  /\ UNCHANGED <<links, node, m_queue_type, m_issynchronized, configured, queue, m_timer_queue, entries>>

(* InGate::receive: a direct block is called, another one's queue gets the *)
(* message; when it is full the message is dropped or, as configured, the  *)
(* sender stays until there is room.                                       *)
Send(t) ==
  /\ stack[t] # <<>> /\ Top(t).pc = "in" /\ Top(t).todo # <<>>
  /\ LET l == Head(Top(t).todo)
         under == <<[Top(t) EXCEPT !.todo = Tail(@)]>> \o Tail(stack[t])
         room == queue[l.to][l.gate] < QueueSize
     IN  IF is_direct(l.to) THEN Enter(t, l.to, "message", under) /\ UNCHANGED queue
         ELSE /\ room \/ m_queue_type[l.to] = "drop"
              /\ stack' = [stack EXCEPT ![t] = under]
              /\ queue' = IF room THEN [queue EXCEPT ![l.to][l.gate] = @ + 1] ELSE queue
  /\ UNCHANGED <<links, node, m_queue_type, m_issynchronized, configured, mutex, m_timer_queue, lost, entries>>
-----------------------------------------------------------------------------
Enters == configured = Len(Order) /\ entries < MaxEntries /\ entries' = entries + 1

handle_timer(b) ==
  /\ Enters /\ stack["timer"] = <<>>
  /\ IF is_direct(b) THEN Enter("timer", b, "timer", <<>>) /\ UNCHANGED m_timer_queue
     ELSE m_timer_queue' = [m_timer_queue EXCEPT ![b] = @ + 1] /\ UNCHANGED stack
  /\ UNCHANGED <<links, node, m_queue_type, m_issynchronized, configured, mutex, queue, lost>>

Run(t, b) ==
  /\ Enters /\ stack[t] = <<>> /\ ~is_direct(b) /\ b \notin lost
  /\ \A u \in Threads : \A i \in DOMAIN stack[u] : stack[u][i].b # b
  /\ stack' = [stack EXCEPT ![t] = <<Running(b)>>]
  /\ UNCHANGED <<links, node, m_queue_type, m_issynchronized, configured, mutex, queue, m_timer_queue, lost>>

(* Mutant of AfterGate: an empty gate ends the round. *)
AfterGateStops(g, empty) == IF empty THEN NGates + 1 ELSE g + 1
AfterGate(g, empty) == g + 1

(* All timers, then up to MAX_MSG_DEQUEUE messages of each gate, then      *)
(* _do_async.                                                              *)
RunStep(t) ==
  /\ stack[t] # <<>> /\ Top(t).pc = "run"
  /\ LET f == Top(t)
         Go(h) == stack' = [stack EXCEPT ![t][1] = h]
         Call(h) == \E todo \in Todos(f.b) :
                      stack' = [stack EXCEPT ![t] = <<Handler(f.b, todo, FALSE), h>>]
         got == queue[f.b][f.g] > 0
     IN  \/ /\ f.g = 0 /\ m_timer_queue[f.b] > 0 /\ Call(f)
            /\ m_timer_queue' = [m_timer_queue EXCEPT ![f.b] = @ - 1] /\ UNCHANGED queue
         \/ /\ f.g = 0 /\ m_timer_queue[f.b] = 0 /\ Go([f EXCEPT !.g = 1])
            /\ UNCHANGED <<queue, m_timer_queue>>
         \/ /\ f.g \in Gates /\ f.took[f.g] < MAX_MSG_DEQUEUE /\ got
            /\ queue' = [queue EXCEPT ![f.b][f.g] = @ - 1]
            /\ Call([f EXCEPT !.took[f.g] = @ + 1]) /\ UNCHANGED m_timer_queue
         \/ /\ f.g \in Gates /\ ~(f.took[f.g] < MAX_MSG_DEQUEUE /\ got)
            /\ Go([f EXCEPT !.g = AfterGate(f.g, ~got)])
            /\ UNCHANGED <<queue, m_timer_queue>>
         \/ /\ f.g = NGates + 1 /\ Call([f EXCEPT !.g = NGates + 2])
            /\ UNCHANGED <<queue, m_timer_queue>>
         \/ /\ f.g = NGates + 2 /\ stack' = [stack EXCEPT ![t] = <<>>]
            /\ UNCHANGED <<queue, m_timer_queue>>
  /\ UNCHANGED <<links, node, m_queue_type, m_issynchronized, configured, mutex, lost, entries>>

Next ==
  \/ configure
  \/ \E b \in Blocks : handle_timer(b)
  \/ \E t \in PoolThreads, b \in Blocks : Run(t, b)
  \/ \E t \in Threads : Lock(t) \/ Return(t) \/ Throw(t) \/ Send(t) \/ RunStep(t)

Spec == Init /\ [][Next]_vars
-----------------------------------------------------------------------------
Inside(t, b) == \E i \in DOMAIN stack[t] : stack[t][i].b = b /\ stack[t][i].pc = "in"

(* Unless it said after its configuration that it is thread-safe, a block  *)
(* has one thread at most in its handlers, be it called by senders in      *)
(* several pools, by the timer thread or from its queues.                  *)
OneThreadInside ==
  \A b \in Blocks : ~(is_direct(b) /\ ~m_issynchronized[b]) =>
    \A t, u \in Threads : Inside(t, b) /\ Inside(u, b) => t = u

WaitsFor(t) == IF stack[t] # <<>> /\ Top(t).pc = "lock" /\ mutex[Top(t).b] # "free"
               THEN {mutex[Top(t).b]} ELSE {}

(* The direct blocks do not send to each other in a circle: they can be    *)
(* numbered so that every link leads upwards.                              *)
Ascends(rank, L) ==
  \A a \in Blocks : \A i \in DOMAIN L[a] :
    is_direct(a) /\ is_direct(L[a][i].to) => rank[a] < rank[L[a][i].to]
Acyclic == \E rank \in [Blocks -> 1 .. Len(Order)] : Ascends(rank, links)

(* A thread that waits for a mutex will get it: its owner is still inside  *)
(* that block, also after exceptions, and threads wait for each other in a *)
(* circle only if direct blocks send to each other in one.                 *)
MutexComesFree ==
  /\ \A t \in Threads : \A u \in WaitsFor(t) : Inside(u, Top(t).b)
  /\ Acyclic => ~\E T \in SUBSET Threads : T # {} /\ \A t \in T : WaitsFor(t) \cap T # {}

(* When run() comes to _do_async, it has taken from every gate what was    *)
(* there when it began, up to the limit: a busy or an empty gate does not  *)
(* keep the others waiting.                                                *)
EveryGateServed ==
  \A t \in Threads : \A i \in DOMAIN stack[t] :
    LET f == stack[t][i]
    IN  f.pc = "run" /\ f.g > NGates =>
          \A g \in Gates : f.took[g] >= MAX_MSG_DEQUEUE \/ f.took[g] >= f.had[g]
=============================================================================
