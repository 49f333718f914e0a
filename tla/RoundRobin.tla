----------------------------- MODULE RoundRobin -----------------------------
(***************************************************************************)
(* The round-robin scheduler and the queue behind it, two machines:        *)
(* RRScheduler with its threads and lists of blocks, and                   *)
(* more::shared_queue access by access.                                    *)
(***************************************************************************)
EXTENDS Integers, Sequences, FiniteSets, SequencesExt

-----------------------------------------------------------------------------
(***************************************************************************)
(* RRScheduler: the scheduling policy with one queue of blocks per thread. *)
(* Blocks are dealt to the queues in turn; a thread takes the first block  *)
(* of its own queue, runs it and puts it back at the end.  The main thread *)
(* adds and removes blocks while the pool is stopped, as BMProcess does.   *)
(* A queue is module SharedQueue; here it is a                             *)
(* sequence of at most N - 1 blocks.                                       *)
(***************************************************************************)
CONSTANTS
  MaxThreads, \* bound on the number of threads and queues
  N,        \* slots of a queue
  MaxRuns,  \* bound on the runs of a block between two changes
  MaxOps    \* bound on the changes the main thread makes

VARIABLES
  m_nq,       \* the number of threads and queues
  m_queues,   \* a sequence of blocks per thread
  m_last_id,  \* how many blocks were dealt
  torun,      \* the block each thread runs, <<>> or <<b>>
  running,    \* the pool's threads run
  kept,       \* blocks taken in, not removed, whose run did not throw
  runs,       \* runs of each block since the last change
  ops,        \* changes made so far
  overflow    \* a thread could not put its block back

RoundRobinVars == <<m_nq, m_queues, m_last_id, torun, running, kept, runs, ops, overflow>>

Ids == 0..(m_nq - 1)
Blocks == 1..MaxOps  \* blocks, numbered as they are added
Full(q) == Len(q) = N - 1

\* The main thread changes the scheduler only while the threads are stopped
WhileStopped == ~running

\* Mutant: blocks are added while the threads run.
AnyTime == TRUE

MayChange == WhileStopped

\* add_block: the next queue in turn; a full queue is an exception, and the
\* turn has passed all the same
add_block(b) ==
  /\ MayChange /\ ops < MaxOps
  /\ b = m_last_id + 1
  /\ LET q == m_last_id % m_nq
     IN  IF Full(m_queues[q]) THEN UNCHANGED <<m_queues, kept>>
         ELSE /\ m_queues' = [m_queues EXCEPT ![q] = Append(@, b)]
              /\ kept' = kept \cup {b}
  /\ m_last_id' = m_last_id + 1
  /\ runs' = [x \in Blocks |-> 0]
  /\ ops' = ops + 1
  /\ UNCHANGED <<m_nq, torun, running, overflow>>

Position(b, q) == CHOOSE i \in DOMAIN q : q[i] = b

\* A queue after remove_block: the blocks before the removed one have been
\* taken out and put back behind the others
RotatedOut(b, q) ==
  LET i == Position(b, q) IN SubSeq(q, i + 1, Len(q)) \o SubSeq(q, 1, i - 1)

\* Mutant: blocks in front of the removed one are not put back.
TakenOut(b, q) == LET i == Position(b, q) IN SubSeq(q, i + 1, Len(q))

Without(b, q) == RotatedOut(b, q)

\* remove_block: queues are searched in turn; a block in none of them is an
\* exception that changes nothing
remove_block(b) ==
  /\ MayChange /\ ops < MaxOps
  /\ m_queues' = [t \in Ids |-> IF b \in ToSet(m_queues[t])
                               THEN Without(b, m_queues[t]) ELSE m_queues[t]]
  /\ runs' = [x \in Blocks |-> 0]
  /\ ops' = ops + 1
  /\ kept' = {x \in kept : x = b => \A t \in Ids : b \notin ToSet(m_queues[t])}
  /\ UNCHANGED <<m_nq, m_last_id, torun, running, overflow>>

\* next_task: an empty queue yields no block
next_task(t) ==
  /\ running /\ torun[t] = <<>> /\ m_queues[t] # <<>>
  /\ runs[Head(m_queues[t])] < MaxRuns
  /\ torun' = [torun EXCEPT ![t] = <<Head(m_queues[t])>>]
  /\ m_queues' = [m_queues EXCEPT ![t] = Tail(@)]
  /\ runs' = [runs EXCEPT ![Head(m_queues[t])] = @ + 1]
  /\ UNCHANGED <<m_nq, m_last_id, running, kept, ops, overflow>>

\* The queue after task_done
PutLast(b, q) == Append(q, b)

\* Mutant: the block goes to the front.
PutFirst(b, q) == <<b>> \o q

PutBack(b, q) == PutLast(b, q)

task_done(t) ==
  /\ torun[t] # <<>>
  /\ IF Full(m_queues[t])
     THEN overflow' = TRUE /\ UNCHANGED m_queues
     ELSE /\ m_queues' = [m_queues EXCEPT ![t] = PutBack(torun[t][1], @)]
          /\ UNCHANGED overflow
  /\ torun' = [torun EXCEPT ![t] = <<>>]
  /\ UNCHANGED <<m_nq, m_last_id, running, kept, runs, ops>>

\* The block's run throws: the thread drops it
RunThrows(t) ==
  /\ torun[t] # <<>>
  /\ kept' = kept \ {torun[t][1]}
  /\ torun' = [torun EXCEPT ![t] = <<>>]
  /\ UNCHANGED <<m_nq, m_queues, m_last_id, running, runs, ops, overflow>>

Start == ~running /\ running' = TRUE
         /\ UNCHANGED <<m_nq, m_queues, m_last_id, torun, kept, runs, ops, overflow>>

\* stop joins the threads, which finish the block they run
Stop == /\ running /\ \A t \in Ids : torun[t] = <<>>
        /\ running' = FALSE
        /\ UNCHANGED <<m_nq, m_queues, m_last_id, torun, kept, runs, ops, overflow>>

RoundRobinInit ==
  /\ m_nq \in 1..MaxThreads
  /\ m_queues = [t \in Ids |-> <<>>] /\ m_last_id = 0
  /\ torun = [t \in Ids |-> <<>>] /\ running = FALSE
  /\ kept = {} /\ runs = [b \in Blocks |-> 0] /\ ops = 0 /\ overflow = FALSE

RoundRobinNext ==
  \/ \E b \in Blocks : add_block(b) \/ remove_block(b)
  \/ \E t \in Ids : next_task(t) \/ task_done(t) \/ RunThrows(t)
  \/ Start
  \/ Stop

RoundRobinSpec == RoundRobinInit /\ [][RoundRobinNext]_RoundRobinVars
-----------------------------------------------------------------------------
(***************************************************************************)
(* A thread always finds room for the block it puts back, although the     *)
(* queue may have been full when the block was taken: nobody adds blocks   *)
(* while threads run (RRScheduler.hpp:111-112 would throw).                *)
(***************************************************************************)
RoomToPutBack == ~overflow

(***************************************************************************)
(* Blocks of one queue run in turn: between two changes no block of a      *)
(* thread runs twice more than another one of the same thread.             *)
(***************************************************************************)
RunInTurn ==
  \A t \in Ids :
    \A b, c \in ToSet(m_queues[t]) \cup ToSet(torun[t]) : runs[b] - runs[c] <= 1

\* The places a block is in
Places(b) ==
  Cardinality({<<t, i>> \in Ids \X (1..N) : i \in DOMAIN m_queues[t] /\ m_queues[t][i] = b})
    + Cardinality({t \in Ids : torun[t] = <<b>>})

(***************************************************************************)
(* A block that was taken in, not removed and did not throw is in one      *)
(* queue or with one thread, any other block in none: no block is lost and *)
(* no two threads run the same one.                                        *)
(***************************************************************************)
BlocksInOnePlace ==
  \A b \in Blocks : Places(b) = (IF b \in kept THEN 1 ELSE 0)

-----------------------------------------------------------------------------
(***************************************************************************)
(* more::shared_queue as RRScheduler uses it: a ring of N slots, a power   *)
(* of two, with one producer and one consumer and no lock.  A step is one  *)
(* access to an atomic index or to a slot.  The ring is full when one slot *)
(* is left.                                                                *)
(***************************************************************************)
CONSTANTS
  RingN,    \* slots
  MaxPush   \* bound on the elements that are pushed: 1, 2, ...

VARIABLES
  storage,  \* the slots; 0 is a default element
  head,     \* index the producer writes next
  tail,     \* index the consumer reads next
  prod,     \* the producer: where it is, the indexes it has loaded
  cons,     \* the consumer: where it is, the index it has loaded
  pushed,   \* how many elements were pushed
  popped,   \* what the consumer has taken, in order
  dropped,  \* elements that clear has dropped
  sizes     \* the last result of size(), and the elements there were

SharedQueueVars == <<storage, head, tail, prod, cons, pushed, popped, dropped, sizes>>

S_mod(n) == n % RingN

Idle == [pc |-> "idle", i |-> 0]

\* push_back: head is loaded and compared with tail
PushCheck ==
  /\ prod.pc = "idle" /\ pushed < MaxPush
  /\ IF S_mod(head + 1) = tail
     THEN UNCHANGED prod
     ELSE prod' = [pc |-> "store", i |-> head]
  /\ UNCHANGED <<storage, head, tail, cons, pushed, popped, dropped, sizes>>

\* The element is written before the index that publishes it
PushBefore ==
  \/ /\ prod.pc = "store"
     /\ storage' = [storage EXCEPT ![prod.i] = pushed + 1]
     /\ prod' = [prod EXCEPT !.pc = "publish"]
     /\ UNCHANGED <<head, pushed>>
  \/ /\ prod.pc = "publish"
     /\ head' = S_mod(prod.i + 1)
     /\ pushed' = pushed + 1
     /\ prod' = Idle
     /\ UNCHANGED storage

\* Mutant: the index is published before the element is written.
PushAfter ==
  \/ /\ prod.pc = "store"
     /\ head' = S_mod(prod.i + 1)
     /\ prod' = [prod EXCEPT !.pc = "publish"]
     /\ UNCHANGED <<storage, pushed>>
  \/ /\ prod.pc = "publish"
     /\ storage' = [storage EXCEPT ![prod.i] = pushed + 1]
     /\ pushed' = pushed + 1
     /\ prod' = Idle
     /\ UNCHANGED head

push_backAfter ==
  /\ PushAfter
  /\ UNCHANGED <<tail, cons, popped, dropped, sizes>>

push_back ==
  /\ PushBefore
  /\ UNCHANGED <<tail, cons, popped, dropped, sizes>>

\* pop_front: tail is loaded and compared with head
PopCheck ==
  /\ cons.pc = "idle"
  /\ tail # head
  /\ cons' = [pc |-> "take", i |-> tail]
  /\ UNCHANGED <<storage, head, tail, prod, pushed, popped, dropped, sizes>>

\* The element is moved out before the slot is given back
pop_front ==
  /\ \/ /\ cons.pc = "take"
        /\ popped' = Append(popped, storage[cons.i])
        /\ storage' = [storage EXCEPT ![cons.i] = 0]
        /\ cons' = [cons EXCEPT !.pc = "release"]
        /\ UNCHANGED tail
     \/ /\ cons.pc = "release"
        /\ tail' = S_mod(cons.i + 1)
        /\ cons' = Idle
        /\ UNCHANGED <<storage, popped>>
  /\ UNCHANGED <<head, prod, pushed, dropped, sizes>>

\* clear: the consumer empties one slot after the other up to head, and then
\* sets tail to what head is by then
ClearStep ==
  /\ \/ /\ cons.pc = "idle" /\ tail # head
        /\ cons' = [pc |-> "clear", i |-> tail]
        /\ UNCHANGED <<storage, dropped, tail>>
     \/ /\ cons.pc = "clear" /\ cons.i # head
        /\ storage' = [storage EXCEPT ![cons.i] = 0]
        /\ dropped' = Append(dropped, storage[cons.i])
        /\ cons' = [cons EXCEPT !.i = S_mod(@ + 1)]
        /\ UNCHANGED tail
     \/ /\ cons.pc = "clear" /\ cons.i = head
        /\ cons' = [cons EXCEPT !.pc = "cleared"]
        /\ UNCHANGED <<storage, dropped, tail>>
     \/ /\ cons.pc = "cleared"
        /\ tail' = head
        /\ dropped' = dropped \o
             [k \in 1..((head - cons.i + RingN) % RingN) |-> storage[S_mod(cons.i + k - 1)]]
        /\ cons' = Idle
        /\ UNCHANGED storage
  /\ UNCHANGED <<head, prod, pushed, popped, sizes>>

\* size(), called by the consumer between its operations
SizeMod == LET s == head - tail IN IF s < 0 THEN s + RingN ELSE s

\* Mutant: the ring is not taken into account.
SizeFlat == head - tail

SizeOf == SizeMod

size ==
  /\ cons.pc = "idle"
  /\ sizes' = [said |-> SizeOf, had |-> pushed - Len(popped) - Len(dropped)]
  /\ UNCHANGED <<storage, head, tail, prod, cons, pushed, popped, dropped>>

SharedQueueInit ==
  /\ storage = [i \in 0..(RingN - 1) |-> 0]
  /\ head = 0 /\ tail = 0 /\ prod = Idle /\ cons = Idle
  /\ pushed = 0 /\ popped = <<>> /\ dropped = <<>> /\ sizes = [said |-> 0, had |-> 0]

SharedQueueNext ==
  \/ PushCheck \/ push_back
  \/ PopCheck \/ pop_front
  \/ ClearStep
  \/ size

SharedQueueSpec == SharedQueueInit /\ [][SharedQueueNext]_SharedQueueVars
-----------------------------------------------------------------------------
Taken == {popped[i] : i \in DOMAIN popped} \cup {dropped[i] : i \in DOMAIN dropped}

(***************************************************************************)
(* Elements come out in the order they were pushed, each once: what the    *)
(* consumer took or cleared away are the first elements that were pushed,  *)
(* although producer and consumer share the ring without a lock.           *)
(***************************************************************************)
OutInOrder ==
  /\ \A i, j \in DOMAIN popped : i < j => popped[i] < popped[j]
  /\ \A i, j \in DOMAIN dropped : i < j => dropped[i] < dropped[j]
  /\ Taken = 1..(Len(popped) + Len(dropped))
  /\ Len(popped) + Len(dropped) <= pushed

(***************************************************************************)
(* size() never promises the consumer more than it can pop: remove_block   *)
(* takes out as many elements as size() has told (RRScheduler.hpp:80-85).  *)
(***************************************************************************)
SizeCanBePopped == sizes.said \in 0..sizes.had
=============================================================================
