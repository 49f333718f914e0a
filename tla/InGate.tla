------------------------------- MODULE InGate -------------------------------
(***************************************************************************)
(* The input gate of an indirectly invoked block, built with               *)
(* BLOCKING_QUEUE (core/block/InGate.cpp, InGate.hpp).  Threads that send  *)
(* to the gate call receive, the thread that runs the block calls dequeue. *)
(*                                                                         *)
(* The queue is DBQueue with each call of push and pop as one step; the    *)
(* interleavings inside them are the subject of DBQueue.  claimed counts   *)
(* the slots taken in the producers' buffer, ready the messages left in    *)
(* the consumer's.                                                         *)
(*                                                                         *)
(* register_input_gate moves a temporary gate into the vector, and the     *)
(* move constructor sets neither WAIT_DURATION nor is_waiting: both start  *)
(* with any value.                                                         *)
(***************************************************************************)
EXTENDS Naturals, FiniteSets

CONSTANTS Senders,   \* threads whose blocks send to this gate
          Qlen,      \* slots of a buffer
          MaxSend    \* bound on the messages sent in a behaviour

ASSUME QlenAssumption == Qlen \in Nat \ {0} /\ MaxSend \in Nat
ASSUME SendersAssumption == IsFiniteSet(Senders)

VARIABLES
  queue_type,       \* of the owner: "drop", "mutex" or "poll" (sleep and yield)
  wait_expires,     \* whether WAIT_DURATION is a time that ever passes
  is_waiting,
  owner,            \* queue_mutex: the thread that holds it, or "none"
  asleep,           \* the senders blocked in wait_for
  running,          \* PoolManager::isRunning
  claimed, ready, m_full,   \* the queue
  pc,               \* per sender: its place in receive
  cons,             \* the consumer's place in dequeue
  sent, taken, dropped      \* how many messages were sent, dequeued, dropped

queueVars == <<claimed, ready, m_full, taken>>
confVars  == <<queue_type, wait_expires, running>>
vars == <<queue_type, wait_expires, is_waiting, owner, asleep, running, claimed,
          ready, m_full, pc, cons, sent, taken, dropped>>

Init ==
  /\ queue_type \in {"drop", "mutex", "poll"}
  /\ wait_expires \in BOOLEAN /\ is_waiting \in BOOLEAN
  /\ owner = "none" /\ asleep = {} /\ running = TRUE
  /\ claimed = 0 /\ ready = 0 /\ m_full = FALSE
  /\ pc = [s \in Senders |-> "idle"] /\ cons = "idle"
  /\ sent = 0 /\ taken = 0 /\ dropped = 0

-----------------------------------------------------------------------------
(* DBQueue *)

\* push: m_full refuses it; a claim past the last slot fails; the claim of the
\* last slot has m_full still to set (DBQueue.hpp 201-211).
PushRefused == m_full /\ UNCHANGED queueVars

PushTooLate == ~m_full /\ claimed = Qlen /\ UNCHANGED queueVars

\* Mutant of PushClaims: off by one, a slot past the last one is taken.
PushClaimsPast == /\ ~m_full /\ claimed <= Qlen
                  /\ claimed' = claimed + 1
                  /\ UNCHANGED <<ready, m_full, taken>>

PushClaims == /\ ~m_full /\ claimed < Qlen
              /\ claimed' = claimed + 1
              /\ UNCHANGED <<ready, m_full, taken>>

\* pop takes from the consumer's buffer, or swaps the buffers and then takes.
TakeReady == /\ ready > 0
             /\ ready' = ready - 1 /\ taken' = taken + 1
             /\ UNCHANGED <<claimed, m_full>>

SwapAndTake ==
  LET k == IF claimed > 0 THEN 1 ELSE 0
  IN /\ ready = 0
     /\ ready' = claimed - k /\ taken' = taken + k
     /\ claimed' = 0 /\ m_full' = FALSE

-----------------------------------------------------------------------------
(* receive *)

\* A failed push goes on to the loop's condition, a successful one returns.
TryPush(s) ==
  \/ /\ PushClaims
     /\ pc' = [pc EXCEPT ![s] = IF claimed = Qlen - 1 THEN "set_full" ELSE "idle"]
  \/ PushRefused /\ pc' = [pc EXCEPT ![s] = "again"]
  \/ PushTooLate /\ pc' = [pc EXCEPT ![s] = "again"]

Receive(s) ==
  /\ pc[s] = "idle" /\ running /\ sent < MaxSend
  /\ sent' = sent + 1
  /\ TryPush(s)
  /\ UNCHANGED <<confVars, is_waiting, owner, asleep, cons, dropped>>

\* The rest of a push into the last slot.
SetFull(s) ==
  /\ pc[s] = "set_full"
  /\ m_full' = TRUE
  /\ pc' = [pc EXCEPT ![s] = "idle"]
  /\ UNCHANGED <<confVars, is_waiting, owner, asleep, claimed, ready, taken, cons,
                 sent, dropped>>

\* Mutant of GiveUp: a blocked sender does not look whether the pools run.
GiveUpOnlyDrop(s) ==
  /\ pc[s] = "again"
  /\ queue_type = "drop"
  /\ dropped' = dropped + 1
  /\ pc' = [pc EXCEPT ![s] = "idle"]
  /\ UNCHANGED <<confVars, is_waiting, owner, asleep, queueVars, cons, sent>>

\* The condition of the loop is false: the message is given up.
GiveUp(s) ==
  /\ pc[s] = "again"
  /\ queue_type = "drop" \/ ~running
  /\ dropped' = dropped + 1
  /\ pc' = [pc EXCEPT ![s] = "idle"]
  /\ UNCHANGED <<confVars, is_waiting, owner, asleep, queueVars, cons, sent>>

\* sched_yield or usleep, then the next try.
Poll(s) ==
  /\ pc[s] = "again" /\ running /\ queue_type = "poll"
  /\ pc' = [pc EXCEPT ![s] = "retry"]
  /\ UNCHANGED <<confVars, is_waiting, owner, asleep, queueVars, cons, sent,
                 dropped>>

Lock(s) ==
  /\ pc[s] = "again" /\ running /\ queue_type = "mutex"
  /\ owner = "none" /\ owner' = s
  /\ is_waiting' = TRUE
  /\ pc' = [pc EXCEPT ![s] = "locked"]
  /\ UNCHANGED <<confVars, asleep, queueVars, cons, sent, dropped>>

\* wait_for finds the queue full and releases the mutex.
Sleep(s) ==
  /\ pc[s] = "locked" /\ m_full
  /\ asleep' = asleep \cup {s} /\ owner' = "none"
  /\ pc' = [pc EXCEPT ![s] = "wait"]
  /\ UNCHANGED <<confVars, is_waiting, queueVars, cons, sent, dropped>>

\* A notified sender has the mutex again and tests the queue.
Wake(s) ==
  /\ pc[s] = "wait" /\ s \notin asleep
  /\ owner = "none" /\ owner' = s
  /\ pc' = [pc EXCEPT ![s] = "locked"]
  /\ UNCHANGED <<confVars, is_waiting, asleep, queueVars, cons, sent, dropped>>

\* Mutant of Expire: the time of the wait is never up.
ExpireNever(s) == FALSE /\ s \in Senders /\ UNCHANGED vars

\* The time is up: wait_for returns with the mutex, whatever the queue.
Expire(s) ==
  /\ pc[s] = "wait" /\ wait_expires
  /\ owner = "none" /\ owner' = s
  /\ asleep' = asleep \ {s}
  /\ pc' = [pc EXCEPT ![s] = "leave"]
  /\ UNCHANGED <<confVars, is_waiting, queueVars, cons, sent, dropped>>

\* Mutant of Unlock: the message is not offered again after the wait.
UnlockNoRetry(s) ==
  /\ pc[s] = "leave" \/ (pc[s] = "locked" /\ ~m_full)
  /\ is_waiting' = FALSE
  /\ owner' = "none"
  /\ pc' = [pc EXCEPT ![s] = "idle"]
  /\ UNCHANGED <<confVars, asleep, queueVars, cons, sent, dropped>>

\* wait_for returns because the queue is not full, or because of the time.
Unlock(s) ==
  /\ pc[s] = "leave" \/ (pc[s] = "locked" /\ ~m_full)
  /\ is_waiting' = FALSE
  /\ owner' = "none"
  /\ pc' = [pc EXCEPT ![s] = "retry"]
  /\ UNCHANGED <<confVars, asleep, queueVars, cons, sent, dropped>>

Retry(s) ==
  /\ pc[s] = "retry"
  /\ TryPush(s)
  /\ UNCHANGED <<confVars, is_waiting, owner, asleep, cons, sent, dropped>>

-----------------------------------------------------------------------------
(* dequeue, and PoolManager::stop *)

\* dequeue looks at is_waiting without the mutex and decides how to pop.
Dequeue ==
  /\ cons = "idle" /\ running
  /\ cons' = IF queue_type = "mutex" /\ is_waiting THEN "lock" ELSE "pop"
  /\ UNCHANGED <<confVars, is_waiting, owner, asleep, queueVars, pc, sent, dropped>>

PlainPop ==
  /\ cons = "pop"
  /\ TakeReady \/ SwapAndTake
  /\ cons' = "idle"
  /\ UNCHANGED <<confVars, is_waiting, owner, asleep, pc, sent, dropped>>

\* pop_notify_all with the mutex held: a swap wakes every sender.
PopNotifyAll ==
  /\ cons = "lock" /\ owner = "none"
  /\ \/ TakeReady /\ UNCHANGED asleep
     \/ SwapAndTake /\ asleep' = {}
  /\ cons' = "idle"
  /\ UNCHANGED <<confVars, is_waiting, owner, pc, sent, dropped>>

StopPools ==
  /\ running /\ running' = FALSE
  /\ UNCHANGED <<queue_type, wait_expires, is_waiting, owner, asleep, queueVars, pc,
                 cons, sent, dropped>>

-----------------------------------------------------------------------------
InReceive(s) == \/ SetFull(s) \/ GiveUp(s) \/ Poll(s) \/ Lock(s) \/ Sleep(s) \/ Wake(s)
                \/ Expire(s) \/ Unlock(s) \/ Retry(s)

InDequeue == Dequeue \/ PlainPop \/ PopNotifyAll

Next == \/ \E s \in Senders : Receive(s) \/ InReceive(s)
        \/ InDequeue \/ StopPools

\* A sender that gets the mutex now and then gets on with its call; the pool
\* keeps running the block; the operating system wakes who was notified.
Fairness == /\ WF_vars(InDequeue)
            /\ \A s \in Senders : /\ WF_vars(SetFull(s) \/ GiveUp(s) \/ Poll(s)
                                             \/ Sleep(s) \/ Unlock(s) \/ Retry(s))
                                  /\ SF_vars(Lock(s)) /\ SF_vars(Wake(s))
                                  /\ SF_vars(Expire(s))

Spec     == Init /\ [][Next]_vars
FairSpec == Spec /\ Fairness

\* The gate as its first constructor would leave it: waits end after a second.
TimedInit == Init /\ wait_expires
TimedSpec == TimedInit /\ [][Next]_vars /\ Fairness

-----------------------------------------------------------------------------
(* Properties *)

TypeOK ==
  /\ queue_type \in {"drop", "mutex", "poll"}
  /\ wait_expires \in BOOLEAN /\ is_waiting \in BOOLEAN /\ running \in BOOLEAN
  /\ owner \in Senders \cup {"none"} /\ asleep \subseteq Senders
  /\ claimed \in 0 .. Qlen /\ ready \in 0 .. Qlen /\ m_full \in BOOLEAN
  /\ pc \in [Senders -> {"idle", "set_full", "again", "retry", "locked",
                        "wait", "leave"}]
  /\ cons \in {"idle", "pop", "lock"}
  /\ sent \in 0 .. MaxSend /\ taken \in 0 .. MaxSend /\ dropped \in 0 .. MaxSend

\* InGate.cpp 39-74 and 76-92: every message sent is in the queue, was dequeued,
\* is still being offered by its sender or was given up, and none is given up
\* by a blocking gate while the pools run, whatever the waits and retries.
Accounted ==
  /\ sent = taken + ready + claimed + dropped
            + Cardinality({s \in Senders : pc[s] \notin {"idle", "set_full"}})
  /\ queue_type # "drop" /\ running => dropped = 0

\* README.md 242-243, "In this mode a mutex is used to block the enqueueing
\* thread until a slot the queue becomes free.": a sender does not stay blocked
\* while there is room and the block is run.
BlockedUntilFree ==
  \A s \in Senders :
    pc[s] = "wait" /\ ~m_full ~> pc[s] # "wait" \/ m_full \/ ~running

\* InGate.cpp 49-51: when the pools are stopped every blocked sender leaves
\* receive, so that its thread can be joined.
StopFreesSenders == ~running ~> \A s \in Senders : pc[s] = "idle"
=============================================================================
