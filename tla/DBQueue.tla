------------------------------- MODULE DBQueue -------------------------------
(***************************************************************************)
(* The double-buffered, lock-free queue of an input gate                   *)
(* (core/block/DBQueue.hpp).  Any number of sending threads push; one      *)
(* thread, the one that runs the receiving block, pops.  Producers fill    *)
(* the buffer that m_pointer names, the consumer drains the other one and  *)
(* exchanges the two when it has nothing left to read.                     *)
(*                                                                         *)
(* One action is one access to the shared memory, with the private         *)
(* computation around it.  m_pointer is kept as the pair it encodes: the   *)
(* two top bits (the buffer) and the low 30 bits (the next slot).          *)
(***************************************************************************)
EXTENDS Naturals, Sequences

CONSTANTS Producers,   \* the threads that push
          Qlen,        \* slots of one buffer (1024 in InGate)
          SlotSpan,    \* how many slot numbers m_pointer can count (2^30)
          MaxPush,     \* bound on the calls of push in a behaviour
          NoMsg        \* the empty shared_ptr

ASSUME QlenAssumption == Qlen \in Nat \ {0}
ASSUME SpanAssumption == SlotSpan \in Nat /\ MaxPush \in Nat /\ Qlen < SlotSpan
ASSUME NoMsgAssumption == NoMsg \notin [from : Producers, n : Nat]

Buffers == {0, 1}
Slots   == 0 .. Qlen - 1
Msgs    == [from : Producers, n : 1 .. MaxPush]

VARIABLES
  valid, payload,   \* m_queues: the two fields of every slot
  m_pointer,        \* [queue, slot] that the next push will claim
  m_read, m_consumer_q, m_full_slots,   \* private to the consumer
  m_full,
  pc, cur, in,      \* per producer: where it is in push, cur_pointer, argument
  cons,             \* where the consumer is in pop
  pushes,           \* calls of push so far: the number of the last message
  delivered         \* the messages pop returned, in order

qVars    == <<valid, payload>>
consVars == <<m_read, m_consumer_q, m_full_slots, cons, delivered>>
prodVars == <<pc, cur, in, pushes>>
vars     == <<valid, payload, m_pointer, m_read, m_consumer_q, m_full_slots,
              m_full, pc, cur, in, cons, pushes, delivered>>

Origin == [queue |-> 0, slot |-> 0]

exchange_queue(q) == 1 - q

Init ==
  /\ valid   = [b \in Buffers |-> [s \in Slots |-> FALSE]]
  /\ payload = [b \in Buffers |-> [s \in Slots |-> NoMsg]]
  /\ m_pointer = Origin
  /\ m_read = 0 /\ m_consumer_q = 1 /\ m_full_slots = 0
  /\ m_full = FALSE
  /\ pc  = [p \in Producers |-> "idle"]
  /\ cur = [p \in Producers |-> Origin]
  /\ in  = [p \in Producers |-> NoMsg]
  /\ cons = "idle"
  /\ pushes = 0
  /\ delivered = <<>>

-----------------------------------------------------------------------------
(* push *)

\* push is called and finds m_full set: it returns false.
PushRefused(p) ==
  /\ pc[p] = "idle" /\ pushes < MaxPush
  /\ m_full
  /\ pushes' = pushes + 1
  /\ UNCHANGED <<qVars, m_pointer, m_full, pc, cur, in, consVars>>

\* push is called and finds m_full clear.
PushEnter(p) ==
  /\ pc[p] = "idle" /\ pushes < MaxPush
  /\ ~m_full
  /\ pushes' = pushes + 1
  /\ in' = [in EXCEPT ![p] = [from |-> p, n |-> pushes + 1]]
  /\ pc' = [pc EXCEPT ![p] = "claim"]
  /\ UNCHANGED <<qVars, m_pointer, m_full, cur, consVars>>

\* The fetch_add claims a slot of the buffer.
ClaimSlot(p) ==
  /\ pc[p] = "claim"
  /\ m_pointer.slot < Qlen
  /\ cur' = [cur EXCEPT ![p] = m_pointer]
  /\ m_pointer' = [m_pointer EXCEPT !.slot = @ + 1]
  /\ pc' = [pc EXCEPT ![p] = IF m_pointer.slot = Qlen - 1 THEN "set_full"
                                                          ELSE "write"]
  /\ UNCHANGED <<qVars, m_full, in, pushes, consVars>>

\* The fetch_add comes after the last slot was claimed: push returns false.
\* SlotSpan bounds the count: past it the slot number would run into the two
\* bits that name the buffer.
ClaimTooLate(p) ==
  /\ pc[p] = "claim"
  /\ m_pointer.slot >= Qlen /\ m_pointer.slot + 1 < SlotSpan
  /\ m_pointer' = [m_pointer EXCEPT !.slot = @ + 1]
  /\ pc' = [pc EXCEPT ![p] = "idle"]
  /\ in' = [in EXCEPT ![p] = NoMsg]
  /\ UNCHANGED <<qVars, m_full, cur, pushes, consVars>>

\* The producer of the last slot marks the queue full.
SetFull(p) ==
  /\ pc[p] = "set_full"
  /\ m_full' = TRUE
  /\ pc' = [pc EXCEPT ![p] = "write"]
  /\ UNCHANGED <<qVars, m_pointer, cur, in, pushes, consVars>>

Write(p) ==
  /\ pc[p] = "write"
  /\ payload' = [payload EXCEPT ![cur[p].queue][cur[p].slot] = in[p]]
  /\ pc' = [pc EXCEPT ![p] = "publish"]
  /\ UNCHANGED <<valid, m_pointer, m_full, cur, in, pushes, consVars>>

\* valid is set and push returns true.
Publish(p) ==
  /\ pc[p] = "publish"
  /\ valid' = [valid EXCEPT ![cur[p].queue][cur[p].slot] = TRUE]
  /\ pc' = [pc EXCEPT ![p] = "idle"]
  /\ cur' = [cur EXCEPT ![p] = Origin]
  /\ in' = [in EXCEPT ![p] = NoMsg]
  /\ UNCHANGED <<payload, m_pointer, m_full, pushes, consVars>>

-----------------------------------------------------------------------------
(* pop: consume in the first pass, and if that finds nothing swap_queues and *)
(* a second pass.  cons = "first" or "second" is the pass.                    *)

Consuming == cons \in {"first", "second"}

Pop ==
  /\ cons = "idle"
  /\ cons' = "first"
  /\ UNCHANGED <<qVars, m_pointer, m_read, m_consumer_q, m_full_slots, m_full,
                 prodVars, delivered>>

\* One of the tries finds the slot valid.
SeeValid ==
  /\ Consuming /\ m_read < m_full_slots
  /\ valid[m_consumer_q][m_read]
  /\ cons' = "move"
  /\ UNCHANGED <<qVars, m_pointer, m_read, m_consumer_q, m_full_slots, m_full,
                 prodVars, delivered>>

\* Mutant of Move: the payload is copied out, not moved.
MoveByCopy ==
  /\ cons = "move"
  /\ delivered' = Append(delivered, payload[m_consumer_q][m_read])
  /\ m_read' = m_read + 1
  /\ cons' = "idle"
  /\ UNCHANGED <<qVars, m_pointer, m_consumer_q, m_full_slots, m_full, prodVars>>

\* The payload is moved out, which leaves an empty pointer; pop returns true.
Move ==
  /\ cons = "move"
  /\ delivered' = Append(delivered, payload[m_consumer_q][m_read])
  /\ payload' = [payload EXCEPT ![m_consumer_q][m_read] = NoMsg]
  /\ m_read' = m_read + 1
  /\ cons' = "idle"
  /\ UNCHANGED <<valid, m_pointer, m_consumer_q, m_full_slots, m_full, prodVars>>

\* Mutant of Skip: the slot that timed out is tried again.
SkipForgotten ==
  /\ Consuming /\ m_read < m_full_slots
  /\ ~valid[m_consumer_q][m_read]
  /\ UNCHANGED vars

\* All 100 tries found the slot not valid: it is passed over.
Skip ==
  /\ Consuming /\ m_read < m_full_slots
  /\ ~valid[m_consumer_q][m_read]
  /\ m_read' = m_read + 1
  /\ UNCHANGED <<qVars, m_pointer, m_consumer_q, m_full_slots, m_full,
                 prodVars, cons, delivered>>

\* consume has nothing left: swap the buffers, or give up in the second pass.
Exhausted ==
  /\ Consuming /\ m_read >= m_full_slots
  /\ cons' = IF cons = "first" THEN "clear" ELSE "idle"
  /\ UNCHANGED <<qVars, m_pointer, m_read, m_consumer_q, m_full_slots, m_full,
                 prodVars, delivered>>

\* Mutant of ClearValid: the flags are left set.
ClearForgotten ==
  /\ cons = "clear"
  /\ cons' = "exchange"
  /\ UNCHANGED <<qVars, m_pointer, m_read, m_consumer_q, m_full_slots, m_full,
                 prodVars, delivered>>

\* swap_queues, the loop: the flags of the slots that were full are cleared.
\* No other thread reads a flag, so the loop is one step.
ClearValid ==
  /\ cons = "clear"
  /\ valid' = [valid EXCEPT ![m_consumer_q] =
                 [s \in Slots |-> IF s < m_full_slots THEN FALSE ELSE @[s]]]
  /\ cons' = "exchange"
  /\ UNCHANGED <<payload, m_pointer, m_read, m_consumer_q, m_full_slots, m_full,
                 prodVars, delivered>>

\* Mutant of Exchange: newpoint is computed after m_consumer_q is flipped.
ExchangeFlippedFirst ==
  /\ cons = "exchange"
  /\ m_pointer' = [queue |-> exchange_queue(m_consumer_q), slot |-> 0]
  /\ m_consumer_q' = exchange_queue(m_consumer_q)
  /\ m_full_slots' = IF m_pointer.slot < Qlen THEN m_pointer.slot ELSE Qlen
  /\ m_read' = 0
  /\ cons' = "clear_full"
  /\ UNCHANGED <<qVars, m_full, prodVars, delivered>>

\* Mutant of Exchange: the count of the claims is not cut to Qlen.
ExchangeNoMin ==
  /\ cons = "exchange"
  /\ m_pointer' = [queue |-> m_consumer_q, slot |-> 0]
  /\ m_consumer_q' = exchange_queue(m_consumer_q)
  /\ m_full_slots' = m_pointer.slot
  /\ m_read' = 0
  /\ cons' = "clear_full"
  /\ UNCHANGED <<qVars, m_full, prodVars, delivered>>

\* Mutant of Exchange: the last slot of a full buffer is left out.
ExchangeOffByOne ==
  /\ cons = "exchange"
  /\ m_pointer' = [queue |-> m_consumer_q, slot |-> 0]
  /\ m_consumer_q' = exchange_queue(m_consumer_q)
  /\ m_full_slots' = IF m_pointer.slot < Qlen THEN m_pointer.slot ELSE Qlen - 1
  /\ m_read' = 0
  /\ cons' = "clear_full"
  /\ UNCHANGED <<qVars, m_full, prodVars, delivered>>

\* swap_queues, the exchange of m_pointer with the private assignments.
Exchange ==
  /\ cons = "exchange"
  /\ m_pointer' = [queue |-> m_consumer_q, slot |-> 0]
  /\ m_consumer_q' = exchange_queue(m_consumer_q)
  /\ m_full_slots' = IF m_pointer.slot < Qlen THEN m_pointer.slot ELSE Qlen
  /\ m_read' = 0
  /\ cons' = "clear_full"
  /\ UNCHANGED <<qVars, m_full, prodVars, delivered>>

\* Mutant of ClearFull: the swap leaves m_full set.
ClearFullForgotten ==
  /\ cons = "clear_full"
  /\ cons' = "second"
  /\ UNCHANGED <<qVars, m_pointer, m_read, m_consumer_q, m_full_slots, m_full,
                 prodVars, delivered>>

\* swap_queues, the store to m_full that follows the exchange.
ClearFull ==
  /\ cons = "clear_full"
  /\ m_full' = FALSE
  /\ cons' = "second"
  /\ UNCHANGED <<qVars, m_pointer, m_read, m_consumer_q, m_full_slots,
                 prodVars, delivered>>

-----------------------------------------------------------------------------
Push(p) == \/ PushRefused(p) \/ PushEnter(p) \/ ClaimSlot(p) \/ ClaimTooLate(p)
           \/ SetFull(p) \/ Write(p) \/ Publish(p)

PopStep == \/ Pop \/ SeeValid \/ Move \/ Exhausted
           \/ ClearValid \/ Exchange \/ ClearFull

\* Every producer publishes within the patience of the consumer (100 tries,
\* 10 microseconds apart), so no slot is passed over.
TimelyNext == (\E p \in Producers : Push(p)) \/ PopStep

\* A producer may be preempted between its claim and its publication for
\* longer than the consumer waits.
Next == TimelyNext \/ Skip

TimelySpec == Init /\ [][TimelyNext]_vars
Spec       == Init /\ [][Next]_vars

\* A call of push, once begun, runs to its end; a caller need not push again.
InPush(p) == ClaimSlot(p) \/ ClaimTooLate(p) \/ SetFull(p) \/ Write(p) \/ Publish(p)

\* The pool keeps running the block, so the consumer keeps popping.
FairTimelySpec == /\ TimelySpec
                  /\ WF_vars(PopStep)
                  /\ \A p \in Producers : WF_vars(InPush(p))

\* Only the consumer is fair: a producer may stop inside push for ever.
FairConsumerSpec == Spec /\ WF_vars(PopStep \/ Skip)

-----------------------------------------------------------------------------
(* Properties *)

TypeOK ==
  /\ valid   \in [Buffers -> [Slots -> BOOLEAN]]
  /\ payload \in [Buffers -> [Slots -> Msgs \cup {NoMsg}]]
  /\ m_pointer \in [queue : Buffers, slot : 0 .. SlotSpan - 1]
  /\ m_read \in 0 .. Qlen /\ m_full_slots \in 0 .. Qlen
  /\ m_consumer_q \in Buffers
  /\ m_full \in BOOLEAN
  /\ pc \in [Producers -> {"idle", "claim", "set_full", "write", "publish"}]
  /\ cur \in [Producers -> [queue : Buffers, slot : Slots]]
  /\ in \in [Producers -> Msgs \cup {NoMsg}]
  /\ cons \in {"idle", "first", "second", "move", "clear", "exchange",
               "clear_full"}
  /\ pushes \in 0 .. MaxPush
  /\ delivered \in Seq(Msgs \cup {NoMsg})

\* The producer owns a slot: it claimed one and has not published it yet.
Owns(p) == pc[p] \in {"set_full", "write", "publish"}

\* The slot holds, or will hold, a message the consumer has still to read.
Live(b, s) == IF b = m_consumer_q THEN m_read <= s /\ s < m_full_slots
                                  ELSE s < m_pointer.slot

\* The messages on their way: owned by a producer, or in a live valid slot.
Pending ==
  {m \in Msgs \cup {NoMsg} :
     \/ \E p \in Producers : Owns(p) /\ m = in[p]
     \/ \E b \in Buffers, s \in Slots :
          Live(b, s) /\ valid[b][s] /\ m = payload[b][s]}

\* DBQueue.hpp 216-217 and 107: a slot has one writer at a time, and the
\* consumer never moves a payload out of a slot that a producer still owns.
\* The queue has no lock, so this rests on the claims and on the swap alone.
SlotExclusion ==
  /\ \A p, q \in Producers : p # q /\ Owns(p) /\ Owns(q) => cur[p] # cur[q]
  /\ cons = "move" =>
       \A p \in Producers :
         Owns(p) => cur[p] # [queue |-> m_consumer_q, slot |-> m_read]

\* DBQueue.hpp 98-115: pop never reports success with an empty pointer (which
\* Block::run takes for an empty queue), and the messages of one producer come
\* out in the order in which they were pushed, each at most once.
FifoPerProducer ==
  \A j \in 1 .. Len(delivered) :
    /\ delivered[j] # NoMsg
    /\ \A i \in 1 .. j - 1 :
         delivered[i].from = delivered[j].from => delivered[i].n < delivered[j].n

\* DBQueue.hpp 107: even when slots are passed over and producers write into
\* them late, no message is handed to the block twice.
NoDuplicate ==
  \A i, j \in 1 .. Len(delivered) :
    i # j /\ delivered[i] # NoMsg => delivered[i] # delivered[j]

\* DBQueue.hpp 91-94: the exchange never forgets a message: what was accepted
\* is delivered once, in order; the queue implements MsgQueue.
Q == INSTANCE MsgQueue WITH pending <- Pending
MsgQueueSpec == Q!Spec

\* DBQueue.hpp 199-219 and 163-169: what was accepted is delivered in the end.
\* A message is known by its number.
EveryMessageDelivered ==
  \A k \in 1 .. MaxPush :
    (\E m \in Pending : m.n = k) ~> \E i \in 1 .. Len(delivered) : delivered[i].n = k

\* DBQueue.hpp 92 and 211: the flag is stored by both sides without a lock and
\* can be set when the buffer is empty, but a full queue always opens again.
FullClears == m_full ~> ~m_full

\* DBQueue.hpp 98-115: pop returns, even if a producer dies inside push.
PopReturns == cons # "idle" ~> cons = "idle"

\* README.md 218-219, "messages are dropped if the InGate queue has no more
\* free slots": a push refused by m_full finds every slot claimed.
RefusedOnlyWhenFull ==
  [][\A p \in Producers : PushRefused(p) => m_pointer.slot >= Qlen]_vars
=============================================================================
