---------------------------- MODULE DBQueueProofs ----------------------------
(***************************************************************************)
(* Proofs about DBQueue for every number of producers, every Qlen and      *)
(* every bound on the pushes, as long as producers publish within the      *)
(* consumer's patience (TimelySpec): the inductive invariant, the steps of *)
(* push and of pop, what follows, and that the queue implements MsgQueue.  *)
(* The last part needs no patience: no message is delivered twice.         *)
(***************************************************************************)
EXTENDS DBQueue, TLAPS

\* The slot holds a message the consumer can read.
Readable(b, s) == Live(b, s) /\ valid[b][s]

\* Position (b, s) is read before position (c, t).
Before(b, s, c, t) == IF b = c THEN s < t ELSE b = m_consumer_q

\* How the shared pointer, the private counters and the consumer's place fit.
Structure ==
  /\ m_pointer.queue = exchange_queue(m_consumer_q)
  /\ m_read <= m_full_slots
  /\ cons = "move" => m_read < m_full_slots /\ valid[m_consumer_q][m_read]
  /\ cons \in {"clear", "exchange"} => m_read = m_full_slots

\* A slot with an owner is live and not valid, and has no second owner.
Owners ==
  /\ \A p \in Producers :
       Owns(p) => /\ Live(cur[p].queue, cur[p].slot)
                  /\ ~valid[cur[p].queue][cur[p].slot]
  /\ \A p, q \in Producers : p # q /\ Owns(p) /\ Owns(q) => cur[p] # cur[q]

\* A flag is set only in a slot that was claimed since its buffer was cleared.
Flags ==
  \A b \in Buffers, s \in Slots :
    valid[b][s] =>
      IF b = m_consumer_q THEN s < m_full_slots /\ cons # "exchange"
                          ELSE s < m_pointer.slot

\* What the slots and the arguments of push hold.
Contents ==
  /\ \A b \in Buffers, s \in Slots :
       Readable(b, s) => payload[b][s] \in Msgs /\ payload[b][s].n <= pushes
  /\ \A p \in Producers :
       pc[p] # "idle" => in[p] \in Msgs /\ in[p].from = p /\ in[p].n <= pushes
  /\ \A p \in Producers :
       pc[p] = "publish" => payload[cur[p].queue][cur[p].slot] = in[p]
  /\ \A i \in 1 .. Len(delivered) :
       delivered[i] \in Msgs /\ delivered[i].n <= pushes

\* The messages of one producer are ordered along the positions: first those
\* delivered, then those in the slots, then the one being pushed.
SlotsInOrder ==
  \A b, c \in Buffers, s, t \in Slots :
    /\ Readable(b, s) /\ Readable(c, t) /\ Before(b, s, c, t)
    /\ payload[b][s].from = payload[c][t].from
    => payload[b][s].n < payload[c][t].n

PushedAfterSlots ==
  \A p \in Producers, b \in Buffers, s \in Slots :
    pc[p] # "idle" /\ Readable(b, s) /\ payload[b][s].from = p
    => /\ payload[b][s].n < in[p].n
       /\ Owns(p) => Before(b, s, cur[p].queue, cur[p].slot)

PushedAfterDelivered ==
  \A p \in Producers, i \in 1 .. Len(delivered) :
    pc[p] # "idle" /\ delivered[i].from = p => delivered[i].n < in[p].n

SlotsAfterDelivered ==
  \A b \in Buffers, s \in Slots, i \in 1 .. Len(delivered) :
    Readable(b, s) /\ delivered[i].from = payload[b][s].from
    => delivered[i].n < payload[b][s].n

Order == /\ SlotsInOrder /\ PushedAfterSlots
         /\ PushedAfterDelivered /\ SlotsAfterDelivered

\* The inductive invariant.
IInv == TypeOK /\ Structure /\ Owners /\ Flags /\ Contents /\ Order
        /\ FifoPerProducer

-----------------------------------------------------------------------------
\* The constants as the provers need them.
LEMMA Constants ==
  /\ Qlen \in Nat /\ Qlen > 0 /\ SlotSpan \in Nat /\ Qlen < SlotSpan
  /\ MaxPush \in Nat
  /\ NoMsg \notin Msgs
BY QlenAssumption, SpanAssumption, NoMsgAssumption DEF Msgs

\* A queue as its constructor leaves it (DBQueue.hpp 119-120) satisfies IInv.
LEMMA InitIInv == Init => IInv
<1> SUFFICES ASSUME Init PROVE IInv
  OBVIOUS
<1> USE Constants DEF Init, Origin, exchange_queue
<1>1. TypeOK
  <2>1. valid \in [Buffers -> [Slots -> BOOLEAN]]
    BY Zenon
  <2>2. payload \in [Buffers -> [Slots -> Msgs \cup {NoMsg}]]
    BY Zenon
  <2>3. delivered \in Seq(Msgs \cup {NoMsg})
    OBVIOUS
  <2>4. /\ m_pointer \in [queue : Buffers, slot : 0 .. SlotSpan - 1]
        /\ cur \in [Producers -> [queue : Buffers, slot : Slots]]
    BY DEF Buffers, Slots
  <2>5. /\ m_read \in 0 .. Qlen /\ m_full_slots \in 0 .. Qlen
        /\ m_consumer_q \in Buffers
        /\ pushes \in 0 .. MaxPush
    BY DEF Buffers
  <2> QED
    BY <2>1, <2>2, <2>3, <2>4, <2>5, Zenon DEF TypeOK
<1>2. Structure /\ Owners /\ Flags
  BY DEF Structure, Owners, Flags, Owns, Buffers
<1>3. Contents /\ Order
  BY DEF Contents, Order, SlotsInOrder, PushedAfterSlots,
         PushedAfterDelivered, SlotsAfterDelivered, Readable, Buffers
<1>4. FifoPerProducer
  BY DEF FifoPerProducer
<1> QED
  BY <1>1, <1>2, <1>3, <1>4 DEF IInv

\* DBQueue.hpp 201: a refused push changes nothing but the count of calls.
LEMMA PushRefusedStep ==
  ASSUME IInv, NEW p \in Producers, PushRefused(p) PROVE IInv'
<1> USE Constants DEF PushRefused, qVars, consVars
<1>1. TypeOK'
  BY DEF IInv, TypeOK
<1>2. Structure' /\ Owners' /\ Flags'
  BY DEF IInv, Structure, Owners, Flags, Owns, Live
<1>3. Contents'
  BY DEF IInv, TypeOK, Contents, Readable, Live, Msgs
<1>4. Order' /\ FifoPerProducer'
  BY DEF IInv, Order, SlotsInOrder, PushedAfterSlots, PushedAfterDelivered,
         SlotsAfterDelivered, Readable, Live, Owns, Before, FifoPerProducer
<1> QED
  BY <1>1, <1>2, <1>3, <1>4 DEF IInv

\* DBQueue.hpp 199-201: the message being pushed is newer than every other one.
LEMMA PushEnterStep ==
  ASSUME IInv, NEW p \in Producers, PushEnter(p) PROVE IInv'
<1> USE Constants DEF PushEnter, qVars, consVars
<1>0. [from |-> p, n |-> pushes + 1] \in Msgs
  BY DEF IInv, TypeOK, Msgs
<1>1. TypeOK'
  BY <1>0 DEF IInv, TypeOK
<1>2. Structure' /\ Owners' /\ Flags'
  BY DEF IInv, TypeOK, Structure, Owners, Flags, Owns, Live
<1>3. Contents'
  BY <1>0 DEF IInv, TypeOK, Contents, Readable, Live, Msgs
<1>4. Order'
  BY <1>0 DEF IInv, TypeOK, Order, SlotsInOrder, PushedAfterSlots,
              PushedAfterDelivered, SlotsAfterDelivered, Contents, Readable,
              Live, Owns, Before, Msgs
<1>5. FifoPerProducer'
  BY DEF IInv, FifoPerProducer
<1> QED
  BY <1>1, <1>2, <1>3, <1>4, <1>5 DEF IInv

\* DBQueue.hpp 204-207: the claimed slot had no owner, its flag was clear, and it
\* comes after every slot that can be read.
LEMMA ClaimSlotStep ==
  ASSUME IInv, NEW p \in Producers, ClaimSlot(p) PROVE IInv'
<1> USE Constants DEF ClaimSlot, qVars, consVars
<1>t. m_pointer \in [queue : Buffers, slot : Slots]
  BY DEF IInv, TypeOK, Slots
<1>0. /\ m_pointer'.queue = m_pointer.queue
      /\ m_pointer'.slot = m_pointer.slot + 1
      /\ m_pointer' \in [queue : Buffers, slot : 0 .. SlotSpan - 1]
  BY <1>t DEF Slots
<1>1. TypeOK'
  <2>1. /\ cur' \in [Producers -> [queue : Buffers, slot : Slots]]
        /\ pc' \in [Producers -> {"idle", "claim", "set_full", "write", "publish"}]
    BY <1>t DEF IInv, TypeOK
  <2> QED
    BY <1>0, <2>1 DEF IInv, TypeOK
<1>2. Structure'
  BY <1>0 DEF IInv, TypeOK, Structure
<1>b. \A b \in Buffers, s \in Slots : Live(b, s) => Live(b, s)'
  BY <1>0 DEF IInv, TypeOK, Live, Slots
<1>c. \A q \in Producers : q # p => (Owns(q)' <=> Owns(q)) /\ cur'[q] = cur[q]
  BY DEF IInv, TypeOK, Owns
<1>d. /\ cur'[p] = m_pointer
      /\ m_pointer.queue # m_consumer_q
  BY DEF IInv, TypeOK, Structure, exchange_queue, Buffers
<1>f. /\ Live(cur[p].queue, cur[p].slot)'
      /\ ~Live(m_pointer.queue, m_pointer.slot)
  BY <1>t, <1>0, <1>d DEF Live, Slots
<1>g. ~valid[m_pointer.queue][m_pointer.slot]
  BY <1>t, <1>d DEF IInv, Flags, Slots
<1>3. Owners'
  <2>1. ASSUME NEW q \in Producers, Owns(q)'
        PROVE  /\ Live(cur[q].queue, cur[q].slot)'
               /\ ~valid'[cur'[q].queue][cur'[q].slot]
    <3>1. CASE q = p
      BY <3>1, <1>d, <1>f, <1>g
    <3>2. CASE q # p
      BY <2>1, <3>2, <1>b, <1>c DEF IInv, TypeOK, Owners, Live
    <3> QED
      BY <3>1, <3>2
  <2>2. ASSUME NEW q \in Producers, NEW r \in Producers, q # r, Owns(q)', Owns(r)'
        PROVE  cur'[q] # cur'[r]
    BY <2>2, <1>c, <1>d, <1>f DEF IInv, TypeOK, Owners
  <2> QED
    BY <2>1, <2>2 DEF Owners
<1>4. Flags'
  BY <1>0, SMTT(30) DEF IInv, TypeOK, Flags, Slots
<1>a. \A b \in Buffers, s \in Slots : Readable(b, s)' <=> Readable(b, s)
  <2>1. /\ m_pointer.slot \in Nat /\ m_pointer'.slot = m_pointer.slot + 1
        /\ UNCHANGED <<valid, m_consumer_q, m_read, m_full_slots>>
    BY <1>0 DEF IInv, TypeOK
  <2>2. \A b \in Buffers, s \in Slots :
          valid[b][s] /\ b # m_consumer_q => s < m_pointer.slot
    BY DEF IInv, Flags
  <2> QED BY <2>1, <2>2 DEF Readable, Live, Slots
<1>5. Contents'
  BY <1>0, <1>a DEF IInv, TypeOK, Contents
<1>e. \A b \in Buffers, s \in Slots :
        Readable(b, s) => Before(b, s, cur[p].queue, cur[p].slot)'
  BY <1>t, <1>0, <1>d DEF IInv, TypeOK, Structure, Before, Readable, Live, exchange_queue,
              Buffers, Slots
<1>6. Order'
  <2>1. SlotsInOrder'
    BY <1>a DEF IInv, Order, SlotsInOrder, Before
  <2>2. PushedAfterSlots'
    <3> SUFFICES ASSUME NEW q \in Producers, NEW b \in Buffers, NEW s \in Slots,
                        pc'[q] # "idle", Readable(b, s), payload[b][s].from = q
                 PROVE  /\ payload[b][s].n < in[q].n
                        /\ Owns(q)' => Before(b, s, cur[q].queue, cur[q].slot)'
      BY <1>a DEF PushedAfterSlots
    <3>1. payload[b][s].n < in[q].n
      BY DEF IInv, TypeOK, Order, PushedAfterSlots
    <3>2. CASE q = p
      BY <3>1, <3>2, <1>e
    <3>3. CASE q # p
      BY <3>1, <3>3, <1>c DEF IInv, TypeOK, Order, PushedAfterSlots, Before
    <3> QED
      BY <3>2, <3>3
  <2>3. PushedAfterDelivered' /\ SlotsAfterDelivered'
    BY <1>a, Zenon DEF IInv, TypeOK, Order, PushedAfterDelivered, SlotsAfterDelivered
  <2> QED
    BY <2>1, <2>2, <2>3 DEF Order
<1>7. FifoPerProducer'
  BY DEF IInv, FifoPerProducer
<1> QED
  BY <1>1, <1>2, <1>3, <1>4, <1>5, <1>6, <1>7 DEF IInv

\* DBQueue.hpp 204-208: a claim past the last slot makes no slot live.
LEMMA ClaimTooLateStep ==
  ASSUME IInv, NEW p \in Producers, ClaimTooLate(p) PROVE IInv'
<1> USE Constants DEF ClaimTooLate, qVars, consVars
<1>t. m_pointer \in [queue : Buffers, slot : 0 .. SlotSpan - 1]
  BY DEF IInv, TypeOK
<1>0. /\ m_pointer'.queue = m_pointer.queue
      /\ m_pointer'.slot = m_pointer.slot + 1
      /\ m_pointer' \in [queue : Buffers, slot : 0 .. SlotSpan - 1]
  BY <1>t
<1>1. TypeOK'
  BY <1>0 DEF IInv, TypeOK
<1>2. Structure'
  BY <1>0 DEF IInv, TypeOK, Structure
<1>a. \A b \in Buffers, s \in Slots : Live(b, s)' <=> Live(b, s)
  BY <1>0 DEF IInv, TypeOK, Live, Slots
<1>3. Owners' /\ Flags'
  BY <1>0, <1>a, SMTT(30) DEF IInv, TypeOK, Owners, Flags, Owns, Slots
<1>4. Contents'
  BY <1>a DEF IInv, TypeOK, Contents, Readable
<1>5. Order'
  <2>1. SlotsInOrder' /\ PushedAfterSlots'
    BY <1>a DEF IInv, TypeOK, Order, SlotsInOrder, PushedAfterSlots, Owns, Before,
                Readable
  <2>2. PushedAfterDelivered' /\ SlotsAfterDelivered'
    BY <1>a, Zenon DEF IInv, TypeOK, Order, PushedAfterDelivered, SlotsAfterDelivered,
                Readable
  <2> QED
    BY <2>1, <2>2 DEF Order
<1>6. FifoPerProducer'
  BY DEF IInv, FifoPerProducer
<1> QED
  BY <1>1, <1>2, <1>3, <1>4, <1>5, <1>6 DEF IInv

\* DBQueue.hpp 211: m_full is only a hint, no other state depends on it.
LEMMA SetFullStep ==
  ASSUME IInv, NEW p \in Producers, SetFull(p) PROVE IInv'
<1> USE Constants DEF SetFull, qVars, consVars
<1>1. TypeOK'
  BY DEF IInv, TypeOK
<1>2. Structure' /\ Owners' /\ Flags'
  BY DEF IInv, TypeOK, Structure, Owners, Flags, Owns, Live
<1>3. Contents' /\ Order'
  BY DEF IInv, TypeOK, Contents, Order, SlotsInOrder, PushedAfterSlots,
         PushedAfterDelivered, SlotsAfterDelivered, Owns, Before, Readable, Live
<1>4. FifoPerProducer'
  BY DEF IInv, FifoPerProducer
<1> QED
  BY <1>1, <1>2, <1>3, <1>4 DEF IInv

\* DBQueue.hpp 216: the producer writes only into the slot it owns, which the
\* consumer cannot read yet.
LEMMA WriteStep ==
  ASSUME IInv, NEW p \in Producers, Write(p) PROVE IInv'
<1> USE Constants DEF Write, qVars, consVars
<1>t. /\ cur[p] \in [queue : Buffers, slot : Slots]
      /\ in[p] \in Msgs
      /\ ~valid[cur[p].queue][cur[p].slot]
  BY DEF IInv, TypeOK, Contents, Owners, Owns
<1>a. /\ payload' \in [Buffers -> [Slots -> Msgs \cup {NoMsg}]]
      /\ payload'[cur[p].queue][cur[p].slot] = in[p]
      /\ \A b \in Buffers, s \in Slots :
           b # cur[p].queue \/ s # cur[p].slot => payload'[b][s] = payload[b][s]
  BY <1>t DEF IInv, TypeOK
<1>b. \A b \in Buffers, s \in Slots :
        /\ Readable(b, s)' <=> Readable(b, s)
        /\ Readable(b, s) => payload'[b][s] = payload[b][s]
  BY <1>t, <1>a DEF IInv, Readable, Live
<1>c. \A q \in Producers : /\ Owns(q)' <=> Owns(q)
                           /\ pc'[q] # "idle" <=> pc[q] # "idle"
  BY DEF IInv, TypeOK, Owns
<1>1. TypeOK'
  BY <1>a DEF IInv, TypeOK
<1>2. Structure' /\ Owners' /\ Flags'
  BY <1>c DEF IInv, Structure, Owners, Flags, Live
<1>3. Contents'
  <2>1. ASSUME NEW q \in Producers, pc'[q] = "publish"
        PROVE  payload'[cur[q].queue][cur[q].slot] = in[q]
    <3>1. CASE q = p
      BY <3>1, <1>a
    <3>2. CASE q # p
      <4>1. pc[q] = "publish" /\ Owns(q) /\ Owns(p)
        BY <2>1, <3>2 DEF IInv, TypeOK, Owns
      <4>2. cur[q] \in [queue : Buffers, slot : Slots] /\ cur[q] # cur[p]
        BY <4>1, <3>2 DEF IInv, TypeOK, Owners
      <4>3. cur[q].queue # cur[p].queue \/ cur[q].slot # cur[p].slot
        BY <4>2, <1>t, SMTT(30)
      <4> QED
        BY <4>1, <4>2, <4>3, <1>a DEF IInv, Contents
    <3> QED
      BY <3>1, <3>2
  <2> QED
    BY <2>1, <1>b, <1>c DEF IInv, Contents
<1>4. Order'
  <2>1. SlotsInOrder' /\ PushedAfterSlots'
    BY <1>b, <1>c DEF IInv, Order, SlotsInOrder, PushedAfterSlots, Before
  <2>2. PushedAfterDelivered' /\ SlotsAfterDelivered'
    BY <1>b, <1>c, SMTT(30) DEF IInv, Order, PushedAfterDelivered, SlotsAfterDelivered
  <2> QED
    BY <2>1, <2>2, ZenonT(40) DEF Order
<1>5. FifoPerProducer'
  BY DEF IInv, FifoPerProducer
<1> QED
  BY <1>1, <1>2, <1>3, <1>4, <1>5 DEF IInv

\* DBQueue.hpp 217-218: the flag hands the slot from the producer to the
\* consumer; the message comes after all the earlier ones of its producer.
LEMMA PublishStep ==
  ASSUME IInv, NEW p \in Producers, Publish(p) PROVE IInv'
<1> USE Constants DEF Publish, qVars, consVars, Origin
<1> DEFINE b0 == cur[p].queue
           s0 == cur[p].slot
<1>t. /\ b0 \in Buffers /\ s0 \in Slots
      /\ cur[p] = [queue |-> b0, slot |-> s0]
      /\ Live(b0, s0)
      /\ payload[b0][s0] = in[p] /\ in[p] \in Msgs /\ in[p].from = p
      /\ in[p].n <= pushes
  BY DEF IInv, TypeOK, Contents, Owners, Owns
<1>a. /\ valid' \in [Buffers -> [Slots -> BOOLEAN]]
      /\ valid'[b0][s0]
      /\ \A b \in Buffers, s \in Slots :
           b # b0 \/ s # s0 => valid'[b][s] = valid[b][s]
  BY <1>t, Zenon DEF IInv, TypeOK
<1>b. \A b \in Buffers, s \in Slots :
        /\ Live(b, s)' <=> Live(b, s)
        /\ Readable(b, s)' <=> Readable(b, s) \/ (b = b0 /\ s = s0)
  BY <1>t, <1>a DEF Readable, Live
<1>c. \A q \in Producers :
        /\ pc'[q] # "idle" => q # p /\ pc[q] = pc'[q]
        /\ Owns(q)' => q # p /\ Owns(q)
        /\ q # p => cur'[q] = cur[q] /\ in'[q] = in[q]
  BY DEF IInv, TypeOK, Owns
<1>d. \A q \in Producers :
        Owns(q)' => /\ cur[q] \in [queue : Buffers, slot : Slots]
                    /\ cur[q].queue # b0 \/ cur[q].slot # s0
  BY <1>c, <1>t DEF IInv, TypeOK, Owners, Owns
<1> HIDE DEF b0, s0
<1>1. TypeOK'
  <2>1. /\ cur' \in [Producers -> [queue : Buffers, slot : Slots]]
        /\ in' \in [Producers -> Msgs \cup {NoMsg}]
        /\ pc' \in [Producers -> {"idle", "claim", "set_full", "write", "publish"}]
    BY DEF IInv, TypeOK, Buffers, Slots
  <2> QED
    BY <1>a, <2>1 DEF IInv, TypeOK
<1>2. Structure'
  BY <1>a DEF IInv, TypeOK, Structure, Buffers, Slots
<1>3. Owners'
  <2>1. ASSUME NEW q \in Producers, Owns(q)'
        PROVE  /\ Live(cur[q].queue, cur[q].slot)'
               /\ ~valid'[cur'[q].queue][cur'[q].slot]
    <3>1. /\ Owns(q) /\ cur'[q] = cur[q]
          /\ cur[q].queue \in Buffers /\ cur[q].slot \in Slots
      BY <2>1, <1>c, <1>d
    <3>2. Live(cur[q].queue, cur[q].slot)'
      BY <3>1, <1>b DEF IInv, Owners, Live
    <3>3. ~valid'[cur'[q].queue][cur'[q].slot]
      <4>1. valid'[cur[q].queue][cur[q].slot] = valid[cur[q].queue][cur[q].slot]
        BY <2>1, <3>1, <1>a, <1>d, Zenon
      <4>2. ~valid[cur[q].queue][cur[q].slot]
        BY <3>1 DEF IInv, Owners
      <4> QED
        BY <3>1, <4>1, <4>2, Zenon
    <3> QED
      BY <3>2, <3>3
  <2> QED
    BY <2>1, <1>c DEF IInv, Owners
<1>4. Flags'
  BY <1>t, <1>a DEF IInv, TypeOK, Flags, Structure, Live, Slots
<1>5. Contents'
  BY <1>t, <1>b, <1>c DEF IInv, Contents
<1>6. Order'
  <2>1. SlotsInOrder'
    <3> SUFFICES ASSUME NEW b \in Buffers, NEW c \in Buffers,
                        NEW s \in Slots, NEW t \in Slots,
                        Readable(b, s)', Readable(c, t)', Before(b, s, c, t),
                        payload[b][s].from = payload[c][t].from
                 PROVE  payload[b][s].n < payload[c][t].n
      BY DEF SlotsInOrder, Before
    <3>1. CASE Readable(b, s) /\ Readable(c, t)
      BY <3>1 DEF IInv, Order, SlotsInOrder
    <3>2. CASE Readable(b, s) /\ c = b0 /\ t = s0
      BY <3>2, <1>t DEF IInv, Order, PushedAfterSlots
    <3>3. CASE b = b0 /\ s = s0 /\ Readable(c, t)
      <4>1. Before(c, t, b, s)
        BY <3>3, <1>t DEF IInv, Order, PushedAfterSlots, Owns, b0, s0
      <4> QED
        BY <4>1 DEF Before, Slots
    <3>4. CASE b = c /\ s = t
      BY <3>4 DEF Before, Slots
    <3> QED
      BY <3>1, <3>2, <3>3, <3>4, <1>b
  <2>2. PushedAfterSlots'
    BY <1>t, <1>b, <1>c DEF IInv, Order, PushedAfterSlots, Before
  <2>3. PushedAfterDelivered' /\ SlotsAfterDelivered'
    BY <1>t, <1>b, <1>c DEF IInv, Order, PushedAfterDelivered, SlotsAfterDelivered
  <2> QED
    BY <2>1, <2>2, <2>3 DEF Order
<1>7. FifoPerProducer'
  BY DEF IInv, FifoPerProducer
<1> QED
  BY <1>1, <1>2, <1>3, <1>4, <1>5, <1>6, <1>7 DEF IInv
-----------------------------------------------------------------------------
(* The steps of pop *)

\* DBQueue.hpp 98-115 and 163-169: the consumer's tests change only its place
\* in pop.
LEMMA ControlStep ==
  ASSUME IInv, Pop \/ SeeValid \/ Exhausted \/ ClearFull PROVE IInv'
<1> USE Constants DEF Pop, SeeValid, Exhausted, ClearFull, Consuming, qVars, prodVars
<1>1. TypeOK'
  BY Zenon DEF IInv, TypeOK
<1>2. Structure'
  BY DEF IInv, TypeOK, Structure
<1>3. Owners' /\ Flags'
  BY DEF IInv, Owners, Flags, Owns, Live
<1>4. Contents' /\ FifoPerProducer'
  BY DEF IInv, Contents, FifoPerProducer, Readable, Live
<1>5. Order'
  BY DEF IInv, Order, SlotsInOrder, PushedAfterSlots, PushedAfterDelivered,
         SlotsAfterDelivered, Readable, Live, Owns, Before
<1> QED
  BY <1>1, <1>2, <1>3, <1>4, <1>5 DEF IInv

\* DBQueue.hpp 105-110: the message moved out precedes every other readable
\* one, and no producer owns its slot.
LEMMA MoveStep ==
  ASSUME IInv, Move PROVE IInv'
<1> USE Constants DEF Move, qVars, prodVars
<1> DEFINE b0 == m_consumer_q
           m == payload[b0][m_read]
<1>t. /\ b0 \in Buffers /\ m_read \in Slots /\ m_read < m_full_slots
      /\ Readable(b0, m_read) /\ m \in Msgs /\ m.n <= pushes
  BY SMTT(30) DEF IInv, TypeOK, Structure, Contents, Readable, Live, Slots
<1>a. /\ payload' \in [Buffers -> [Slots -> Msgs \cup {NoMsg}]]
      /\ \A b \in Buffers, s \in Slots :
           b # b0 \/ s # m_read => payload'[b][s] = payload[b][s]
  BY <1>t DEF IInv, TypeOK
<1>b. \A b \in Buffers, s \in Slots :
        Live(b, s)' <=> Live(b, s) /\ (b # b0 \/ s # m_read)
  BY <1>t DEF IInv, TypeOK, Live, Slots
<1>c. \A b \in Buffers, s \in Slots :
        Readable(b, s)' => /\ Readable(b, s) /\ (b # b0 \/ s # m_read)
                           /\ Before(b0, m_read, b, s)
                           /\ payload'[b][s] = payload[b][s]
  BY <1>t, <1>a, <1>b DEF IInv, TypeOK, Readable, Before, Live, Slots
<1>d. /\ delivered' \in Seq(Msgs \cup {NoMsg})
      /\ Len(delivered') = Len(delivered) + 1
      /\ \A i \in 1 .. Len(delivered') :
           delivered'[i] = IF i <= Len(delivered) THEN delivered[i] ELSE m
  BY <1>t DEF IInv, TypeOK
<1>e. Len(delivered) \in Nat
  BY DEF IInv, TypeOK
<1>f. \A q \in Producers :
        Owns(q) => /\ cur[q].queue \in Buffers /\ cur[q].slot \in Slots
                   /\ cur[q].queue # b0 \/ cur[q].slot # m_read
  BY <1>t DEF IInv, TypeOK, Owners, Readable
<1>1. TypeOK'
  BY <1>t, <1>a, <1>d DEF IInv, TypeOK, Slots
<1>2. Structure'
  BY <1>t DEF IInv, TypeOK, Structure, Slots
<1>3. Owners'
  BY <1>b, <1>f DEF IInv, Owners, Owns, Live
<1>4. Flags'
  BY DEF IInv, Flags
<1> HIDE DEF m, b0
<1>5. Contents'
  <2>1. \A q \in Producers :
          pc[q] = "publish" => payload'[cur[q].queue][cur[q].slot] = in[q]
    BY <1>a, <1>f DEF IInv, Contents, Owns
  <2>2. \A i \in 1 .. Len(delivered') :
          delivered'[i] \in Msgs /\ delivered'[i].n <= pushes
    BY <1>t, <1>d, <1>e DEF IInv, Contents
  <2> QED
    BY <2>1, <2>2, <1>c DEF IInv, Contents
<1>6. Order'
  <2>1. SlotsInOrder' /\ PushedAfterSlots'
    BY <1>c DEF IInv, Order, SlotsInOrder, PushedAfterSlots, Before, Owns
  <2>2. PushedAfterDelivered'
    BY <1>t, <1>d, <1>e DEF IInv, Order, PushedAfterSlots, PushedAfterDelivered, m
  <2>3. SlotsAfterDelivered'
    <3> SUFFICES ASSUME NEW b \in Buffers, NEW s \in Slots,
                        NEW i \in 1 .. Len(delivered'), Readable(b, s)',
                        delivered'[i].from = payload[b][s].from
                 PROVE  delivered'[i].n < payload[b][s].n
      BY <1>c DEF SlotsAfterDelivered
    <3>1. CASE i <= Len(delivered)
      BY <3>1, <1>c, <1>d, <1>e DEF IInv, Order, SlotsAfterDelivered
    <3>2. CASE ~(i <= Len(delivered))
      BY <3>2, <1>t, <1>c, <1>d DEF IInv, Order, SlotsInOrder, m
    <3> QED
      BY <3>1, <3>2
  <2> QED
    BY <2>1, <2>2, <2>3 DEF Order
<1>7. FifoPerProducer'
  <2> SUFFICES ASSUME NEW j \in 1 .. Len(delivered')
               PROVE  /\ delivered'[j] # NoMsg
                      /\ \A i \in 1 .. j - 1 :
                           delivered'[i].from = delivered'[j].from
                           => delivered'[i].n < delivered'[j].n
    BY SMTT(30) DEF FifoPerProducer
  <2>1. CASE j <= Len(delivered)
    BY <2>1, <1>d, <1>e DEF IInv, FifoPerProducer
  <2>2. CASE ~(j <= Len(delivered))
    <3>1. j = Len(delivered) + 1 /\ delivered'[j] = m
      BY <2>2, <1>d, <1>e
    <3> QED
      BY <3>1, <1>t, <1>d, <1>e DEF IInv, Order, SlotsAfterDelivered, m
  <2> QED
    BY <2>1, <2>2
<1> QED
  BY <1>1, <1>2, <1>3, <1>4, <1>5, <1>6, <1>7 DEF IInv

\* DBQueue.hpp 87-90: when the consumer clears the flags of its buffer it has
\* read every slot of it.
LEMMA ClearValidStep ==
  ASSUME IInv, ClearValid PROVE IInv'
<1> USE Constants DEF ClearValid, qVars, prodVars
<1>t. /\ m_consumer_q \in Buffers
      /\ m_read = m_full_slots /\ m_full_slots \in 0 .. Qlen
  BY DEF IInv, TypeOK, Structure
<1>a. /\ valid' \in [Buffers -> [Slots -> BOOLEAN]]
      /\ \A b \in Buffers, s \in Slots :
           b # m_consumer_q => valid'[b][s] = valid[b][s]
      /\ \A s \in Slots : s < m_full_slots => ~valid'[m_consumer_q][s]
      /\ \A s \in Slots :
           ~(s < m_full_slots) => valid'[m_consumer_q][s] = valid[m_consumer_q][s]
  BY <1>t, Zenon DEF IInv, TypeOK
<1>b. \A s \in Slots : ~Live(m_consumer_q, s) /\ ~valid'[m_consumer_q][s]
  BY <1>t, <1>a DEF IInv, Flags, Live, Slots
<1>c. \A b \in Buffers, s \in Slots :
        /\ Live(b, s)' <=> Live(b, s)
        /\ Readable(b, s)' <=> Readable(b, s)
  BY <1>a, <1>b DEF Readable, Live
<1>d. \A q \in Producers :
        Owns(q) => /\ cur[q].queue \in Buffers /\ cur[q].slot \in Slots
                   /\ cur[q].queue # m_consumer_q
  BY <1>b DEF IInv, TypeOK, Owners
<1>1. TypeOK'
  BY <1>a, Zenon DEF IInv, TypeOK
<1>2. Structure'
  BY <1>t DEF IInv, Structure
<1>3. Owners'
  <2>1. ASSUME NEW q \in Producers, Owns(q)
        PROVE  ~valid'[cur[q].queue][cur[q].slot]
    <3>1. valid'[cur[q].queue][cur[q].slot] = valid[cur[q].queue][cur[q].slot]
      BY <2>1, <1>a, <1>d, Zenon
    <3> QED
      BY <2>1, <3>1, Zenon DEF IInv, Owners
  <2> QED
    BY <2>1, <1>c, Zenon DEF IInv, Owners, Owns, Live
<1>4. Flags'
  BY <1>a, <1>b DEF IInv, Flags
<1>5. Contents' /\ FifoPerProducer'
  BY <1>c DEF IInv, Contents, FifoPerProducer
<1>6. Order'
  BY <1>c DEF IInv, Order, SlotsInOrder, PushedAfterSlots, PushedAfterDelivered,
              SlotsAfterDelivered, Owns, Before
<1> QED
  BY <1>1, <1>2, <1>3, <1>4, <1>5, <1>6 DEF IInv

\* DBQueue.hpp 91-95: at the exchange nothing is live in the buffer the
\* consumer gives away, so every live slot keeps its place in the order.
LEMMA ExchangeStep ==
  ASSUME IInv, Exchange PROVE IInv'
<1> USE Constants DEF Exchange, qVars, prodVars
<1>t. /\ m_consumer_q \in Buffers /\ m_consumer_q' \in Buffers
      /\ m_consumer_q # m_consumer_q' /\ m_pointer.queue = m_consumer_q'
      /\ m_pointer.slot \in Nat
      /\ m_pointer'.queue = m_consumer_q /\ m_pointer'.slot = 0
      /\ m_pointer' \in [queue : Buffers, slot : 0 .. SlotSpan - 1]
      /\ m_read = m_full_slots
      /\ m_full_slots' \in 0 .. Qlen
      /\ \A s \in Slots : s < m_full_slots' <=> s < m_pointer.slot
      /\ \A b \in Buffers : b # m_consumer_q => b = m_consumer_q'
  BY DEF IInv, TypeOK, Structure, exchange_queue, Buffers, Slots
<1>a. \A s \in Slots : /\ ~Live(m_consumer_q, s)
                       /\ ~valid[m_consumer_q][s]
  BY <1>t DEF IInv, TypeOK, Flags, Live, Slots
<1>b. \A b \in Buffers, s \in Slots :
        /\ Live(b, s)' <=> Live(b, s)
        /\ Readable(b, s)' <=> Readable(b, s)
        /\ Readable(b, s) => b = m_consumer_q'
  BY <1>t, <1>a DEF Readable, Live, Slots
<1>c. \A q \in Producers :
        /\ Owns(q)' <=> Owns(q)
        /\ Owns(q) => /\ cur[q].queue \in Buffers /\ cur[q].slot \in Slots
                      /\ cur[q].queue = m_consumer_q'
  BY <1>t, <1>a DEF IInv, TypeOK, Owners, Owns
<1>1. TypeOK'
  BY <1>t DEF IInv, TypeOK
<1>2. Structure'
  BY <1>t DEF IInv, TypeOK, Structure, exchange_queue, Buffers
<1>3. Owners'
  BY <1>b, <1>c DEF IInv, Owners, Live
<1>4. Flags'
  BY <1>t, <1>a DEF IInv, Flags
<1>5. Contents' /\ FifoPerProducer'
  BY <1>b DEF IInv, Contents, FifoPerProducer
<1>6. Order'
  <2>1. SlotsInOrder' /\ PushedAfterSlots'
    BY <1>b, <1>c DEF IInv, Order, SlotsInOrder, PushedAfterSlots, Before
  <2>2. PushedAfterDelivered' /\ SlotsAfterDelivered'
    BY <1>b, Zenon DEF IInv, Order, PushedAfterDelivered, SlotsAfterDelivered
  <2> QED
    BY <2>1, <2>2 DEF Order
<1> QED
  BY <1>1, <1>2, <1>3, <1>4, <1>5, <1>6 DEF IInv

-----------------------------------------------------------------------------
\* Every step of the queue, or a step that leaves it alone, preserves IInv.
LEMMA NextIInv == IInv /\ [TimelyNext]_vars => IInv'
<1> SUFFICES ASSUME IInv, [TimelyNext]_vars PROVE IInv'
  OBVIOUS
<1>1. ASSUME NEW p \in Producers, Push(p) PROVE IInv'
  BY <1>1, PushRefusedStep, PushEnterStep, ClaimSlotStep, ClaimTooLateStep,
     SetFullStep, WriteStep, PublishStep DEF Push
<1>2. CASE PopStep
  BY <1>2, ControlStep, MoveStep, ClearValidStep, ExchangeStep DEF PopStep
<1>3. CASE UNCHANGED vars
  <2>1. TypeOK' /\ Structure' /\ Owners' /\ Flags'
    BY <1>3, SMTT(30) DEF vars, IInv, TypeOK, Structure, Owners, Flags, Live, Owns
  <2>2. Contents' /\ FifoPerProducer'
    BY <1>3 DEF vars, IInv, Contents, FifoPerProducer, Readable, Live
  <2>3. Order'
    BY <1>3 DEF vars, IInv, Order, SlotsInOrder, PushedAfterSlots,
                PushedAfterDelivered, SlotsAfterDelivered, Readable, Live, Owns, Before
  <2> QED BY <2>1, <2>2, <2>3 DEF IInv
<1> QED
  BY <1>1, <1>2, <1>3 DEF TimelyNext

\* IInv holds in every state of the queue when no slot is passed over.
LEMMA Invariance == TimelySpec => []IInv
BY InitIInv, NextIInv, PTL DEF TimelySpec

\* The counters, flags and slots of the queue keep their types: the number of
\* full slots never exceeds Qlen (DBQueue.hpp 95) and the consumer's index
\* never leaves the buffer (DBQueue.hpp 104-107).
THEOREM TypeCorrect == TimelySpec => []TypeOK
<1>1. IInv => TypeOK
  BY DEF IInv
<1> QED
  BY Invariance, <1>1, PTL

\* Without a lock, a slot has one writer and the consumer never takes a payload
\* from a producer that is still writing it (DBQueue.hpp 107, 216-217).
THEOREM ExclusiveSlots == TimelySpec => []SlotExclusion
<1>1. IInv => SlotExclusion
  <2> SUFFICES ASSUME IInv PROVE SlotExclusion
    OBVIOUS
  <2>1. ASSUME NEW p \in Producers, Owns(p), cons = "move"
        PROVE  cur[p] # [queue |-> m_consumer_q, slot |-> m_read]
    BY <2>1 DEF IInv, Owners, Structure
  <2> QED
    BY <2>1 DEF IInv, Owners, SlotExclusion
<1> QED
  BY Invariance, <1>1, PTL

\* pop never returns an empty message, and the messages of a producer are
\* delivered in the order of their pushes, each at most once (DBQueue.hpp
\* 98-115).
THEOREM OrderedDelivery == TimelySpec => []FifoPerProducer
<1>1. IInv => FifoPerProducer
  BY DEF IInv
<1> QED
  BY Invariance, <1>1, PTL

-----------------------------------------------------------------------------
(* The queue implements MsgQueue. *)

\* A message is pending when a producer owns a slot for it, or it can be read.
LEMMA PendingMember ==
  ASSUME IInv, IInv' PROVE
  /\ \A m : m \in Pending <=>
       \/ \E p \in Producers : Owns(p) /\ m = in[p]
       \/ \E b \in Buffers, s \in Slots : Readable(b, s) /\ m = payload[b][s]
  /\ \A m : m \in Pending' <=>
       \/ \E p \in Producers : Owns(p)' /\ m = in'[p]
       \/ \E b \in Buffers, s \in Slots : Readable(b, s)' /\ m = payload'[b][s]
<1>1. /\ \A p \in Producers : in[p] \in Msgs \cup {NoMsg}
      /\ \A p \in Producers : in'[p] \in Msgs \cup {NoMsg}
      /\ \A b \in Buffers, s \in Slots : payload[b][s] \in Msgs \cup {NoMsg}
      /\ \A b \in Buffers, s \in Slots : payload'[b][s] \in Msgs \cup {NoMsg}
  BY SMTT(30) DEF IInv, TypeOK
<1> QED
  BY <1>1, Zenon DEF Pending, Readable

\* A step that keeps the owners, their messages and what can be read keeps the
\* pending messages.
LEMMA PendingSame ==
  ASSUME IInv, IInv',
         \A p \in Producers : (Owns(p)' <=> Owns(p)) /\ (Owns(p) => in'[p] = in[p]),
         \A b \in Buffers, s \in Slots :
           /\ Readable(b, s)' <=> Readable(b, s)
           /\ Readable(b, s) => payload'[b][s] = payload[b][s]
  PROVE  Pending' = Pending
<1>1. ASSUME NEW m \in Pending' PROVE m \in Pending
  <2>1. CASE \E p \in Producers : Owns(p)' /\ m = in'[p]
    BY <2>1, PendingMember
  <2>2. CASE \E b \in Buffers, s \in Slots : Readable(b, s)' /\ m = payload'[b][s]
    BY <2>2, PendingMember
  <2> QED
    BY <2>1, <2>2, PendingMember
<1>2. ASSUME NEW m \in Pending PROVE m \in Pending'
  <2>1. CASE \E p \in Producers : Owns(p) /\ m = in[p]
    BY <2>1, PendingMember
  <2>2. CASE \E b \in Buffers, s \in Slots : Readable(b, s) /\ m = payload[b][s]
    BY <2>2, PendingMember
  <2> QED
    BY <2>1, <2>2, PendingMember
<1> QED
  BY <1>1, <1>2, Zenon

\* DBQueue.hpp 204: a claim accepts the message.
LEMMA ClaimAccepts ==
  ASSUME IInv, IInv', NEW p \in Producers, ClaimSlot(p) PROVE Q!Accept(in[p])
<1> USE Constants DEF ClaimSlot, qVars, consVars
<1>1. /\ in[p] \in Msgs /\ in[p].from = p /\ ~Owns(p) /\ Owns(p)'
      /\ \A q \in Producers : q # p => (Owns(q)' <=> Owns(q))
      /\ delivered' = delivered /\ in' = in
  BY DEF IInv, TypeOK, Contents, Owns
<1>2. \A b \in Buffers, s \in Slots : Readable(b, s)' <=> Readable(b, s)
  BY SMTT(30) DEF IInv, TypeOK, Flags, Readable, Live, Slots
<1>3. Pending' = Pending \cup {in[p]}
  <2>1. ASSUME NEW x \in Pending' PROVE x \in Pending \cup {in[p]}
    BY <1>1, <1>2, PendingMember
  <2>2. ASSUME NEW x \in Pending PROVE x \in Pending'
    BY <1>1, <1>2, PendingMember
  <2>3. in[p] \in Pending'
    BY <1>1, PendingMember
  <2> QED BY <2>1, <2>2, <2>3, Zenon
<1>4. \A x \in Pending : x.from = p => x.n < in[p].n
  <2> SUFFICES ASSUME NEW x \in Pending, x.from = p PROVE x.n < in[p].n
    OBVIOUS
  <2>1. ~\E q \in Producers : Owns(q) /\ x = in[q]
    BY <1>1 DEF IInv, Contents, Owns
  <2> QED
    BY <2>1, <1>1, PendingMember DEF IInv, Order, PushedAfterSlots
<1>5. \A i \in 1 .. Len(delivered) :
        delivered[i].from = p => delivered[i].n < in[p].n
  BY DEF IInv, Order, PushedAfterDelivered
<1> QED
  BY <1>1, <1>3, <1>4, <1>5 DEF Q!Accept, Q!Precedes

\* DBQueue.hpp 107: the move delivers the oldest pending message of its producer.
LEMMA MoveDelivers ==
  ASSUME IInv, IInv', Move PROVE Q!Deliver(payload[m_consumer_q][m_read])
<1> USE Constants DEF Move, qVars, prodVars
<1> DEFINE b0 == m_consumer_q
           m == payload[b0][m_read]
<1>1. /\ b0 \in Buffers /\ m_read \in Slots
      /\ Readable(b0, m_read) /\ m \in Msgs
  BY DEF IInv, TypeOK, Structure, Contents, Readable, Live, Slots
<1>2. \A b \in Buffers, s \in Slots :
        /\ Readable(b, s)' <=> Readable(b, s) /\ (b # b0 \/ s # m_read)
        /\ Readable(b, s)' => /\ Before(b0, m_read, b, s)
                              /\ payload'[b][s] = payload[b][s]
  BY <1>1 DEF IInv, TypeOK, Readable, Before, Live, Slots
<1>3. \A q \in Producers : (Owns(q)' <=> Owns(q)) /\ in'[q] = in[q]
  BY DEF Owns
<1> HIDE DEF m, b0
<1>4. \A x \in Pending' : x.from = m.from => m.n < x.n
  <2> SUFFICES ASSUME NEW x \in Pending', x.from = m.from PROVE m.n < x.n
    OBVIOUS
  <2>1. CASE \E q \in Producers : Owns(q) /\ x = in[q]
    BY <2>1, <1>1 DEF IInv, Order, PushedAfterSlots, Contents, Owns, m
  <2>2. CASE \E b \in Buffers, s \in Slots : Readable(b, s)' /\ x = payload[b][s]
    BY <2>2, <1>1, <1>2 DEF IInv, Order, SlotsInOrder, m
  <2> QED
    BY <2>1, <2>2, <1>2, <1>3, PendingMember
<1>5. m.n \in Nat
  BY <1>1 DEF Msgs
<1>6. m \in Pending /\ Pending' = Pending \ {m}
  <2>1. m \in Pending
    BY <1>1, PendingMember DEF m
  <2>2. m \notin Pending'
    BY <1>4, <1>5
  <2>3. \A x : x \in Pending' => x \in Pending
    BY <1>2, <1>3, PendingMember
  <2>4. \A x : x \in Pending /\ x # m => x \in Pending'
    BY <1>2, <1>3, PendingMember DEF m
  <2> QED
    BY <2>1, <2>2, <2>3, <2>4, Zenon
<1>7. delivered' = Append(delivered, m)
  BY DEF m, b0
<1> QED
  BY <1>4, <1>6, <1>7 DEF Q!Deliver, Q!Precedes, m, b0

\* DBQueue.hpp 217: the flag moves a message from its producer to its slot.
LEMMA PublishKeeps ==
  ASSUME IInv, IInv', NEW p \in Producers, Publish(p) PROVE Pending' = Pending
<1> USE Constants DEF Publish, qVars, consVars
<1>1. /\ cur[p].queue \in Buffers /\ cur[p].slot \in Slots
      /\ Live(cur[p].queue, cur[p].slot)
      /\ payload[cur[p].queue][cur[p].slot] = in[p]
      /\ Owns(p)
  BY Zenon DEF IInv, TypeOK, Contents, Owners, Owns
<1>2. \A b \in Buffers, s \in Slots :
        Readable(b, s)' <=> Readable(b, s) \/ (b = cur[p].queue /\ s = cur[p].slot)
  BY <1>1 DEF IInv, TypeOK, Readable, Live
<1>3. \A q \in Producers : /\ Owns(q)' <=> Owns(q) /\ q # p
                           /\ q # p => in'[q] = in[q]
  BY DEF IInv, TypeOK, Owns
<1>4. payload' = payload
  OBVIOUS
<1>5. \A m : m \in Pending' => m \in Pending
  BY <1>1, <1>2, <1>3, <1>4, PendingMember
<1>6. \A m : m \in Pending => m \in Pending'
  <2> SUFFICES ASSUME NEW m \in Pending PROVE m \in Pending'
    OBVIOUS
  <2>1. CASE m = in[p]
    BY <2>1, <1>1, <1>2, <1>4, PendingMember
  <2>2. CASE m # in[p]
    BY <2>2, <1>2, <1>3, <1>4, PendingMember
  <2> QED
    BY <2>1, <2>2
<1> QED
  BY <1>5, <1>6, Zenon

\* The other steps change no pending message: a refused push, the entry, a late
\* claim, m_full, the payload of a slot that cannot be read, the consumer's
\* tests, and the swap of the buffers.
LEMMA OthersKeep ==
  ASSUME IInv, IInv', TimelyNext, ~Move,
         \A p \in Producers : ~ClaimSlot(p) /\ ~Publish(p)
  PROVE  Pending' = Pending /\ delivered' = delivered
<1> USE Constants DEF qVars, consVars, prodVars
<1>1. ASSUME NEW p \in Producers,
             PushRefused(p) \/ PushEnter(p) \/ ClaimTooLate(p) \/ SetFull(p)
      PROVE  Pending' = Pending /\ delivered' = delivered
  <2>1. \A q \in Producers : (Owns(q)' <=> Owns(q)) /\ (Owns(q) => in'[q] = in[q])
    <3>1. CASE PushRefused(p) \/ PushEnter(p)
      BY <3>1 DEF IInv, TypeOK, Owns, PushRefused, PushEnter
    <3>2. CASE ClaimTooLate(p) \/ SetFull(p)
      BY <3>2 DEF IInv, TypeOK, Owns, ClaimTooLate, SetFull
    <3> QED BY <1>1, <3>1, <3>2, Zenon
  <2>2. \A b \in Buffers, s \in Slots :
          Readable(b, s)' <=> Readable(b, s)
    <3>1. CASE ClaimTooLate(p)
      <4>1. m_pointer \in [queue : Buffers, slot : 0 .. SlotSpan - 1]
        BY DEF IInv, TypeOK
      <4>2. m_pointer'.slot = m_pointer.slot + 1 /\ m_pointer.slot \in Nat
        BY <3>1, <4>1, SMTT(30) DEF ClaimTooLate
      <4> QED
        BY <3>1, <4>2 DEF Readable, Live, Slots, ClaimTooLate
    <3>2. CASE PushRefused(p) \/ PushEnter(p) \/ SetFull(p)
      BY <3>2 DEF Readable, Live, PushRefused, PushEnter, SetFull
    <3> QED
      BY <1>1, <3>1, <3>2
  <2>3. payload' = payload /\ delivered' = delivered
    BY <1>1, SMTT(30) DEF PushRefused, PushEnter, ClaimTooLate, SetFull
  <2> QED
    BY <2>1, <2>2, <2>3, PendingSame
<1>2. ASSUME NEW p \in Producers, Write(p)
      PROVE  Pending' = Pending /\ delivered' = delivered
  <2>1. \A q \in Producers : (Owns(q)' <=> Owns(q)) /\ in'[q] = in[q]
    BY <1>2 DEF IInv, TypeOK, Owns, Write
  <2>2. /\ cur[p].queue \in Buffers /\ cur[p].slot \in Slots
        /\ ~valid[cur[p].queue][cur[p].slot]
    BY <1>2 DEF IInv, TypeOK, Owners, Owns, Write
  <2>3. \A b \in Buffers, s \in Slots :
          /\ Readable(b, s)' <=> Readable(b, s)
          /\ Readable(b, s) => payload'[b][s] = payload[b][s]
    BY <1>2, <2>2 DEF IInv, TypeOK, Readable, Live, Write
  <2>4. delivered' = delivered
    BY <1>2 DEF Write
  <2> QED
    BY <2>1, <2>3, <2>4, PendingSame
<1>3. CASE Pop \/ SeeValid \/ Exhausted \/ ClearFull
  <2>1. UNCHANGED <<valid, payload, m_pointer, m_read, m_consumer_q, m_full_slots,
                    pc, in, delivered>>
    BY <1>3 DEF Pop, SeeValid, Exhausted, ClearFull
  <2> QED
    BY <2>1 DEF Pending, Live, Owns
<1>4. CASE ClearValid \/ Exchange
  <2>1. UNCHANGED <<payload, pc, in, delivered>>
    BY <1>4, Zenon DEF ClearValid, Exchange
  <2>2. \A b \in Buffers, s \in Slots : Readable(b, s)' <=> Readable(b, s)
    <3>1. CASE ClearValid
      BY <3>1 DEF IInv, TypeOK, Structure, Readable, Live, Slots, ClearValid
    <3>2. CASE Exchange
      BY <3>2 DEF IInv, TypeOK, Structure, Readable, Live, Slots, Exchange,
                  exchange_queue, Buffers
    <3> QED
      BY <1>4, <3>1, <3>2
  <2> QED
    BY <2>1, <2>2, PendingSame DEF Owns
<1> QED
  BY <1>1, <1>2, <1>3, <1>4 DEF TimelyNext, Push, PopStep

\* The lock-free queue implements the abstract one: a message whose slot was
\* claimed is delivered exactly once, after the earlier ones of its producer,
\* across any number of swaps (DBQueue.hpp 83-115, 199-219).
THEOREM Implements == TimelySpec => MsgQueueSpec
<1>1. Init => Q!Init
  BY DEF Init, Q!Init, Pending, Owns, Buffers, Msgs
<1>2. IInv /\ IInv' /\ [TimelyNext]_vars => [Q!Next]_(Q!vars)
  <2> SUFFICES ASSUME IInv, IInv', [TimelyNext]_vars
               PROVE  Q!Next \/ UNCHANGED Q!vars
    OBVIOUS
  <2>1. ASSUME NEW p \in Producers, ClaimSlot(p) PROVE Q!Next
    <3>1. in[p] \in Msgs
      BY <2>1 DEF IInv, Contents, ClaimSlot
    <3> QED
      BY <2>1, <3>1, ClaimAccepts DEF Q!Next
  <2>2. CASE Move
    <3>1. payload[m_consumer_q][m_read] \in Msgs
      BY <2>2, Constants, SMTT(30) DEF IInv, TypeOK, Structure, Contents, Readable, Live,
                             Slots, Move
    <3> QED
      BY <2>2, <3>1, MoveDelivers, SMTT(30) DEF Q!Next
  <2>3. ASSUME NEW p \in Producers, Publish(p) PROVE UNCHANGED Q!vars
    BY <2>3, PublishKeeps, Zenon DEF Q!vars, Publish, consVars
  <2>4. CASE UNCHANGED vars
    BY <2>4 DEF vars, Q!vars, Pending, Owns, Live
  <2> QED
    BY <2>1, <2>2, <2>3, <2>4, OthersKeep DEF Q!vars
<1> QED
  BY <1>1, <1>2, Invariance, PTL DEF TimelySpec, MsgQueueSpec, Q!Spec

-----------------------------------------------------------------------------
(* The consumer passes slots over (Skip) and producers write into them     *)
(* late, when they may be claimed by others.  SlotExclusion and the order  *)
(* are lost then, but no message is delivered twice.                       *)

(* The producer has its message still to write. *)
Carries(p) == pc[p] \in {"claim", "set_full", "write"}

(* The part of TypeOK that a late producer does not disturb. *)
Types ==
  /\ payload \in [Buffers -> [Slots -> Msgs \cup {NoMsg}]]
  /\ m_consumer_q \in Buffers /\ m_full_slots \in 0 .. Qlen /\ m_read \in Nat
  /\ m_pointer \in [queue : Buffers, slot : Nat]
  /\ cons = "move" => m_read < m_full_slots
  /\ pc \in [Producers -> {"idle", "claim", "set_full", "write", "publish"}]
  /\ cur \in [Producers -> [queue : Buffers, slot : Slots]]
  /\ in \in [Producers -> Msgs \cup {NoMsg}]
  /\ pushes \in Nat
  /\ delivered \in Seq(Msgs \cup {NoMsg})

Stored(m) == \E b \in Buffers, s \in Slots : payload[b][s] = m
Given(m)  == \E i \in 1 .. Len(delivered) : delivered[i] = m

(* A message that is not written yet is its producer's own, and nowhere    *)
(* else.                                                                   *)
Own == \A p \in Producers : Carries(p) => /\ in[p] \in Msgs /\ in[p].from = p
                                          /\ ~Stored(in[p]) /\ ~Given(in[p])

(* A message is in one slot, and no longer in a slot when it was given to  *)
(* the block: move leaves the slot empty.                                  *)
OneSlot ==
  \A b, c \in Buffers : \A s, r \in Slots :
    payload[b][s] # NoMsg =>
      /\ payload[b][s] = payload[c][r] => b = c /\ s = r
      /\ ~Given(payload[b][s])

(* Numbers of messages that are to come are larger. *)
Old(m) == m # NoMsg => m.n <= pushes
AllOld == /\ \A p \in Producers : Old(in[p])
          /\ \A b \in Buffers, s \in Slots : Old(payload[b][s])
          /\ \A i \in 1 .. Len(delivered) : Old(delivered[i])

LateInv == Types /\ Own /\ OneSlot /\ AllOld /\ NoDuplicate

-----------------------------------------------------------------------------
(* Init => LateInv. *)
LEMMA InitLate ==
  Init => LateInv
<1> SUFFICES ASSUME Init PROVE LateInv
  OBVIOUS
<1>1. 0 \in Slots /\ 0 \in Buffers /\ 1 \in Buffers /\ 0 \in 0 .. Qlen
  BY QlenAssumption DEF Slots, Buffers
<1>2. Types
  BY <1>1 DEF Init, Types, Origin
<1>3. Own
  BY DEF Init, Own, Carries
<1>4. OneSlot
  BY DEF Init, OneSlot
<1>5. AllOld
  BY DEF Init, AllOld, Old
<1>6. NoDuplicate
  BY DEF Init, NoDuplicate
<1>7. QED
  BY <1>2, <1>3, <1>4, <1>5, <1>6 DEF LateInv

-----------------------------------------------------------------------------
(* A step that moves no message: what a producer carries is kept, dropped  *)
(* or already written.                                                     *)
LEMMA MovesNothing ==
  ASSUME LateInv, Types', UNCHANGED <<payload, delivered, pushes>>,
         \A p \in Producers : /\ in'[p] = in[p] \/ in'[p] = NoMsg
                              /\ Carries(p)' => Carries(p) /\ in'[p] = in[p]
  PROVE  LateInv'
<1>0. payload' = payload /\ delivered' = delivered /\ pushes' = pushes
  OBVIOUS
<1>1. Own'
  <2> SUFFICES ASSUME NEW p \in Producers, Carries(p)'
               PROVE  /\ in'[p] \in Msgs /\ in'[p].from = p
                      /\ ~Stored(in[p])' /\ ~Given(in[p])'
    BY Zenon DEF Own
  <2>1. Carries(p) /\ in'[p] = in[p]
    BY Zenon
  <2>2. in[p] \in Msgs /\ in[p].from = p /\ ~Stored(in[p]) /\ ~Given(in[p])
    BY <2>1, Zenon DEF LateInv, Own
  <2>3. ~Stored(in[p])'
    BY <1>0, <2>1, <2>2, ZenonT(40) DEF Stored
  <2>4. ~Given(in[p])'
    BY <1>0, <2>1, <2>2, Zenon DEF Given
  <2>5. QED
    BY <2>1, <2>2, <2>3, <2>4, Zenon
<1>2. OneSlot'
  BY <1>0, SMTT(30) DEF LateInv, OneSlot, Given
<1>3. AllOld'
  BY DEF LateInv, AllOld, Old
<1>4. NoDuplicate'
  BY <1>0, Zenon DEF LateInv, NoDuplicate
<1>5. QED
  BY <1>1, <1>2, <1>3, <1>4, Zenon DEF LateInv

(* push with a full queue: only the count of the calls changes. *)
LEMMA PushRefusedLate ==
  ASSUME LateInv, NEW p \in Producers, PushRefused(p)
  PROVE  LateInv'
<1>1. /\ pushes' = pushes + 1 /\ pushes \in Nat
      /\ UNCHANGED <<payload, delivered, pc, cur, in, m_consumer_q, m_full_slots,
                     m_read, m_pointer, cons>>
  BY DEF PushRefused, qVars, consVars, LateInv, Types
<1>2. Types'
  BY <1>1, SMTT(30) DEF LateInv, Types
<1>5. Own'
  BY <1>1 DEF LateInv, Own, Carries, Stored, Given
<1>6. OneSlot' /\ NoDuplicate'
  <2>1. OneSlot'
    BY <1>1 DEF LateInv, OneSlot, Given
  <2>2. NoDuplicate'
    BY <1>1 DEF LateInv, NoDuplicate
  <2> QED BY <2>1, <2>2
<1>3. AllOld'
  <2>1. ASSUME NEW m \in Msgs \cup {NoMsg}, Old(m) PROVE Old(m)'
    BY <1>1, <2>1 DEF Old, Msgs
  <2>2. QED
    BY <1>1, <2>1 DEF LateInv, AllOld, Types
<1>4. QED
  BY <1>2, <1>3, <1>5, <1>6 DEF LateInv

(* A new message has a number that no other has. *)
LEMMA PushEnterLate ==
  ASSUME LateInv, NEW p \in Producers, PushEnter(p)
  PROVE  LateInv'
<1> DEFINE m == [from |-> p, n |-> pushes + 1]
<1>1. /\ pushes' = pushes + 1 /\ pushes \in Nat /\ pushes < MaxPush /\ MaxPush \in Nat
      /\ in' = [in EXCEPT ![p] = m] /\ pc' = [pc EXCEPT ![p] = "claim"]
      /\ UNCHANGED <<payload, delivered, cur, m_consumer_q, m_full_slots, m_read,
                     m_pointer, cons>>
  BY SpanAssumption DEF PushEnter, qVars, consVars, LateInv, Types
<1>2. m \in Msgs /\ m.from = p /\ m.n = pushes + 1 /\ m # NoMsg
  BY <1>1, NoMsgAssumption DEF Msgs
<1>3. Types'
  BY <1>1, <1>2, SMTT(30) DEF LateInv, Types
<1>4. ~Stored(m) /\ ~Given(m)
  BY <1>1, <1>2 DEF LateInv, AllOld, Old, Stored, Given
<1>5. Own'
  BY <1>1, <1>2, <1>4, SMTT(30) DEF LateInv, Own, Carries, Types, Stored, Given
<1>6. OneSlot' /\ NoDuplicate'
  BY <1>1, SMTT(30) DEF LateInv, OneSlot, NoDuplicate, Given
<1>7. AllOld'
  <2>1. ASSUME NEW x \in Msgs \cup {NoMsg}, Old(x) PROVE Old(x)'
    BY <1>1, <2>1 DEF Old, Msgs
  <2>2. ASSUME NEW q \in Producers PROVE Old(in[q])'
    <3>1. CASE q = p
      BY <1>1, <1>2, <3>1, SMTT(30) DEF Old, LateInv, Types
    <3>2. CASE q # p
      BY <1>1, <2>1, <3>2, SMTT(30) DEF LateInv, AllOld, Types
    <3>3. QED
      BY <3>1, <3>2
  <2>3. ASSUME NEW b \in Buffers, NEW s \in Slots PROVE Old(payload[b][s])'
    BY <1>1, <2>1 DEF LateInv, AllOld, Types
  <2>4. ASSUME NEW i \in 1 .. Len(delivered) PROVE Old(delivered[i])'
    BY <1>1, <2>1 DEF LateInv, AllOld, Types
  <2>5. QED
    BY <1>1, <2>2, <2>3, <2>4 DEF AllOld
<1>8. QED
  BY <1>3, <1>5, <1>6, <1>7 DEF LateInv

(* The other steps of push, except for the writing of the payload. *)
LEMMA PushOtherLate ==
  ASSUME LateInv, NEW p \in Producers,
         ClaimSlot(p) \/ ClaimTooLate(p) \/ SetFull(p) \/ Publish(p)
  PROVE  LateInv'
<1> USE DEF LateInv
<1>1. CASE ClaimSlot(p)
  <2>1. /\ m_pointer.slot \in Slots /\ m_pointer.queue \in Buffers
        /\ m_pointer \in [queue : Buffers, slot : Slots]
        /\ m_pointer.slot + 1 \in Nat
    BY <1>1, QlenAssumption DEF ClaimSlot, Types, Slots
  <2>2. Types'
    BY <1>1, <2>1, Zenon DEF ClaimSlot, Types, qVars, consVars
  <2>3. QED
    BY <1>1, <2>2, MovesNothing DEF ClaimSlot, Types, qVars, consVars, Carries
<1>2. CASE ClaimTooLate(p)
  <2>1. m_pointer' \in [queue : Buffers, slot : Nat]
    BY <1>2, SMTT(30) DEF ClaimTooLate, Types
  <2>2. Types'
    BY <1>2, <2>1 DEF ClaimTooLate, Types, qVars, consVars
  <2>3. QED
    BY <1>2, <2>2, MovesNothing DEF ClaimTooLate, Types, qVars, consVars, Carries
<1>3. CASE SetFull(p)
  <2>1. Types'
    BY <1>3, SMTT(30) DEF SetFull, Types, qVars, consVars
  <2>2. QED
    BY <1>3, <2>1, MovesNothing DEF SetFull, Types, qVars, consVars, Carries
<1>4. CASE Publish(p)
  <2>1. Origin \in [queue : Buffers, slot : Slots]
    BY QlenAssumption DEF Origin, Buffers, Slots
  <2>2. Types'
    BY <1>4, <2>1 DEF Publish, Types, consVars
  <2>3. QED
    BY <1>4, <2>2, MovesNothing DEF Publish, Types, consVars, Carries
<1>5. QED
  BY <1>1, <1>2, <1>3, <1>4

(* A late producer may overwrite a message that another one has put into   *)
(* the slot meanwhile: that one is lost, and its own is in this slot only. *)
LEMMA WriteLate ==
  ASSUME LateInv, NEW p \in Producers, Write(p)
  PROVE  LateInv'
<1>1. PICK B \in Buffers, S \in Slots : cur[p].queue = B /\ cur[p].slot = S
  BY DEF LateInv, Types
<1>2. PICK m : m = in[p]
  OBVIOUS
<1>3. /\ m \in Msgs /\ m.from = p /\ ~Stored(m) /\ ~Given(m) /\ Old(m)
  BY <1>2 DEF Write, LateInv, Own, Carries, AllOld
<1>4. /\ payload \in [Buffers -> [Slots -> Msgs \cup {NoMsg}]]
      /\ payload' = [payload EXCEPT ![B][S] = m]
      /\ pc \in [Producers -> {"idle", "claim", "set_full", "write", "publish"}]
      /\ pc' = [pc EXCEPT ![p] = "publish"]
      /\ UNCHANGED <<cur, in, delivered, pushes, m_consumer_q, m_full_slots, m_read,
                     m_pointer, cons>>
  BY <1>1, <1>2 DEF Write, consVars, LateInv, Types
<1>5. \A b \in Buffers, s \in Slots :
        payload'[b][s] = IF b = B /\ s = S THEN m ELSE payload[b][s]
  BY <1>1, <1>4
<1>6. Types'
  BY <1>1, <1>3, <1>4 DEF LateInv, Types
<1>7. Own'
  <2> SUFFICES ASSUME NEW q \in Producers, Carries(q)'
               PROVE  (/\ in[q] \in Msgs /\ in[q].from = q
                       /\ ~Stored(in[q]) /\ ~Given(in[q]))'
    BY DEF Own
  <2>1. q # p /\ Carries(q)
    BY <1>4 DEF Carries
  <2>2. /\ in[q] \in Msgs /\ in[q].from = q
        /\ ~Stored(in[q]) /\ ~Given(in[q]) /\ in[q] # m
    BY <1>3, <2>1 DEF LateInv, Own
  <2>3. QED
    BY <1>4, <1>5, <2>2 DEF Stored, Given
<1>8. OneSlot'
  <2> SUFFICES ASSUME NEW b \in Buffers, NEW c \in Buffers, NEW s \in Slots, NEW r \in Slots,
                      payload'[b][s] # NoMsg
               PROVE  /\ payload'[b][s] = payload'[c][r] => b = c /\ s = r
                      /\ ~(Given(payload[b][s])')
    BY DEF OneSlot
  <2>1. \A x : Given(x)' <=> Given(x)
    BY <1>4 DEF Given
  <2>2. \A d \in Buffers, t \in Slots : payload[d][t] # m
    BY <1>3 DEF Stored
  <2>3. payload'[b][s] = payload'[c][r] => b = c /\ s = r
    BY <1>5, <2>2 DEF LateInv, OneSlot
  <2>4. ~Given(payload'[b][s])
    BY <1>3, <1>5, SMTT(30) DEF LateInv, OneSlot
  <2>5. QED
    BY <1>4, <2>3, <2>4 DEF Given
<1>9. AllOld'
  BY <1>3, <1>4, <1>5 DEF LateInv, AllOld, Old
<1>10. NoDuplicate'
  BY <1>4 DEF LateInv, NoDuplicate
<1>11. QED
  BY <1>6, <1>7, <1>8, <1>9, <1>10 DEF LateInv

(* The payload leaves its slot when it is delivered. *)
LEMMA MoveLate ==
  ASSUME LateInv, Move
  PROVE  LateInv'
<1>1. m_read \in Slots /\ m_consumer_q \in Buffers
  BY QlenAssumption DEF Move, LateInv, Types, Slots
<1>2. PICK B, S, m : B = m_consumer_q /\ S = m_read /\ m = payload[B][S]
  OBVIOUS
<1>3. B \in Buffers /\ S \in Slots /\ m \in Msgs \cup {NoMsg} /\ Old(m)
  BY <1>1, <1>2 DEF LateInv, Types, AllOld
<1>4. /\ payload \in [Buffers -> [Slots -> Msgs \cup {NoMsg}]]
      /\ payload' = [payload EXCEPT ![B][S] = NoMsg]
      /\ delivered \in Seq(Msgs \cup {NoMsg})
      /\ delivered' = Append(delivered, m)
      /\ m_read' = m_read + 1 /\ m_read' \in Nat /\ cons' = "idle"
      /\ UNCHANGED <<pc, cur, in, pushes, m_consumer_q, m_full_slots, m_pointer>>
  BY <1>2 DEF Move, prodVars, LateInv, Types
<1>5. \A b \in Buffers, s \in Slots :
        payload'[b][s] = IF b = B /\ s = S THEN NoMsg ELSE payload[b][s]
  BY <1>3, <1>4
<1>6. /\ delivered' \in Seq(Msgs \cup {NoMsg})
      /\ Len(delivered) \in Nat /\ Len(delivered') = Len(delivered) + 1
      /\ \A i \in 1 .. Len(delivered) : delivered'[i] = delivered[i]
      /\ delivered'[Len(delivered) + 1] = m
  BY <1>3, <1>4
<1>7. \A x : Given(x)' <=> Given(x) \/ x = m
  <2> SUFFICES ASSUME NEW x
               PROVE  (\E i \in 1 .. Len(delivered') : delivered'[i] = x)
                        <=> (\E i \in 1 .. Len(delivered) : delivered[i] = x) \/ x = m
    BY Zenon DEF Given
  <2>1. ASSUME NEW i \in 1 .. Len(delivered'), delivered'[i] = x
        PROVE  (\E j \in 1 .. Len(delivered) : delivered[j] = x) \/ x = m
    BY <1>6, <2>1
  <2>2. ASSUME NEW i \in 1 .. Len(delivered), delivered[i] = x
        PROVE  \E j \in 1 .. Len(delivered') : delivered'[j] = x
    BY <1>6, <2>2
  <2>3. m = delivered'[Len(delivered) + 1] /\ Len(delivered) + 1 \in 1 .. Len(delivered')
    BY <1>6, SMTT(30)
  <2>4. QED
    BY <2>1, <2>2, <2>3
<1>8. Types'
  BY <1>3, <1>4, <1>6, SMTT(30) DEF LateInv, Types
<1>9. Own'
  <2> SUFFICES ASSUME NEW q \in Producers, Carries(q)'
               PROVE  (/\ in[q] \in Msgs /\ in[q].from = q
                       /\ ~Stored(in[q]) /\ ~Given(in[q]))'
    BY DEF Own
  <2>1. /\ in[q] \in Msgs /\ in[q].from = q
        /\ ~Stored(in[q]) /\ ~Given(in[q])
    BY <1>4 DEF LateInv, Own, Carries
  <2>6. in[q] # NoMsg
    BY <2>1, NoMsgAssumption DEF Msgs
  <2>2. in[q] # m
    BY <1>2, <1>3, <2>1 DEF Stored
  <2>3. ~(Stored(in[q])')
    BY <1>4, <1>5, <2>1, <2>6 DEF Stored
  <2>4. ~(Given(in[q])')
    BY <1>4, <1>7, <2>1, <2>2 DEF Given
  <2>5. QED
    BY <1>4, <2>1, <2>3, <2>4
<1>10. OneSlot'
  <2> SUFFICES ASSUME NEW b \in Buffers, NEW c \in Buffers, NEW s \in Slots, NEW r \in Slots,
                      payload'[b][s] # NoMsg
               PROVE  /\ payload'[b][s] = payload'[c][r] => b = c /\ s = r
                      /\ ~(Given(payload[b][s])')
    BY DEF OneSlot
  <2>1. payload'[b][s] = payload[b][s] /\ ~(b = B /\ s = S)
    BY <1>5
  <2>2. payload[b][s] # m
    BY <1>2, <1>3, <2>1 DEF LateInv, OneSlot
  <2>3. payload'[b][s] = payload'[c][r] => b = c /\ s = r
    BY <1>5, <2>1 DEF LateInv, OneSlot
  <2>4. ~Given(payload[b][s])
    BY <2>1 DEF LateInv, OneSlot
  <2>5. ~\E i \in 1 .. Len(delivered') : delivered'[i] = payload[b][s]
    BY <1>7, <2>2, <2>4, Zenon DEF Given
  <2>6. QED
    BY <2>1, <2>3, <2>5 DEF Given
<1>11. AllOld'
  BY <1>3, <1>4, <1>5, <1>6 DEF LateInv, AllOld, Old
<1>12. NoDuplicate'
  <2> SUFFICES ASSUME NEW i \in 1 .. Len(delivered'), NEW j \in 1 .. Len(delivered'),
                      i # j, delivered'[i] # NoMsg
               PROVE  delivered'[i] # delivered'[j]
    BY DEF NoDuplicate
  <2>1. m # NoMsg => \A k \in 1 .. Len(delivered) : delivered[k] # m
    BY <1>2, <1>3 DEF LateInv, OneSlot, Given
  <2>2. CASE i \in 1 .. Len(delivered) /\ j \in 1 .. Len(delivered)
    BY <1>6, <2>2 DEF LateInv, NoDuplicate
  <2>3. CASE i = Len(delivered) + 1 /\ j \in 1 .. Len(delivered)
    BY <1>6, <2>1, <2>3
  <2>4. CASE j = Len(delivered) + 1 /\ i \in 1 .. Len(delivered)
    BY <1>6, <2>1, <2>4
  <2>5. QED
    BY <1>6, <2>2, <2>3, <2>4
<1>13. QED
  BY <1>8, <1>9, <1>10, <1>11, <1>12 DEF LateInv

(* The other steps of pop touch no message, Skip included. *)
LEMMA PopOtherLate ==
  ASSUME LateInv,
         \/ Pop \/ SeeValid \/ Skip \/ Exhausted \/ ClearValid \/ Exchange \/ ClearFull
  PROVE  LateInv'
<1>1. UNCHANGED <<payload, delivered, prodVars>>
  BY Zenon DEF Pop, SeeValid, Skip, Exhausted, ClearValid, Exchange, ClearFull, qVars
<1>2. Types'
  <2>1. CASE Exchange
    <3>1. m_full_slots' \in 0 .. Qlen /\ exchange_queue(m_consumer_q) \in Buffers
      BY <2>1, QlenAssumption, SMTT(30) DEF Exchange, exchange_queue, LateInv, Types, Buffers
    <3>2. QED
      BY <1>1, <2>1, <3>1 DEF Exchange, LateInv, Types, prodVars
  <2>2. CASE Skip
    BY <1>1, <2>2 DEF Skip, Consuming, LateInv, Types, prodVars
  <2>3. CASE \/ Pop \/ SeeValid \/ Exhausted \/ ClearValid \/ ClearFull
    BY <1>1, <2>3, Zenon DEF Pop, SeeValid, Exhausted, ClearValid, ClearFull, LateInv, Types, prodVars
  <2>4. QED
    BY <2>1, <2>2, <2>3
<1>3. QED
  BY <1>1, <1>2, MovesNothing DEF prodVars, Carries

(* LateInv /\ [Next]_vars => LateInv'. *)
LEMMA NextLate ==
  LateInv /\ [Next]_vars => LateInv'
<1> SUFFICES ASSUME LateInv, [Next]_vars PROVE LateInv'
  OBVIOUS
<1>1. ASSUME NEW p \in Producers, Push(p) PROVE LateInv'
  BY <1>1, PushRefusedLate, PushEnterLate, PushOtherLate, WriteLate DEF Push
<1>2. CASE PopStep \/ Skip
  BY <1>2, PopOtherLate, MoveLate DEF PopStep
<1>3. CASE UNCHANGED vars
  <2>1. Types'
    BY <1>3 DEF vars, LateInv, Types
  <2>2. QED
    BY <1>3, <2>1, MovesNothing DEF vars, Carries
<1>4. QED
  BY <1>1, <1>2, <1>3 DEF Next, TimelyNext

(* DBQueue.hpp 107: a message that pop has returned is never returned      *)
(* again, although slots are passed over, claimed a second time, and       *)
(* written by two producers (NoDuplicate, for any number of producers,     *)
(* slots and pushes).                                                      *)
THEOREM NeverTwice ==
  Spec => []NoDuplicate
<1>1. Spec => []LateInv
  BY InitLate, NextLate, PTL DEF Spec
<1>2. LateInv => NoDuplicate
  BY DEF LateInv
<1>3. QED
  BY <1>1, <1>2, PTL
=============================================================================
