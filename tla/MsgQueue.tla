------------------------------ MODULE MsgQueue ------------------------------
(***************************************************************************)
(* What the queue of an input gate promises to the blocks around it: a     *)
(* message that was accepted is delivered exactly once, and the messages   *)
(* of one sender are delivered in the order in which they were accepted.   *)
(* Messages of different senders may overtake each other.  Nothing is said *)
(* about when a message is accepted: the queue may refuse one.             *)
(*                                                                         *)
(* A message is [from |-> the sender, n |-> its number]; a sender numbers  *)
(* its messages in increasing order.                                       *)
(***************************************************************************)
EXTENDS Naturals, Sequences

CONSTANT Msgs      \* the messages, records with the fields from and n

VARIABLES pending,    \* accepted and not yet delivered
          delivered   \* the messages delivered, in order

vars == <<pending, delivered>>

\* x was sent before y by the same sender.
Precedes(x, y) == x.from = y.from /\ x.n < y.n

Init == pending = {} /\ delivered = <<>>

Accept(m) ==
  /\ \A x \in pending : x.from = m.from => Precedes(x, m)
  /\ \A i \in 1..Len(delivered) :
        delivered[i].from = m.from => Precedes(delivered[i], m)
  /\ pending' = pending \cup {m}
  /\ UNCHANGED delivered

Deliver(m) ==
  /\ m \in pending
  /\ \A x \in pending \ {m} : x.from = m.from => Precedes(m, x)
  /\ pending' = pending \ {m}
  /\ delivered' = Append(delivered, m)

Next == \E m \in Msgs : Accept(m) \/ Deliver(m)

Spec == Init /\ [][Next]_vars
=============================================================================
