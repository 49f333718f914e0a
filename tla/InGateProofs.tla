---------------------------- MODULE InGateProofs ----------------------------
(***************************************************************************)
(* Every message that enters a gate is accounted for, for any number of    *)
(* senders, slots and messages, any WAIT_DURATION and any queue type.      *)
(***************************************************************************)
EXTENDS InGate, FiniteSetTheorems, TLAPS

(* The senders that still offer their message to the queue. *)
Offering == {s \in Senders : pc[s] \notin {"idle", "set_full"}}

IInv == TypeOK /\ Accounted

Places == {"idle", "set_full", "again", "retry", "locked", "wait", "leave"}

(* Offering is finite, so that its size is a number. *)
LEMMA OfferingFinite ==
  /\ IsFiniteSet(Offering) /\ Cardinality(Offering) \in Nat
  /\ IsFiniteSet(Offering') /\ Cardinality(Offering') \in Nat
<1>1. IsFiniteSet(Offering) /\ IsFiniteSet(Offering')
  BY FS_Subset, SendersAssumption DEF Offering
<1>2. QED
  BY <1>1, FS_CardinalityType

(* A sender that goes from one place of receive to another goes on offering. *)
LEMMA StillOffering ==
  ASSUME pc \in [Senders -> Places], NEW s \in Senders, NEW v \in Places,
         pc' = [pc EXCEPT ![s] = v],
         pc[s] \in {"idle", "set_full"} <=> v \in {"idle", "set_full"}
  PROVE  Cardinality(Offering') = Cardinality(Offering)
<1>1. Offering' = Offering
  BY DEF Offering
<1>2. QED
  BY <1>1

(* A failed push makes one more sender offer its message. *)
LEMMA BeginsToOffer ==
  ASSUME pc \in [Senders -> Places], NEW s \in Senders, NEW v \in Places,
         pc' = [pc EXCEPT ![s] = v],
         pc[s] \in {"idle", "set_full"}, v \notin {"idle", "set_full"}
  PROVE  Cardinality(Offering') = Cardinality(Offering) + 1
<1>1. Offering' = Offering \cup {s} /\ s \notin Offering
  BY DEF Offering
<1>2. QED
  BY <1>1, OfferingFinite, FS_AddElement

(* A sender that has placed its message, or gives it up, offers it no more. *)
LEMMA EndsToOffer ==
  ASSUME pc \in [Senders -> Places], NEW s \in Senders, NEW v \in Places,
         pc' = [pc EXCEPT ![s] = v],
         pc[s] \notin {"idle", "set_full"}, v \in {"idle", "set_full"}
  PROVE  Cardinality(Offering) = Cardinality(Offering') + 1
<1>1. Offering' = Offering \ {s} /\ s \in Offering
  BY DEF Offering
<1>2. Cardinality(Offering') = Cardinality(Offering) - 1
  BY <1>1, OfferingFinite, FS_RemoveElement
<1>3. QED
  BY <1>2, OfferingFinite

-----------------------------------------------------------------------------
(* The size of Offering appears below as a number n only. *)
Balance(n) == sent = taken + ready + claimed + dropped + n

(* Accounted in terms of Balance. *)
LEMMA AccountedBalance ==
  /\ Accounted <=> /\ Balance(Cardinality(Offering))
                   /\ queue_type # "drop" /\ running => dropped = 0
  /\ Accounted' <=> /\ Balance(Cardinality(Offering))'
                    /\ queue_type' # "drop" /\ running' => dropped' = 0
BY DEF Accounted, Balance, Offering

(* What the steps of the queue do to the numbers: a push that claims a     *)
(* slot adds one message, a pop moves messages from claimed over ready to  *)
(* taken.                                                                  *)
LEMMA QueueSteps ==
  ASSUME TypeOK
  PROVE  /\ PushClaims => /\ claimed' \in 0 .. Qlen /\ claimed' = claimed + 1
                          /\ UNCHANGED <<ready, m_full, taken>>
         /\ TakeReady \/ SwapAndTake =>
              /\ claimed' \in 0 .. Qlen /\ ready' \in 0 .. Qlen
              /\ m_full' \in BOOLEAN /\ taken' \in Nat
              /\ taken' + ready' + claimed' = taken + ready + claimed
<1> USE QlenAssumption
<1>1. /\ claimed \in 0 .. Qlen /\ ready \in 0 .. Qlen /\ m_full \in BOOLEAN
      /\ taken \in Nat
  BY DEF TypeOK
<1>2. ASSUME PushClaims
      PROVE  /\ claimed' \in 0 .. Qlen /\ claimed' = claimed + 1
             /\ UNCHANGED <<ready, m_full, taken>>
  BY <1>1, <1>2 DEF PushClaims
<1>3. ASSUME TakeReady
      PROVE  /\ claimed' \in 0 .. Qlen /\ ready' \in 0 .. Qlen
             /\ m_full' = m_full /\ taken' \in Nat
             /\ taken' + ready' + claimed' = taken + ready + claimed
  BY <1>1, <1>3 DEF TakeReady
<1>4. ASSUME SwapAndTake
      PROVE  /\ claimed' \in 0 .. Qlen /\ ready' \in 0 .. Qlen
             /\ m_full' = FALSE /\ taken' \in Nat
             /\ taken' + ready' + claimed' = taken + ready + claimed
  <2>1. CASE claimed > 0
    BY <1>1, <1>4, <2>1 DEF SwapAndTake
  <2>2. CASE claimed = 0
    BY <1>1, <1>4, <2>2 DEF SwapAndTake
  <2>3. claimed > 0 \/ claimed = 0
    BY <1>1
  <2>4. QED
    BY <2>1, <2>2, <2>3, Zenon
<1>5. QED
  BY <1>1, <1>2, <1>3, <1>4, Zenon

(* The types except for the bounds of the two counters taken and dropped. *)
Shapes ==
  /\ queue_type \in {"drop", "mutex", "poll"}
  /\ wait_expires \in BOOLEAN /\ is_waiting \in BOOLEAN /\ running \in BOOLEAN
  /\ owner \in Senders \cup {"none"} /\ asleep \subseteq Senders
  /\ claimed \in 0 .. Qlen /\ ready \in 0 .. Qlen /\ m_full \in BOOLEAN
  /\ pc \in [Senders -> Places]
  /\ cons \in {"idle", "pop", "lock"}
  /\ sent \in 0 .. MaxSend /\ taken \in Nat /\ dropped \in Nat

(* The bounds follow from the accounting: no more is taken or dropped than *)
(* was sent.                                                               *)
LEMMA BoundsFollow ==
  Shapes /\ Accounted => TypeOK
<1> SUFFICES ASSUME Shapes, Accounted PROVE TypeOK
  OBVIOUS
<1>1. Balance(Cardinality(Offering))
  BY AccountedBalance
<1>2. taken <= sent /\ dropped <= sent
  BY <1>1, OfferingFinite, QlenAssumption DEF Balance, Shapes
<1>3. QED
  BY <1>2, QlenAssumption DEF TypeOK, Shapes, Places

(* The other way round. *)
LEMMA TypesAreShapes ==
  TypeOK => Shapes
BY QlenAssumption DEF TypeOK, Shapes, Places

-----------------------------------------------------------------------------
(* A call of push: the message enters the queue or goes on being offered.  *)
(* d is 1 for a sender that did not offer it before, in Receive, and 0 in  *)
(* Retry.                                                                  *)
LEMMA TryPushStep ==
  ASSUME IInv, NEW s \in Senders, TryPush(s),
         UNCHANGED <<queue_type, running, dropped>>,
         NEW d \in {0, 1}, sent' = sent + d,
         pc[s] \in IF d = 1 THEN {"idle"} ELSE {"retry"}
  PROVE  /\ Accounted'
         /\ claimed' \in 0 .. Qlen /\ UNCHANGED <<ready, m_full, taken>>
         /\ pc' \in [Senders -> Places]
<1> DEFINE n == Cardinality(Offering)
<1>1. /\ Balance(n) /\ (queue_type # "drop" /\ running => dropped = 0)
      /\ n \in Nat /\ Cardinality(Offering') \in Nat
      /\ pc \in [Senders -> Places] /\ claimed \in 0 .. Qlen
      /\ ready \in Nat /\ taken \in Nat /\ dropped \in Nat /\ sent \in Nat
  BY AccountedBalance, OfferingFinite, QlenAssumption DEF IInv, TypeOK, Places
<1>2. CASE PushClaims /\ pc' = [pc EXCEPT ![s] = IF claimed = Qlen - 1 THEN "set_full" ELSE "idle"]
  <2>1. PICK v \in {"idle", "set_full"} : pc' = [pc EXCEPT ![s] = v]
    BY <1>2, Zenon
  <2>2. claimed' = claimed + 1 /\ claimed' \in 0 .. Qlen /\ UNCHANGED <<ready, m_full, taken>>
    BY <1>2, QueueSteps DEF IInv
  <2>3. Cardinality(Offering) = Cardinality(Offering') + 1 - d
    <3>1. pc \in [Senders -> Places] /\ v \in Places
      BY <1>1 DEF Places
    <3>2. CASE d = 1
      <4>1. Cardinality(Offering') = Cardinality(Offering)
        BY <2>1, <3>1, <3>2, StillOffering, Zenon
      <4>2. QED
        BY <3>2, <4>1, OfferingFinite
    <3>3. CASE d = 0
      <4>1. pc[s] = "retry"
        BY <3>3
      <4>2. Cardinality(Offering) = Cardinality(Offering') + 1
        BY <2>1, <3>1, <4>1, EndsToOffer, Zenon
      <4>3. QED
        BY <3>3, <4>2, OfferingFinite
    <3>4. QED
      BY <3>2, <3>3
  <2>4. Balance(Cardinality(Offering))'
    BY <1>1, <2>2, <2>3 DEF Balance
  <2>5. pc' \in [Senders -> Places]
    BY <1>1, <2>1 DEF Places
  <2>6. Accounted'
    BY <1>1, <2>4, AccountedBalance
  <2>7. QED
    BY <2>2, <2>5, <2>6
<1>3. CASE UNCHANGED queueVars /\ pc' = [pc EXCEPT ![s] = "again"]
  <2>1. Cardinality(Offering') = Cardinality(Offering) + d
    <3>1. pc \in [Senders -> Places] /\ "again" \in Places
      BY <1>1 DEF Places
    <3>2. CASE d = 1
      BY <1>3, <3>1, <3>2, BeginsToOffer, Zenon
    <3>3. CASE d = 0
      <4>1. pc[s] = "retry"
        BY <3>3
      <4>2. Cardinality(Offering') = Cardinality(Offering)
        BY <1>3, <3>1, <4>1, StillOffering, Zenon
      <4>3. QED
        BY <3>3, <4>2, OfferingFinite
    <3>4. QED
      BY <3>2, <3>3
  <2>2. Balance(Cardinality(Offering))'
    BY <1>1, <1>3, <2>1 DEF Balance, queueVars
  <2>3. pc' \in [Senders -> Places]
    BY <1>1, <1>3 DEF Places
  <2>4. Accounted'
    BY <1>1, <2>2, AccountedBalance
  <2>5. QED
    BY <1>1, <1>3, <2>3, <2>4 DEF queueVars
<1>4. QED
  BY <1>2, <1>3 DEF TryPush, PushRefused, PushTooLate

(* A step of a sender that moves no message. *)
LEMMA MovesNothing ==
  ASSUME IInv, NEW s \in Senders, NEW v \in Places, pc' = [pc EXCEPT ![s] = v],
         pc[s] \in {"idle", "set_full"} <=> v \in {"idle", "set_full"},
         UNCHANGED <<queue_type, running, claimed, ready, taken, sent, dropped>>
  PROVE  Accounted' /\ pc' \in [Senders -> Places]
<1>1. pc \in [Senders -> Places]
  BY DEF IInv, TypeOK, Places
<1>2. Cardinality(Offering') = Cardinality(Offering)
  BY <1>1, StillOffering, Zenon
<1>3. Accounted'
  BY <1>2, AccountedBalance DEF IInv, Balance
<1>4. QED
  BY <1>1, <1>3

(* Init => IInv. *)
LEMMA InitIInv ==
  Init => IInv
<1> SUFFICES ASSUME Init PROVE IInv
  OBVIOUS
<1>1. Shapes
  <2>1. 0 \in 0 .. Qlen /\ 0 \in 0 .. MaxSend /\ 0 \in Nat
    BY QlenAssumption
  <2>2. pc \in [Senders -> Places]
    BY DEF Init, Places
  <2>3. QED
    BY <2>1, <2>2, Zenon DEF Init, Shapes
<1>2. Offering = {}
  BY DEF Init, Offering
<1>3. Balance(Cardinality(Offering))
  <2>1. Cardinality(Offering) = 0
    BY <1>2, FS_EmptySet
  <2>2. QED
    BY <2>1 DEF Init, Balance
<1>4. Accounted
  BY <1>3, AccountedBalance DEF Init
<1>5. QED
  BY <1>1, <1>4, BoundsFollow DEF IInv

(* IInv /\ [Next]_vars => IInv', one step per action.  Only the accounting *)
(* needs an argument; Shapes is read off each action.                      *)
LEMMA NextIInv ==
  IInv /\ [Next]_vars => IInv'
<1> SUFFICES ASSUME IInv, [Next]_vars PROVE Accounted' /\ Shapes'
  BY BoundsFollow, PTL DEF IInv
<1>0. Shapes
  BY TypesAreShapes DEF IInv
<1>1. ASSUME NEW s \in Senders, Receive(s) PROVE Accounted' /\ Shapes'
  <2>1. /\ Accounted'
        /\ claimed' \in 0 .. Qlen /\ UNCHANGED <<ready, m_full, taken>>
        /\ pc' \in [Senders -> Places]
    BY <1>1, TryPushStep DEF Receive, confVars
  <2>2. sent' \in 0 .. MaxSend
    BY <1>0, <1>1, QlenAssumption DEF Receive, Shapes
  <2>3. QED
    BY <1>0, <1>1, <2>1, <2>2 DEF Receive, Shapes, confVars
<1>2. ASSUME NEW s \in Senders, SetFull(s) PROVE Accounted' /\ Shapes'
  <2>1. Accounted' /\ pc' \in [Senders -> Places]
    BY <1>2, MovesNothing, Zenon DEF SetFull, confVars, Places
  <2>2. QED
    BY <1>0, <1>2, <2>1 DEF SetFull, Shapes, confVars
<1>3. ASSUME NEW s \in Senders, GiveUp(s) PROVE Accounted' /\ Shapes'
  <2>1. pc \in [Senders -> Places] /\ "idle" \in Places
    BY <1>0 DEF Shapes, Places
  <2>2. Cardinality(Offering) = Cardinality(Offering') + 1
    BY <1>3, <2>1, EndsToOffer, Zenon DEF GiveUp
  <2>3. /\ dropped' = dropped + 1
        /\ UNCHANGED <<claimed, ready, taken, sent, queue_type, running>>
        /\ queue_type = "drop" \/ ~running
    BY <1>3 DEF GiveUp, queueVars, confVars
  <2>4. /\ claimed \in Nat /\ ready \in Nat /\ taken \in Nat /\ dropped \in Nat
        /\ Balance(Cardinality(Offering))
    BY <1>0, AccountedBalance, QlenAssumption DEF IInv, Shapes
  <2>5. Balance(Cardinality(Offering))'
    BY <2>2, <2>3, <2>4, OfferingFinite DEF Balance
  <2>6. Accounted'
    BY <2>3, <2>5, AccountedBalance
  <2>7. QED
    BY <1>0, <1>3, <2>1, <2>6 DEF GiveUp, Shapes, queueVars, confVars
<1>4. ASSUME NEW s \in Senders, Poll(s) PROVE Accounted' /\ Shapes'
  <2>1. Accounted' /\ pc' \in [Senders -> Places]
    BY <1>4, MovesNothing, Zenon DEF Poll, queueVars, confVars, Places
  <2>2. QED
    BY <1>0, <1>4, <2>1 DEF Poll, Shapes, queueVars, confVars
<1>5. ASSUME NEW s \in Senders, Lock(s) PROVE Accounted' /\ Shapes'
  <2>1. Accounted' /\ pc' \in [Senders -> Places]
    BY <1>5, MovesNothing, Zenon DEF Lock, queueVars, confVars, Places
  <2>2. QED
    BY <1>0, <1>5, <2>1 DEF Lock, Shapes, queueVars, confVars
<1>6. ASSUME NEW s \in Senders, Sleep(s) PROVE Accounted' /\ Shapes'
  <2>1. Accounted' /\ pc' \in [Senders -> Places]
    BY <1>6, MovesNothing, Zenon DEF Sleep, queueVars, confVars, Places
  <2>2. QED
    BY <1>0, <1>6, <2>1 DEF Sleep, Shapes, queueVars, confVars
<1>7. ASSUME NEW s \in Senders, Wake(s) PROVE Accounted' /\ Shapes'
  <2>1. Accounted' /\ pc' \in [Senders -> Places]
    BY <1>7, MovesNothing, Zenon DEF Wake, queueVars, confVars, Places
  <2>2. QED
    BY <1>0, <1>7, <2>1 DEF Wake, Shapes, queueVars, confVars
<1>8. ASSUME NEW s \in Senders, Expire(s) PROVE Accounted' /\ Shapes'
  <2>1. Accounted' /\ pc' \in [Senders -> Places]
    BY <1>8, MovesNothing, Zenon DEF Expire, queueVars, confVars, Places
  <2>2. QED
    BY <1>0, <1>8, <2>1 DEF Expire, Shapes, queueVars, confVars
<1>9. ASSUME NEW s \in Senders, Unlock(s) PROVE Accounted' /\ Shapes'
  <2>1. Accounted' /\ pc' \in [Senders -> Places]
    BY <1>9, MovesNothing, Zenon DEF Unlock, queueVars, confVars, Places
  <2>2. QED
    BY <1>0, <1>9, <2>1, Zenon DEF Unlock, Shapes, queueVars, confVars
<1>10. ASSUME NEW s \in Senders, Retry(s) PROVE Accounted' /\ Shapes'
  <2>1. sent \in Nat /\ sent' = sent + 0 /\ 0 \in {0, 1} /\ 0 # 1
    BY <1>0, <1>10, QlenAssumption DEF Retry, Shapes
  <2>2. /\ Accounted'
        /\ claimed' \in 0 .. Qlen /\ UNCHANGED <<ready, m_full, taken>>
        /\ pc' \in [Senders -> Places]
    BY <1>10, <2>1, TryPushStep DEF Retry, confVars
  <2>3. QED
    BY <1>0, <1>10, <2>2 DEF Retry, Shapes, confVars
<1>11. CASE Dequeue
  <2>1. UNCHANGED <<queue_type, running, claimed, ready, taken, pc, sent, dropped>>
    BY <1>11 DEF Dequeue, confVars, queueVars
  <2>2. Accounted'
    BY <2>1 DEF IInv, Accounted
  <2>3. QED
    BY <1>0, <1>11, <2>2 DEF Dequeue, Shapes, queueVars, confVars
<1>12. ASSUME TakeReady \/ SwapAndTake,
              UNCHANGED <<confVars, pc, sent, dropped>>
       PROVE  /\ Accounted'
              /\ claimed' \in 0 .. Qlen /\ ready' \in 0 .. Qlen
              /\ m_full' \in BOOLEAN /\ taken' \in Nat
  <2>1. /\ claimed' \in 0 .. Qlen /\ ready' \in 0 .. Qlen
        /\ m_full' \in BOOLEAN /\ taken' \in Nat
        /\ taken' + ready' + claimed' = taken + ready + claimed
    BY <1>12, QueueSteps DEF IInv
  <2>2. Offering' = Offering /\ UNCHANGED <<queue_type, running, sent, dropped>>
    BY <1>12 DEF Offering, confVars
  <2>3. /\ Balance(Cardinality(Offering)) /\ (queue_type # "drop" /\ running => dropped = 0)
        /\ claimed \in Nat /\ ready \in Nat /\ taken \in Nat /\ dropped \in Nat
    BY <1>0, AccountedBalance, QlenAssumption DEF IInv, Shapes
  <2>4. Balance(Cardinality(Offering))'
    <3>1. claimed' \in Nat /\ ready' \in Nat
      BY <2>1, QlenAssumption
    <3>2. QED
      BY <2>1, <2>2, <2>3, <3>1, OfferingFinite, Zenon DEF Balance
  <2>5. QED
    BY <2>1, <2>2, <2>3, <2>4, AccountedBalance
<1>13. CASE PlainPop
  BY <1>0, <1>12, <1>13 DEF PlainPop, Shapes, confVars
<1>14. CASE PopNotifyAll
  BY <1>0, <1>12, <1>14, Zenon DEF PopNotifyAll, Shapes, confVars
<1>15. CASE StopPools
  <2>1. /\ UNCHANGED <<queue_type, claimed, ready, taken, pc, sent, dropped>>
        /\ ~running'
    BY <1>15 DEF StopPools, queueVars
  <2>2. Accounted'
    BY <2>1 DEF IInv, Accounted
  <2>3. QED
    BY <1>0, <1>15, <2>2, Zenon DEF StopPools, Shapes, queueVars
<1>16. CASE UNCHANGED vars
  <2>1. Accounted'
    BY <1>16 DEF IInv, Accounted, vars
  <2>2. QED
    BY <1>0, <1>16, <2>1 DEF Shapes, vars
<1>17. QED
  BY <1>1, <1>2, <1>3, <1>4, <1>5, <1>6, <1>7, <1>8, <1>9, <1>10, <1>11, <1>13,
     <1>14, <1>15, <1>16 DEF Next, InReceive, InDequeue

-----------------------------------------------------------------------------
(* InGate.cpp 39-92: the gate's variables keep their types, whatever the   *)
(* number of senders, slots and messages.                                  *)
THEOREM GateTypeCorrect == Spec => []TypeOK
<1>1. IInv => TypeOK
  BY DEF IInv
<1>2. QED
  BY <1>1, InitIInv, NextIInv, PTL DEF Spec

(* InGate.cpp 39-92: every message that was sent is in the queue, was      *)
(* taken, is still offered by its sender, or was given up; and a blocking  *)
(* gate gives none up while the pools run, also when WAIT_DURATION or      *)
(* is_waiting start with any value.                                        *)
THEOREM NoMessageLost == Spec => []Accounted
<1>1. IInv => Accounted
  BY DEF IInv
<1>2. QED
  BY <1>1, InitIInv, NextIInv, PTL DEF Spec
=============================================================================
