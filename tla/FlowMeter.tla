------------------------------ MODULE FlowMeter ------------------------------
(***************************************************************************)
(* FlowMeter and PeriodFlowMeter (blocks/).  Packets are counted into the  *)
(* flows of a table.  A FlowMeter reports a flow when a packet finds it    *)
(* older than the active timeout, or when its timer finds it idle; the     *)
(* timer goes round a queue of flows.  A PeriodFlowMeter reports the whole *)
(* table at each timer.  Both are indirect: a packet and a timer are never *)
(* handled at once.  Times are in milliseconds.                            *)
(***************************************************************************)
EXTENDS Integers, Sequences, FiniteSets, SequencesExt, FiniteSetsExt

CONSTANTS Keys, QSizes, Idle, Active, MaxTime, MaxPackets

VARIABLES periodic,   \* the block is a PeriodFlowMeter
          qsize,      \* Q_SIZE
          now,        \* get_BM_time
          table,      \* key -> flow, over the keys in the table
          queue,      \* slots [key, last_checked]
          reports,    \* the flows sent out, of each key
          received,   \* the times of the packets of each key
          overflowed, \* keys that got no slot
          checked     \* the time of the timer that was just handled, or 0
vars == <<periodic, qsize, now, table, queue, reports, received, overflowed, checked>>

Init ==
  /\ periodic \in BOOLEAN /\ qsize \in QSizes
  /\ now = 1 /\ table = <<>> /\ queue = <<>>
  /\ reports = [k \in Keys |-> <<>>] /\ received = [k \in Keys |-> <<>>]
  /\ overflowed = {} /\ checked = 0

NewFlow == [stime |-> 0, etime |-> 0, packets |-> <<>>]
expand_interval(f, us) ==
  LET g == [f EXCEPT !.stime = IF @ = 0 \/ @ > us THEN us ELSE @]
  IN  [g EXCEPT !.etime = IF g.stime = 0 \/ @ < us THEN us ELSE @]
Count(f) == [expand_interval(f, now) EXCEPT !.packets = Append(@, now)]
Put(k, f) == table' = [x \in (DOMAIN table) \cup {k} |-> IF x = k THEN f ELSE table[x]]

pop_slot(q) == Tail(q)
push_slot(q, slot) == IF Len(q) = qsize - 1 THEN q ELSE Append(q, slot)
-----------------------------------------------------------------------------
NewKey(k) ==
  /\ Put(k, Count(NewFlow))
  /\ IF periodic THEN UNCHANGED <<queue, overflowed>>
     ELSE /\ queue' = push_slot(queue, [key |-> k, last_checked |-> now])
          /\ overflowed' = IF queue' = queue THEN overflowed \cup {k} ELSE overflowed
  /\ UNCHANGED reports

(* Mutant of Export: the flow is not reset once it was reported. *)
ExportKeeping(k) ==
  LET f == expand_interval(table[k], now)
  IN  reports' = [reports EXCEPT ![k] = Append(@, f)] /\ Put(k, Count(f))
Export(k) ==
  LET f == expand_interval(table[k], now)
  IN  reports' = [reports EXCEPT ![k] = Append(@, f)] /\ Put(k, Count(NewFlow))

KnownKey(k) ==
  /\ IF ~periodic /\ now - table[k].stime > Active
     THEN Export(k) ELSE Put(k, Count(table[k])) /\ UNCHANGED reports
  /\ UNCHANGED <<queue, overflowed>>

receive_msg(k) ==
  /\ FoldSet(LAMBDA x, n : Len(received[x]) + n, 0, Keys) < MaxPackets
  /\ received' = [received EXCEPT ![k] = Append(@, now)]
  /\ IF k \in DOMAIN table THEN KnownKey(k) ELSE NewKey(k)
  /\ checked' = 0 /\ UNCHANGED <<periodic, qsize, now>>
-----------------------------------------------------------------------------
(* The slots that the timer pops: the expired ones go, the others go to    *)
(* the back, up to one that was checked less than the idle timeout ago.    *)
Limit == now - Idle
Expired(slot) == table[slot.key].etime < Limit
(* Mutant of LastSlot: the time is compared after it was brought up to date. *)
LastSlotUpdated(slot) == now > Limit
LastSlot(slot) == slot.last_checked > Limit

RECURSIVE Round(_, _)
Round(q, sent) ==
  IF q = <<>> THEN [queue |-> q, sent |-> sent]
  ELSE IF Expired(Head(q)) THEN Round(pop_slot(q), sent \cup {Head(q).key})
  ELSE LET r == push_slot(pop_slot(q), [Head(q) EXCEPT !.last_checked = now])
       IN  IF LastSlot(Head(q)) THEN [queue |-> r, sent |-> sent] ELSE Round(r, sent)

(* Mutant of Send: the flow stays in the table. *)
SendKeeping(sent) ==
  reports' = [k \in Keys |-> IF k \in sent THEN Append(reports[k], table[k]) ELSE reports[k]] /\ UNCHANGED table
Send(sent) ==
  /\ reports' = [k \in Keys |-> IF k \in sent THEN Append(reports[k], table[k]) ELSE reports[k]]
  /\ table' = [k \in (DOMAIN table) \ sent |-> table[k]]

handle_timer ==
  /\ IF periodic THEN Send(DOMAIN table) /\ UNCHANGED queue
     ELSE LET r == Round(queue, {}) IN Send(r.sent) /\ queue' = r.queue
  /\ checked' = now
  /\ UNCHANGED <<periodic, qsize, now, received, overflowed>>

Tick == now < MaxTime /\ now' = now + 1 /\ checked' = 0
        /\ UNCHANGED <<periodic, qsize, table, queue, reports, received, overflowed>>

Next == (\E k \in Keys : receive_msg(k)) \/ handle_timer \/ Tick
-----------------------------------------------------------------------------
(* Every packet is in exactly one report or still in the table, in order,  *)
(* and inside the interval its flow claims.                                *)
Everything(k) == reports[k] \o (IF k \in DOMAIN table THEN <<table[k]>> ELSE <<>>)
PacketsInOneReport ==
  \A k \in Keys :
     /\ FoldLeft(LAMBDA s, f : s \o f.packets, <<>>, Everything(k)) = received[k]
     /\ \A i \in DOMAIN Everything(k) : LET f == Everything(k)[i] IN
          f.packets # <<>> /\ \A j \in DOMAIN f.packets : f.packets[j] \in f.stime..f.etime

(* Every flow of the table has one slot in the queue, without which it     *)
(* would never be found idle, unless the queue was full when it came; and  *)
(* the queue has no slot without a flow.                                   *)
TableAndQueueAgree ==
  ~periodic => /\ \A k \in (DOMAIN table) \ overflowed : Cardinality({i \in DOMAIN queue : queue[i].key = k}) = 1
               /\ \A i \in DOMAIN queue : queue[i].key \in DOMAIN table

(* After a timer no flow with a slot is idle for twice the timeout: the    *)
(* flows that it did not come to were checked less than a timeout before.  *)
IdleFlowsLeave ==
  checked # 0 => \A i \in DOMAIN queue : table[queue[i].key].etime > checked - 2 * Idle
=============================================================================
