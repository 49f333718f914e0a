--------------------------- MODULE PerUserCounter ---------------------------
(***************************************************************************)
(* The aggregation block of the anomaly detector                           *)
(* (usr/app_Stat_AD/blocks/PerUserCounter.cpp) as operators on its state:  *)
(* m_current_agg_time and the table of the features of each user.  Time is *)
(* in minutes.  A ticket of user 0 without features is a signal.           *)
(***************************************************************************)
EXTENDS Integers, Sequences, SequencesExt

Ticket(time, user, features) == [time |-> time, user |-> user, features |-> features]
NoFeatures == [f \in {} |-> 0]
IsSignal(t) == t.user = 0 /\ DOMAIN t.features = {}
EmptyCounter(in_ts, out_ts) ==
  [in_ts |-> in_ts, out_ts |-> out_ts, agg |-> 0, table |-> [u \in {} |-> NoFeatures]]

(* An unordered map: its users come in any order, the parameter order. *)
empty_hash_table(c, order) ==
  LET users == SelectSeq(order, LAMBDA u : u \in DOMAIN c.table)
  IN  [i \in DOMAIN users |-> Ticket(c.agg, users[i], c.table[users[i]])]

AddFeatures(old, new) ==
  [f \in DOMAIN old \cup DOMAIN new |->
     (IF f \in DOMAIN old THEN old[f] ELSE 0) + (IF f \in DOMAIN new THEN new[f] ELSE 0)]

(* Mutant of insert_element_in_hash_table: a known user's entry is replaced. *)
insert_replacing(c, t) ==
  [c EXCEPT !.table = [u \in DOMAIN c.table \cup {t.user} |-> IF u # t.user THEN c.table[u] ELSE t.features]]
insert_element_in_hash_table(c, t) ==
  [c EXCEPT !.table =
     [u \in DOMAIN c.table \cup {t.user} |->
        IF u # t.user THEN c.table[u]
        ELSE IF u \in DOMAIN c.table THEN AddFeatures(c.table[u], t.features) ELSE t.features]]

(* Mutant of Over: also in minutes that come from another counter, a       *)
(* signal that carries the current time closes the interval.               *)
OverEarly(c, time) == time >= c.agg
(* A signal of the feature extractor carries the minute that begins, one   *)
(* of a counter the end of the interval that begins.                       *)
Over(c, time) == IF c.in_ts = 0 THEN time >= c.agg ELSE time > c.agg

(* The state after a ticket, and the tickets sent out. *)
Receive(c, t, order) ==
  LET agg == (t.time \div c.out_ts + 1) * c.out_ts
  IN  IF IsSignal(t) /\ t.time < c.agg THEN [block |-> c, out |-> <<>>]
      ELSE IF IsSignal(t) /\ Over(c, t.time)
      THEN [block |-> [c EXCEPT !.agg = agg, !.table = [u \in {} |-> NoFeatures]],
            out   |-> empty_hash_table(c, order) \o <<Ticket(agg, 0, NoFeatures)>>]
      ELSE [block |-> insert_element_in_hash_table(c, t), out |-> <<>>]
=============================================================================
