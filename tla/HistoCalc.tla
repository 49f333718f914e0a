------------------------------ MODULE HistoCalc ------------------------------
(***************************************************************************)
(* The histogram block of the anomaly detector                             *)
(* (usr/app_Stat_AD/blocks/HistoCalc.cpp) as operators on its state:       *)
(* m_current_agg_time and one histogram for each configured feature, with  *)
(* the users it counted.  The edges of the bins of a feature are given.    *)
(***************************************************************************)
EXTENDS Integers, Sequences, FiniteSets, SequencesExt, FiniteSetsExt

(* The code's way of saying that a value belongs to no bin. *)
Filtered == -1

(* Mutant of get_bin_for_count: a value on an edge is put below it. *)
get_bin_below(count, edges, flag0) ==
  IF flag0 /\ count = 0 THEN Filtered
  ELSE LET fits == {i \in 1..(Len(edges) - 1) : count > edges[i] /\ count <= edges[i + 1]}
       IN  IF fits # {} THEN Min(fits)
           ELSE IF Len(edges) > 1 /\ count >= Last(edges) THEN Len(edges) - 1 ELSE Filtered
get_bin_for_count(count, edges, flag0) ==
  IF flag0 /\ count = 0 THEN Filtered
  ELSE LET fits == {i \in 1..(Len(edges) - 1) : count >= edges[i] /\ count < edges[i + 1]}
       IN  IF fits # {} THEN Min(fits)
           ELSE IF Len(edges) > 1 /\ count >= Last(edges) THEN Len(edges) - 1 ELSE Filtered

insert_dummy_elements(h) ==
  [h EXCEPT !.table = [f \in DOMAIN h.edges |->
     IF f \in DOMAIN h.table THEN h.table[f]
     ELSE [users |-> {}, histogram |-> [i \in 1..(Len(h.edges[f]) - 1) |-> 0], total |-> 0]]]

empty_hash_table(h) ==
  SetToSeq({[time |-> h.agg, feature |-> f, unique_users |-> Cardinality(h.table[f].users),
             histogram |-> h.table[f].histogram, total |-> h.table[f].total] : f \in DOMAIN h.table})

insert_elements(h, t) ==
  [h EXCEPT !.table = [f \in DOMAIN h.table |->
     IF f \notin DOMAIN t.features THEN h.table[f]
     ELSE LET bin == get_bin_for_count(t.features[f], h.edges[f], h.flag0)
          IN  IF bin = Filtered THEN h.table[f]
              ELSE [h.table[f] EXCEPT !.histogram[bin] = @ + 1, !.total = @ + t.features[f],
                                      !.users = @ \cup {t.user}]]]

(* Mutant of CloseIntervals: one round, as if intervals never were empty. *)
CloseOne(h, time) ==
  [block |-> insert_dummy_elements([h EXCEPT !.agg = time, !.table = [f \in {} |-> 0]]), out |-> empty_hash_table(h)]
(* The loop that sends the histograms of every interval before the time of *)
(* the ticket, empty ones included.                                        *)
CloseIntervals(h, time) ==
  FoldLeft(LAMBDA r, i :
             [block |-> insert_dummy_elements([r.block EXCEPT !.agg = @ + h.timescale, !.table = [f \in {} |-> 0]]),
              out   |-> r.out \o empty_hash_table(r.block)],
           [block |-> h, out |-> <<>>],
           [i \in 1..((time - h.agg + h.timescale - 1) \div h.timescale) |-> i])

(* Constructor and _configure: nothing is counted before the first ticket. *)
EmptyHistoCalc(timescale, flag0, edges) ==
  [timescale |-> timescale, flag0 |-> flag0, edges |-> edges, agg |-> 0, table |-> [f \in {} |-> 0]]

Receive(h, t) ==
  LET h1 == IF h.agg = 0 THEN [insert_dummy_elements(h) EXCEPT !.agg = t.time] ELSE h
      r  == IF t.time > h1.agg THEN CloseIntervals(h1, t.time) ELSE [block |-> h1, out |-> <<>>]
  IN  IF t.user = 0 /\ DOMAIN t.features = {} THEN r
      ELSE [r EXCEPT !.block = insert_elements(r.block, t)]
=============================================================================
