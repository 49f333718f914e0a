----------------------------- MODULE Histograms -----------------------------
(***************************************************************************)
(* From packets to histograms in the anomaly detection application, two    *)
(* machines: the chain of counters and HistoCalc, and the edges of the     *)
(* bins.                                                                   *)
(***************************************************************************)
EXTENDS Integers, Sequences, FiniteSets, SequencesExt, FiniteSetsExt

-----------------------------------------------------------------------------
(***************************************************************************)
(* The counting half of the anomaly detector as its compositions connect   *)
(* it: the feature extractor, one or two PerUserCounters, HistoCalc.  The  *)
(* blocks are invoked directly, so a packet runs through all of them in    *)
(* one step.  A minute is the unit of time.                                *)
(***************************************************************************)
CONSTANTS Chains,      \* output timescales of the counters, one after the other
          Users, Kinds, Jumps,   \* packets: user, feature, value; minutes from one to the next
          Edges, Flag0,
          MaxPackets, MaxMinute

PC == INSTANCE PerUserCounter
HC == INSTANCE HistoCalc

VARIABLES minute,      \* m_current_minute of the extractor
          counters, histo,
          seen,        \* packets with the minute that was current when they came
          out          \* histograms sent
TicketPipelineVars == <<minute, counters, histo, seen, out>>

Chain == [i \in DOMAIN counters |-> counters[i].out_ts]
Timescale == Last(Chain)

TicketPipelineInit ==
  /\ \E chain \in Chains :
       /\ counters = [i \in DOMAIN chain |-> PC!EmptyCounter(IF i = 1 THEN 0 ELSE chain[i - 1], chain[i])]
       /\ histo = HC!EmptyHistoCalc(Last(chain), Flag0, Edges)
  /\ minute = 0
  /\ seen = <<>>
  /\ out = <<>>

(* Tickets through one counter, and through all of them. *)
Through(c, tickets, order) ==
  FoldLeft(LAMBDA r, t : LET s == PC!Receive(r.block, t, order) IN [block |-> s.block, out |-> r.out \o s.out],
           [block |-> c, out |-> <<>>], tickets)
ThroughAll(tickets, order) ==
  FoldLeft(LAMBDA r, i : LET s == Through(counters[i], r.out, order)
                         IN  [blocks |-> Append(r.blocks, s.block), out |-> s.out],
           [blocks |-> <<>>, out |-> tickets], [i \in DOMAIN counters |-> i])
IntoHistograms(tickets) ==
  FoldLeft(LAMBDA r, t : LET s == HC!Receive(r.block, t) IN [block |-> s.block, out |-> r.out \o s.out],
           [block |-> histo, out |-> <<>>], tickets)

Packet(m, user, feature, value, order) ==
  LET now   == IF m > minute THEN m ELSE minute
      first == (IF m > minute THEN <<PC!Ticket(m, 0, PC!NoFeatures)>> ELSE <<>>)
                 \o <<PC!Ticket(m, user, [f \in {feature} |-> value])>>
      c == ThroughAll(first, order)
      h == IntoHistograms(c.out)
  IN  /\ Len(seen) < MaxPackets
      /\ minute' = now
      /\ counters' = c.blocks
      /\ histo' = h.block
      /\ out' = out \o h.out
      /\ seen' = Append(seen, [minute |-> now, user |-> user, feature |-> feature, value |-> value])

Orders == {o \in [1..(Cardinality(Users) + 1) -> Users \cup {0}] : IsInjective(o)}

TicketPipelineNext == \E j \in Jumps, k \in Kinds, o \in Orders :
                        /\ minute + j \in 1..MaxMinute
                        /\ Packet(minute + j, k[1], k[2], k[3], o)
-----------------------------------------------------------------------------
(* A counter behind a counter takes a signal that carries the end of an    *)
(* interval for the first of the next one.  The minutes are aligned when   *)
(* no gap ends in the last minute of an interval.                          *)
Aligned ==
  Len(counters) = 1 \/
  \A i \in DOMAIN seen : LET before == IF i = 1 THEN 0 ELSE seen[i - 1].minute
                         IN  seen[i].minute > before + 1 \/ before = 0 => (seen[i].minute + 1) % Timescale # 0

Closing(m) == (m \div Timescale + 1) * Timescale
SumOf(u, f, time) ==
  FoldLeft(LAMBDA s, p : IF p.user = u /\ p.feature = f /\ Closing(p.minute) = time THEN s + p.value ELSE s, 0, seen)
ActiveUsers(f, time) == {u \in Users : SumOf(u, f, time) # 0}
Expected(f, time) ==
  LET edges == Edges[f]
      In(u, i) == /\ SumOf(u, f, time) >= edges[i]
                  /\ i = Len(edges) - 1 \/ SumOf(u, f, time) < edges[i + 1]
  IN  [time |-> time, feature |-> f, unique_users |-> Cardinality(ActiveUsers(f, time)),
       histogram |-> [i \in 1..(Len(edges) - 1) |-> Cardinality({u \in ActiveUsers(f, time) : In(u, i)})],
       total |-> MapThenSumSet(LAMBDA u : SumOf(u, f, time), ActiveUsers(f, time))]

(* A histogram counts each user once, by what the packets of its interval  *)
(* add up to, however they were interleaved and aggregated on the way.     *)
(* Late packets belong to the minute in which they arrive.                 *)
HistogramsAreExact == Aligned => \A i \in DOMAIN out : out[i] = Expected(out[i].feature, out[i].time)

(* The histograms of a feature follow one another without a hole, however  *)
(* long no packet came (HistoCalc's "filling holes").                      *)
NoHoles ==
  \A f \in DOMAIN Edges :
    LET of == SelectSeq(out, LAMBDA h : h.feature = f)
    IN  \A i \in 1..(Len(of) - 1) : of[i + 1].time = of[i].time + Timescale

(* Every value is in a histogram, in a table or for a feature nobody asked *)
(* for, whatever the gaps between the packets.                             *)
Held(c, f) == MapThenSumSet(LAMBDA u : IF f \in DOMAIN c.table[u] THEN c.table[u][f] ELSE 0, DOMAIN c.table)
NothingLost ==
  \A f \in DOMAIN Edges :
    FoldLeft(LAMBDA s, p : IF p.feature = f THEN s + p.value ELSE s, 0, seen)
      = FoldLeft(LAMBDA s, h : IF h.feature = f THEN s + h.total ELSE s, 0, out)
        + (IF f \in DOMAIN histo.table THEN histo.table[f].total ELSE 0)
        + FoldLeft(LAMBDA s, c : s + Held(c, f), 0, counters)

-----------------------------------------------------------------------------
(***************************************************************************)
(* The search for logarithmic bins (usr/app_Stat_AD/blocks/                *)
(* binning_function.cpp).  A base b is a fraction b/Unit on a grid; the    *)
(* first base is the root of max_data, whose powers are computed exactly,  *)
(* and the midpoint of a step is any grid point between the two bounds.    *)
(***************************************************************************)
CONSTANTS MaxData, MaxClasses, Unit,
          max_iter      \* steps without a better base (10000 in the code)


VARIABLES max_data, NNC, flag0, pc, bins, b, inf, sup, best, cont, NC
BinningVars == <<max_data, NNC, flag0, pc, bins, b, inf, sup, best, cont, NC>>

Root == 0      \* the first base, which has no place on the grid

unique_floor(set) ==
  [i \in 1..Cardinality(set) |-> CHOOSE x \in set : Cardinality({y \in set : y < x}) = i - 1]

(* floor(max_data ^ (i / (NNC - 1))) *)
RootPower(max, n, i) == Max({k \in 1..max : k^(n - 1) <= max^i})
(* The exponent is infinite when NNC is 1, and only the power 0 is taken. *)
FirstBins(max, n) ==
  unique_floor({0} \cup IF n = 1 THEN {1} ELSE {RootPower(max, n, i) : i \in 0..(n - 1)})

(* The least exponent at which the powers of a base reach max_data. *)
Reaches(base, e) == base^e >= max_data * Unit^e
Exponent(base) == CHOOSE e \in 0..20 : Reaches(base, e) /\ (e = 0 \/ ~Reaches(base, e - 1))
(* Mutant of BinsOf: one power less. *)
BinsOfShort(base) ==
  IF base = Root THEN FirstBins(max_data, NNC)
  ELSE unique_floor({0} \cup {base^i \div Unit^i : i \in 0..(Exponent(base) - 1)})
BinsOf(base) ==
  IF base = Root THEN FirstBins(max_data, NNC)
  ELSE unique_floor({0} \cup {base^i \div Unit^i : i \in 0..Exponent(base)})

scarto == IF Len(bins) > NNC + 1 THEN Len(bins) - NNC - 1 ELSE NNC + 1 - Len(bins)

BinningInit ==
  /\ max_data \in 0..MaxData
  /\ \E n \in 1..MaxClasses : NNC = Min({n, max_data})
  /\ flag0 \in BOOLEAN
  /\ b = Root /\ inf = Unit /\ sup = Root /\ cont = 0
  /\ IF max_data = 0
     THEN pc = "done" /\ bins = (IF flag0 THEN <<>> ELSE <<0>>) /\ NC = (IF flag0 THEN 0 ELSE 1)
     ELSE pc = "search" /\ bins = FirstBins(max_data, NNC) /\ NC = NNC
  /\ best = [b |-> Root, scarto |-> scarto]

(* The bounds after the last base was tried, and the bases between them. *)
NewInf == IF Len(bins) > NNC + 1 THEN b ELSE inf
NewSup == IF Len(bins) > NNC + 1 THEN sup ELSE b
Between == {x \in (NewInf + 1)..(Unit * MaxData) :
              IF NewSup = Root THEN x^(NNC - 1) < max_data * Unit^(NNC - 1) ELSE x < NewSup}

Bisect ==
  /\ pc = "search" /\ scarto # 0 /\ cont <= max_iter
  /\ inf' = NewInf
  /\ sup' = NewSup
  /\ b' \in Between
  /\ bins' = BinsOf(b')
  /\ IF scarto < best.scarto THEN best' = [b |-> b, scarto |-> scarto] /\ cont' = 0
     ELSE best' = best /\ cont' = cont + 1
  /\ UNCHANGED <<max_data, NNC, flag0, pc, NC>>

(* The number of classes was met, or the search gave up: no base was       *)
(* better for max_iter rounds, or the grid holds none.                     *)
Finish ==
  /\ pc = "search"
  /\ scarto = 0 \/ cont > max_iter \/ Between = {}
  /\ LET found == IF scarto = 0 THEN bins ELSE BinsOf(best.b)
     IN  /\ bins' = IF flag0 THEN Tail(found) ELSE found
         /\ NC' = Len(found) - 1 - (IF flag0 THEN 1 ELSE 0)
  /\ pc' = "done"
  /\ UNCHANGED <<max_data, NNC, flag0, b, inf, sup, best, cont>>

BinningNext == Bisect \/ Finish
-----------------------------------------------------------------------------
(* What a search ends with: increasing edges that begin with the first     *)
(* class and reach the largest value, one more than there are classes.     *)
EdgesCover ==
  pc = "done" /\ max_data > 0 =>
    /\ \A i \in 1..(Len(bins) - 1) : bins[i] < bins[i + 1]
    /\ bins[1] = IF flag0 THEN 1 ELSE 0
    /\ NC = Len(bins) - 1
    /\ NNC > 1 => Last(bins) >= max_data

(* HistoCalc finds a bin for every count, larger than max_data included,   *)
(* and the bin contains it; only zero is filtered out.  A feature whose    *)
(* largest value is 0, or 1 with the zero class removed, has no bin.       *)
EveryCountHasABin ==
  pc = "done" /\ Len(bins) > 1 =>
    \A count \in 0..(max_data + 2) :
      LET bin == HC!get_bin_for_count(count, bins, flag0)
      IN  IF count = 0 /\ flag0 THEN bin = HC!Filtered
          ELSE /\ bin \in 1..NC
               /\ bins[bin] <= count
               /\ bin = NC \/ count < bins[bin + 1]
=============================================================================
