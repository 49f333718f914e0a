------------------------------ MODULE Sketches ------------------------------
(***************************************************************************)
(* Sketches and change detection, three machines: pairs of Bloom filters,  *)
(* counters that decay, and cumulative sums.                               *)
(***************************************************************************)
EXTENDS Integers, Sequences, FiniteSets, SequencesExt, FiniteSetsExt

-----------------------------------------------------------------------------
(***************************************************************************)
(* bloomfilter and BloomPair (lib/bloom): two filters take every element;  *)
(* when the learning one has too few zeros it becomes the detecting one    *)
(* and the other is cleared.  A filter is its set of ones and its counter  *)
(* of zeros.  The digests of an element are any nhash positions.  The      *)
(* threshold, a square root, is kept as its square, the fraction n / d.    *)
(***************************************************************************)
CONSTANTS Elements, M,       \* M = 2^shash bits
          DigestSets, NHash,  \* sets of NHash positions
          MaxAdds, MaxSwaps

VARIABLES digests, learning, detecting, bloom_n, d,
          old, recent,     \* elements added since the last swap but one, and since the last
          asserted,        \* no assertion of add failed
          adds, swaps
BloomVars == <<digests, learning, detecting, bloom_n, d, old, recent, asserted, adds, swaps>>

Empty == [ones |-> {}, num_zeros |-> M]

BloomInit ==
  /\ digests \in [Elements -> DigestSets]
  /\ learning = Empty /\ detecting = Empty
  /\ bloom_n = M * M /\ d = 2
  /\ old = {} /\ recent = {} /\ asserted = TRUE
  /\ adds = 0 /\ swaps = 0

(* Mutant of insert: every digest is counted, not only the new ones. *)
insert_counting_all(f, e) ==
  [ones |-> f.ones \cup digests[e], num_zeros |-> f.num_zeros - NHash]
insert(f, e) ==
  [ones |-> f.ones \cup digests[e], num_zeros |-> f.num_zeros - Cardinality(digests[e] \ f.ones)]
Inserted(f, e) == ~(digests[e] \subseteq f.ones)
check(f, e) == digests[e] \subseteq f.ones

(* Mutant of SwapAndClear: the filter that was detecting goes on learning. *)
SwapOnly(l, dt) == learning' = dt /\ detecting' = l
SwapAndClear(l, dt) == learning' = Empty /\ detecting' = l

add(e) ==
  LET l == insert(learning, e)
      dt == insert(detecting, e)
      swap == l.num_zeros * l.num_zeros * d < bloom_n
  IN  /\ adds < MaxAdds /\ adds' = adds + 1
      /\ swap => swaps < MaxSwaps
      /\ asserted' = (asserted /\ (Inserted(detecting, e) => Inserted(learning, e)))
      /\ \/ swap /\ SwapAndClear(l, dt) /\ swaps' = swaps + 1
            /\ bloom_n' = bloom_n * M /\ d' = d * 2 * dt.num_zeros
            /\ old' = recent \cup {e} /\ recent' = {}
         \/ ~swap /\ learning' = l /\ detecting' = dt
            /\ recent' = recent \cup {e} /\ UNCHANGED <<bloom_n, d, old, swaps>>
      /\ UNCHANGED digests

clear ==
  /\ adds > 0 /\ adds < MaxAdds /\ adds' = adds + 1
  /\ learning' = Empty /\ detecting' = Empty /\ bloom_n' = M * M /\ d' = 2
  /\ old' = {} /\ recent' = {}
  /\ UNCHANGED <<digests, asserted, swaps>>

BloomNext == (\E e \in Elements : add(e)) \/ clear
-----------------------------------------------------------------------------
(* The detecting filter holds exactly what was added since the last swap   *)
(* but one, the learning one what was added since the last: an element     *)
(* among those is found by check, and an old one leaves no bit behind.     *)
FiltersAreWindows ==
  /\ learning.ones = UNION {digests[e] : e \in recent}
  /\ detecting.ones = UNION {digests[e] : e \in old \cup recent}
  /\ \A e \in old \cup recent : check(detecting, e)

(* The counters of zeros, which decide the swap, are the zeros there are,  *)
(* and what was new to the detecting filter was new to the learning one    *)
(* (the assertion of BloomPair::add).                                      *)
ZerosAreCounted ==
  /\ \A f \in {learning, detecting} : f.num_zeros = M - Cardinality(f.ones)
  /\ asserted

-----------------------------------------------------------------------------
(***************************************************************************)
(* TEWMA (lib/bloom/tewma.cpp): counters that decay with time, several for *)
(* each element, raised together to the smallest of them plus the quantity.*)
(* beta is 1/2 and W is 1; a value is an integer multiple of 2^-MaxTime,   *)
(* so that halving is exact; quantities are already multiplied by logbeta. *)
(***************************************************************************)
CONSTANTS TewmaElements, Counters, TewmaNHash, Quantities, MaxTime

VARIABLES tewma_digests, c, t, now,
          total,   \* the decayed sum of what was added for an element, now
          got      \* what the last add or check returned, and for whom
TewmaVars == <<tewma_digests, c, t, now, total, got>>

One == 2^MaxTime

TewmaInit ==
  /\ tewma_digests \in [TewmaElements -> kSubset(TewmaNHash, Counters)]
  /\ c = [i \in Counters |-> 0] /\ t = [i \in Counters |-> 0] /\ now = 0
  /\ total = [e \in TewmaElements |-> 0] /\ got = <<>>

Decayed(i) == c[i] \div 2^(now - t[i])
(* The counters of the element brought to the present. *)
Refreshed(e) == [i \in Counters |-> IF i \in tewma_digests[e] THEN Decayed(i) ELSE c[i]]
Smallest(e) == Min({Decayed(i) : i \in tewma_digests[e]})
(* Mutant of Stamp: only counters that are raised get the new time. *)
StampRaised(e) == [i \in Counters |-> IF i \in tewma_digests[e] /\ Decayed(i) = Smallest(e) THEN now ELSE t[i]]
Stamp(e) == [i \in Counters |-> IF i \in tewma_digests[e] THEN now ELSE t[i]]

(* Mutant of Fill: only the smallest counters are raised by the quantity.  *)
FillSmallest(e, q) ==
  [i \in Counters |-> IF i \in tewma_digests[e] /\ Decayed(i) = Smallest(e) THEN Decayed(i) + q ELSE Refreshed(e)[i] \div 2]
Fill(e, q) ==
  [i \in Counters |-> IF i \in tewma_digests[e] THEN Max({Decayed(i), Smallest(e) + q}) ELSE c[i]]

tewma_add(e, q) ==
  /\ c' = Fill(e, q * One) /\ t' = Stamp(e)
  /\ total' = [total EXCEPT ![e] = @ + q * One]
  /\ got' = <<e, Smallest(e) + q * One>>
  /\ UNCHANGED <<tewma_digests, now>>

tewma_check(e) ==
  /\ c' = Refreshed(e) /\ t' = Stamp(e) /\ got' = <<e, Smallest(e)>>
  /\ UNCHANGED <<tewma_digests, now, total>>

tewma_clear ==
  /\ now > 0
  /\ c' = [i \in Counters |-> 0] /\ t' = [i \in Counters |-> now]
  /\ total' = [e \in TewmaElements |-> 0] /\ got' = <<>>
  /\ UNCHANGED <<tewma_digests, now>>

(* A caller's clock; a time before one it gave is an assertion failure. *)
Tick ==
  /\ now < MaxTime /\ now' = now + 1
  /\ total' = [e \in TewmaElements |-> total[e] \div 2]
  /\ got' = <<>> /\ UNCHANGED <<tewma_digests, c, t>>

Bounded == \A e \in TewmaElements : total[e] < 2 * One
TewmaNext == \/ \E e \in TewmaElements, q \in Quantities : Bounded /\ tewma_add(e, q)
             \/ \E e \in TewmaElements : tewma_check(e)
             \/ tewma_clear \/ Tick
-----------------------------------------------------------------------------
(* An estimate is never below the decayed sum of what was added for the    *)
(* element, whatever was added for others, in between and with which       *)
(* delays.                                                                 *)
NeverUnderestimates ==
  /\ \A e \in TewmaElements : Smallest(e) >= total[e]
  /\ got # <<>> => got[2] >= total[got[1]]

(* And it is exactly that sum for an element with a counter of its own,    *)
(* although its other counters are shared.                                 *)
Own(e) == \E i \in tewma_digests[e] : \A x \in TewmaElements \ {e} : i \notin tewma_digests[x]
ExactWithOwnCounter == \A e \in TewmaElements : Own(e) => Smallest(e) = total[e]

-----------------------------------------------------------------------------
(***************************************************************************)
(* Cusum, CusumNP and MultiCusum (lib/cusum): the cumulative sum of the    *)
(* distance of a value from the mean of the last mean_window ones, minus   *)
(* an offset, and an array of such detectors.  Values and sums are         *)
(* multiples of 1 / Scale, Scale a multiple of every number of values a    *)
(* mean is taken over, so that means are exact.                            *)
(***************************************************************************)
CONSTANTS Windows, Scale, Offset, Threshold, Count, Values, MaxChecks

VARIABLES m_mean_window, m_last_values, m_last_value_index, m_last_values_count, m_current_sum,
          seen,       \* the values a detector was given since the last reset
          offered,    \* the values given to the array since the last reset
          alarms, checks
CusumVars == <<m_mean_window, m_last_values, m_last_value_index, m_last_values_count, m_current_sum, seen, offered, alarms, checks>>

Detectors == 0..(Count - 1)
Sum(s) == FoldLeft(LAMBDA a, b : a + b, 0, s)

CusumInit ==
  /\ m_mean_window \in Windows
  /\ m_last_values = [j \in Detectors |-> [i \in 0..(m_mean_window - 1) |-> 0]]
  /\ m_last_value_index = [j \in Detectors |-> 0]
  /\ m_last_values_count = [j \in Detectors |-> 0]
  /\ m_current_sum = [j \in Detectors |-> 0]
  /\ seen = [j \in Detectors |-> <<>>]
  /\ offered = 0 /\ alarms = 0 /\ checks = 0

Mean(j, v) ==
  IF m_last_values_count[j] > 0
  THEN (Scale * Sum([i \in 1..m_last_values_count[j] |-> m_last_values[j][i - 1]])) \div m_last_values_count[j]
  ELSE Scale * v
Score(j, v) == Scale * v - Mean(j, v) - Offset
(* Mutant of NextIndex: the ring has one value less. *)
NextIndexShort(j) == IF m_mean_window > 1 THEN (m_last_value_index[j] + 1) % (m_mean_window - 1) ELSE 0
NextIndex(j) == (m_last_value_index[j] + 1) % m_mean_window
CusumAfter(j, v) == Max({m_current_sum[j] + Score(j, v), 0})
Alarm(j, v) == CusumAfter(j, v) >= Threshold

(* Mutant of Reached: every detector sees every value but the alarmed one. *)
ReachedOthers(value) == {j \in Detectors : ~Alarm(j, value[j])}
(* The detectors up to the first that raises an alarm. *)
Reached(value) == {j \in Detectors : \A i \in 0..(j - 1) : ~Alarm(i, value[i])}

cusum_check(value) ==
  LET R == Reached(value)
  IN  /\ checks < MaxChecks /\ checks' = checks + 1
      /\ m_current_sum' = [j \in Detectors |-> IF j \in R THEN CusumAfter(j, value[j]) ELSE m_current_sum[j]]
      /\ m_last_values' = [j \in Detectors |-> IF j \in R THEN [m_last_values[j] EXCEPT ![m_last_value_index[j]] = value[j]]
                                               ELSE m_last_values[j]]
      /\ m_last_value_index' = [j \in Detectors |-> IF j \in R THEN NextIndex(j) ELSE m_last_value_index[j]]
      /\ m_last_values_count' = [j \in Detectors |-> IF j \in R THEN Min({m_last_values_count[j] + 1, m_mean_window})
                                                     ELSE m_last_values_count[j]]
      /\ seen' = [j \in Detectors |-> IF j \in R THEN Append(seen[j], value[j]) ELSE seen[j]]
      /\ offered' = offered + 1
      /\ alarms' = alarms + (IF \E j \in R : Alarm(j, value[j]) THEN 1 ELSE 0)
      /\ UNCHANGED m_mean_window

reset ==
  /\ checks > 0 /\ checks < MaxChecks /\ offered > 0
  /\ m_current_sum' = [j \in Detectors |-> 0]
  /\ m_last_value_index' = [j \in Detectors |-> 0]
  /\ m_last_values_count' = [j \in Detectors |-> 0]
  /\ seen' = [j \in Detectors |-> <<>>]
  /\ offered' = 0 /\ alarms' = 0
  /\ UNCHANGED <<m_mean_window, m_last_values, checks>>

CusumNext == (\E value \in [Detectors -> Values] : cusum_check(value)) \/ reset
-----------------------------------------------------------------------------
(* The score of the value number n of a sequence: its distance from the    *)
(* mean of up to mean_window values before it.                             *)
ScoreOf(s, n) ==
  LET b == Max({1, n - m_mean_window})
  IN  IF n = 1 THEN 0 - Offset
      ELSE Scale * s[n] - Offset - (Scale * Sum(SubSeq(s, b, n - 1))) \div (n - b)
(* The sum of a detector is the largest sum of the scores of the last      *)
(* values it saw, and zero when they are all negative: a change is         *)
(* measured from where it began, and what a ring overwrote or a reset      *)
(* forgot has no part in it.                                               *)
SumSinceChange ==
  \A j \in Detectors :
     m_current_sum[j] = Max({0} \cup {Sum([i \in 1..(Len(seen[j]) - from + 1) |-> ScoreOf(seen[j], from + i - 1)])
                                        : from \in 1..Len(seen[j])})

(* The detectors stay in step until an alarm: each alarm costs the         *)
(* detectors behind it at most one value, the first none.                  *)
InStepUntilAlarm ==
  /\ Len(seen[0]) = offered
  /\ \A j \in Detectors : offered - Len(seen[j]) \in 0..alarms
=============================================================================
