------------------------------ MODULE Anomaly -------------------------------
(***************************************************************************)
(* The detector of the anomaly detection application, two machines: ADTest *)
(* with its windows and guards, and the pruning of a reference set.        *)
(***************************************************************************)
EXTENDS Integers, Sequences, FiniteSets, SequencesExt, FiniteSetsExt

-----------------------------------------------------------------------------
(***************************************************************************)
(* The anomaly detection block of usr/app_Stat_AD/blocks/ADTest.cpp: one   *)
(* window of accepted histograms per traffic feature, filled in a learning *)
(* phase and then moved on.  A histogram is its time, its users, whether   *)
(* it has enough bins, and its shape (a PDF).  The pruning and the test    *)
(* are in the module ADPrune; here their outcome is any they can have.     *)
(***************************************************************************)
CONSTANTS Features,
          Histograms,    \* feature -> what arrives: [users, bins, shape]
          Count,         \* feature -> number of histograms
          Timescale,     \* minutes between two histograms
          WindowDays, GuardHours, DetectionStart, Stop, MinUsers,   \* the other parameters
          Day, Hour,     \* 1440 and 60: minutes in a day, in an hour
          MinRef,        \* 5: fewest elements of a reference set
          EnoughRef,     \* 200: step I stops widening beyond this
          MaxRef         \* 50: at most this many go to step III

VARIABLES m_windows_ht, m_curr_PDF,
          seen,          \* what each histogram was, for the properties
          results, anomalies, state
ADTestVars == <<m_windows_ht, m_curr_PDF, seen, results, anomalies, state>>

(* _configure: the window in histograms, the guard period rounded down to  *)
(* whole histograms, the start of the learning.                            *)
_configure == [window |-> (WindowDays * Day) \div Timescale,
               guard  |-> ((GuardHours * Hour) \div Timescale) * Timescale,
               start  |-> DetectionStart - WindowDays * Day]

ADTestInit ==
  /\ seen = <<>> /\ results = <<>> /\ anomalies = <<>> /\ state = "running"
  /\ m_windows_ht = [f \in {} |-> <<>>] /\ m_curr_PDF = <<>>

(* create_CCDF appends to the member vectors, which are empty before. *)
create_CCDF(h) == Append(m_curr_PDF, h.shape)

(* insert_window_entry *)
WindowOf(f) == IF f \in DOMAIN m_windows_ht THEN m_windows_ht[f] ELSE <<>>

Element(h, pdf) == [time |-> h.time, users |-> h.users, pdf |-> pdf, id |-> Len(seen) + 1]

update_window_entry(w, el, l_phase) == Append(IF l_phase THEN w ELSE Tail(w), el)

(* Mutant of StepWith: the guard period is not left out. *)
StepWithGuard(w, h, sf) ==
  SelectSeq(w, LAMBDA e : LET dif == IF e.users > h.users THEN e.users - h.users ELSE h.users - e.users
                          IN  50 * dif < sf * h.users)

(* The elements outside the guard period whose users differ by less than sf/50. *)
StepWith(w, h, sf) ==
  SelectSeq(w, LAMBDA e : LET dif == IF e.users > h.users THEN e.users - h.users ELSE h.users - e.users
                          IN  e.time <= h.time - _configure.guard /\ 50 * dif < sf * h.users)

(* Widen until there are enough elements, 25 times at most. *)
RSIA_stepI(w, h) ==
  LET enough == {sf \in 1..25 : Len(StepWith(w, h, sf)) > EnoughRef}
  IN  StepWith(w, h, Min(enough \cup {25}))

(* The MaxRef nearest elements, in the order of the window.  An equal      *)
(* shape is nearest; the distances of the others are not modelled.         *)
RSIA_stepII(r, h) ==
  LET n == IF Len(r) < MaxRef THEN Len(r) ELSE MaxRef
      alike == {i \in 1..Len(r) : r[i].pdf = <<h.shape>>}
  IN  {SetToSortSeq(K, <) : K \in {S \in SUBSET (1..Len(r)) :
         Cardinality(S) = n /\ (S \subseteq alike \/ alike \subseteq S)}}

Code == [anomalous |-> 1, normal |-> 0, few_refs |-> 2, few_users_det |-> 3, few_bins_det |-> 4,
         few_users_learn |-> 39, few_bins_learn |-> 49, learning_ok |-> 99]

(* The codes of a detection, or stuck: RSIA_stepIII does not end when all  *)
(* elements have the same PDF.                                             *)
Detect(w, h) ==
  LET r1 == RSIA_stepI(w, h)
  IN  IF h.users <= MinUsers THEN {Code.few_users_det}
      ELSE IF ~h.bins THEN {Code.few_bins_det}
      ELSE IF Len(r1) < MinRef THEN {Code.few_refs}
      ELSE UNION {IF Cardinality({r1[k[i]].pdf : i \in 1..Len(k)}) = 1 THEN {-1}
                  ELSE {Code.normal, Code.anomalous} : k \in RSIA_stepII(r1, h)}

Learn(h) ==
  IF h.users <= MinUsers THEN Code.few_users_learn
  ELSE IF ~h.bins THEN Code.few_bins_learn ELSE Code.learning_ok

Result(h, code) == Append(results, [id |-> Len(seen) + 1, code |-> code])

send_anomal_message == Append(anomalies, Len(seen) + 1)

(* Mutant of Sent: the process ends one interval too early. *)
SentEarly(h) == IF h.time + Timescale >= Stop THEN "exited" ELSE "running"

(* send_result_message ends the process at the stop time. *)
Sent(h) == IF h.time >= Stop THEN "exited" ELSE "running"

(* Mutant of Cleared: only a detection clears the vectors. *)
ClearedLate(learning, pdf) == IF learning THEN pdf ELSE <<>>

(* The end of _receive_msg. *)
Cleared(learning, pdf) == <<>>

learn(h) ==
  LET w == WindowOf(h.feature)
      code == Learn(h)
      pdf == create_CCDF(h)
  IN  /\ Len(w) < _configure.window
      /\ m_windows_ht' = [f \in DOMAIN m_windows_ht \cup {h.feature} |->
            IF f # h.feature THEN m_windows_ht[f]
            ELSE IF code = Code.learning_ok THEN update_window_entry(w, Element(h, pdf), TRUE) ELSE w]
      /\ results' = Result(h, code)
      /\ state' = Sent(h) /\ m_curr_PDF' = Cleared(TRUE, pdf)
      /\ UNCHANGED anomalies

detect(h) ==
  LET w == WindowOf(h.feature)
      pdf == create_CCDF(h)
  IN  /\ Len(w) >= _configure.window
      /\ \E code \in Detect(w, h) :
           IF code = -1
           THEN state' = "stuck" /\ UNCHANGED <<m_windows_ht, results, anomalies, m_curr_PDF>>
           ELSE /\ m_windows_ht' = IF code # Code.normal THEN m_windows_ht
                     ELSE [m_windows_ht EXCEPT ![h.feature] =
                             update_window_entry(w, Element(h, pdf), FALSE)]
                /\ results' = Result(h, code)
                /\ state' = Sent(h) /\ m_curr_PDF' = Cleared(FALSE, pdf)
                /\ anomalies' = IF Sent(h) = "running" /\ code \in {Code.few_refs, Code.anomalous}
                                THEN send_anomal_message ELSE anomalies

(* Each feature has a histogram per time interval, from HistoCalc. *)
Received(f) == Cardinality({i \in 1..Len(seen) : seen[i].feature = f})

receive_msg(f, x) ==
  LET h == [feature |-> f, time |-> (Received(f) + 1) * Timescale, users |-> x.users, bins |-> x.bins, shape |-> x.shape]
  IN  /\ state = "running" /\ Received(f) < Count[f]
      /\ IF h.time < _configure.start
         THEN UNCHANGED <<m_windows_ht, m_curr_PDF, results, anomalies, state>>
         ELSE learn(h) \/ detect(h)
      /\ seen' = Append(seen, h)

ADTestNext == \E f \in Features : \E x \in Histograms[f] : receive_msg(f, x)
-----------------------------------------------------------------------------
(* A window holds the most recent accepted histograms of its own feature,  *)
(* with their own PDF, in order and never more than its size: nothing      *)
(* anomalous or insignificant becomes part of the reference.               *)
WindowIsAccepted ==
  \A f \in DOMAIN m_windows_ht :
    LET w == m_windows_ht[f]
        accepted == SelectSeq([i \in 1..Len(seen) |-> i],
                      LAMBDA i : seen[i].feature = f /\ \E k \in 1..Len(results) :
                        results[k].id = i /\ results[k].code \in {Code.normal, Code.learning_ok})
    IN  /\ Len(w) <= _configure.window
        /\ [i \in 1..Len(w) |-> w[i].id] = SubSeq(accepted, Len(accepted) - Len(w) + 1, Len(accepted))
        /\ \A i \in 1..Len(w) : w[i].pdf = <<seen[w[i].id].shape>>

(* A histogram is judged only against others that are older than the guard *)
(* period: while the window holds fewer than MinRef of them, it is neither *)
(* normal nor anomalous.                                                   *)
GuardKept ==
  \A i \in 1..Len(results) :
    LET h == seen[results[i].id]
        older == {j \in 1..Len(seen) : /\ seen[j].feature = h.feature
                                       /\ seen[j].time \in _configure.start..h.time - _configure.guard}
    IN  results[i].code \in {Code.normal, Code.anomalous} => Cardinality(older) >= MinRef

(* Every anomaly found before the stop time has its anomaly message, and   *)
(* nothing else has one.                                                   *)
AnomaliesReported ==
  LET due == SelectSeq(results, LAMBDA r : /\ r.code \in {Code.anomalous, Code.few_refs}
                                           /\ seen[r.id].time < Stop)
  IN  anomalies = [i \in 1..Len(due) |-> due[i].id]

-----------------------------------------------------------------------------
(***************************************************************************)
(* The third step of the reference set identification of ADTest (pruning)  *)
(* and the anomaly test: usr/app_Stat_AD/blocks/ADTest.cpp.  Divergences   *)
(* are small integers.  The loop of RSIA_stepIII is one action per         *)
(* iteration; sums and percentiles are kept as integer multiples.          *)
(***************************************************************************)
CONSTANTS Sizes,      \* numbers of window elements in the reference set
          Levels,     \* size -> values of a divergence
          Currents    \* divergences of the current histogram

VARIABLES N, D, cur,            \* size, simm_D, dist_vec
          D_reg, A, B, branch,  \* branch: A_branch1, A_branch2, B_branch1, B_branch2
          pc, keep, verdict
ADPruneVars == <<N, D, cur, D_reg, A, B, branch, pc, keep, verdict>>

Idx == 1..N
Pairs == {p \in Idx \X Idx : p[1] < p[2]}

(* L_Divergence is symmetric, and 0 between equal histograms only. *)
ADPruneInit ==
  /\ N \in Sizes
  /\ \E d \in [Pairs -> Levels[N]] :
       /\ D = [p \in Idx \X Idx |->
                IF p[1] = p[2] THEN 0 ELSE IF p[1] < p[2] THEN d[p] ELSE d[<<p[2], p[1]>>]]
       /\ \A i, j \in Idx : D[<<i, j>>] = 0 => \A k \in Idx : D[<<i, k>>] = D[<<j, k>>]
       /\ D_reg = [p \in Idx \X Idx |-> IF p \in Pairs THEN d[p] ELSE 0]
  /\ cur \in Currents
  /\ A = <<>> /\ B = <<>> /\ branch = << <<>>, <<>>, <<>>, <<>> >>
  /\ pc = "split" /\ keep = <<>> /\ verdict = -1
-----------------------------------------------------------------------------
Before(p, q) == p[1] < q[1] \/ (p[1] = q[1] /\ p[2] < q[2])

(* The first largest entry, row by row. *)
double_matrix_max(M) ==
  CHOOSE p \in Idx \X Idx :
    \A q \in Idx \X Idx : M[p] > M[q] \/ (M[p] = M[q] /\ (p = q \/ Before(p, q)))

find_in_uint_vector(s, x) == \E i \in 1..Len(s) : s[i] = x

(* The loops that copy a vector over the front of an older one. *)
CopyOver(old, new) == new \o SubSeq(old, Len(new) + 1, Len(old))

(* The branches have the same shape: their means compare as their sums. *)
double_matrix_mean(a, b) ==
  FoldLeft(LAMBDA t, i : t + FoldLeft(LAMBDA u, j : u + D[<<i, j>>], 0, b), 0, a)

(* Neither element is placed: try both sides and take the dearer one. *)
Branch(i, j) ==
  LET a1 == Append(CopyOver(branch[1], A), i)
      a2 == Append(CopyOver(branch[2], A), j)
      b1 == Append(CopyOver(branch[3], B), j)
      b2 == Append(CopyOver(branch[4], B), i)
      first == double_matrix_mean(a1, b1) > double_matrix_mean(a2, b2)
  IN  /\ branch' = <<a1, a2, b1, b2>>
      /\ A' = CopyOver(A, IF first THEN a1 ELSE a2)
      /\ B' = CopyOver(B, IF first THEN b1 ELSE b2)

In(x) == find_in_uint_vector(A, x) \/ find_in_uint_vector(B, x)
PlaceIn(s, x) == IF In(x) THEN s ELSE Append(s, x)

(* Mutant of Place: an element placed in B is not looked for. *)
PlaceAgain(i, j) ==
  CASE find_in_uint_vector(A, i) -> B' = Append(B, j) /\ UNCHANGED <<A, branch>>
    [] OTHER -> Branch(i, j)

Place(i, j) ==
  CASE find_in_uint_vector(A, i) -> B' = PlaceIn(B, j) /\ UNCHANGED <<A, branch>>
    [] ~find_in_uint_vector(A, i) /\ find_in_uint_vector(A, j) ->
         B' = PlaceIn(B, i) /\ UNCHANGED <<A, branch>>
    [] ~find_in_uint_vector(A, i) /\ ~find_in_uint_vector(A, j) /\ find_in_uint_vector(B, i) ->
         A' = PlaceIn(A, j) /\ UNCHANGED <<B, branch>>
    [] ~In(i) /\ ~find_in_uint_vector(A, j) /\ find_in_uint_vector(B, j) ->
         A' = PlaceIn(A, i) /\ UNCHANGED <<B, branch>>
    [] ~In(i) /\ ~In(j) -> Branch(i, j)

RSIA_stepIII ==
  /\ pc = "split" /\ Len(A) + Len(B) < N
  /\ LET p == double_matrix_max(D_reg)
     IN  D_reg' = [D_reg EXCEPT ![p] = 0] /\ Place(p[1], p[2])
  /\ UNCHANGED <<N, D, cur, pc, keep, verdict>>

Sorted(s) == SetToSortSeq({s[i] : i \in 1..Len(s)}, <)

(* Mutant of Kept: the smaller half is kept. *)
KeptSmaller(a, b) == IF Len(a) < Len(b) THEN Sorted(a) ELSE Sorted(b)

(* The larger set when the gap is more than a tenth, otherwise both. *)
Kept(a, b) ==
  LET gap == IF Len(a) > Len(b) THEN Len(a) - Len(b) ELSE Len(b) - Len(a)
  IN  IF 10 * gap > Len(a) + Len(b)
      THEN IF Len(a) < Len(b) THEN Sorted(b) ELSE Sorted(a)
      ELSE [i \in 1..N |-> i]

prune ==
  /\ pc = "split" /\ Len(A) + Len(B) >= N
  /\ pc' = "test" /\ keep' = Kept(A, B)
  /\ UNCHANGED <<N, D, cur, D_reg, A, B, branch, verdict>>
-----------------------------------------------------------------------------
Le(x, y) == x <= y

(* 200 times the p-th percentile of v; 100 * (2i-1) / (2n) is the rank of  *)
(* the i-th value.  (The rank n is reached exactly for 50 values only,     *)
(* which is not a number of pairs.)                                        *)
percentile_of_array(v, p) ==
  LET s == SortSeq(v, Le)
      n == Len(v)
      rank(i) == 100 * (2 * i - 1)          \* times 2n
      k == Max({i \in 1..n : 2 * n * p >= rank(i)} \cup {1})
  IN  IF 2 * n * p < rank(1) THEN 200 * s[1]
      ELSE IF 2 * n * p > rank(n) THEN 200 * s[n]
      ELSE 200 * s[k] + (2 * n * p - rank(k)) * (s[k + 1] - s[k])

Total(s) == FoldLeft(LAMBDA t, x : t + x, 0, s)

(* The divergences above the diagonal, between the kept elements. *)
closest_dist_vec ==
  LET ps == SetToSortSeq({p \in Pairs : p[2] <= Len(keep)}, Before)
  IN  [i \in 1..Len(ps) |-> D[<<keep[ps[i][1]], keep[ps[i][2]]>>]]

(* Mutant of ENKL_test: the lower percentile is the bound. *)
ENKL_test_low ==
  /\ pc = "test" /\ pc' = "done"
  /\ LET upper == percentile_of_array(closest_dist_vec, 1)
         ext == Total([i \in 1..Len(keep) |-> cur[keep[i]]])
     IN  verdict' = IF 200 * ext < upper * Len(keep) THEN 0 ELSE 1
  /\ UNCHANGED <<N, D, cur, D_reg, A, B, branch, keep>>

ENKL_test ==
  /\ pc = "test" /\ pc' = "done"
  /\ LET upper == percentile_of_array(closest_dist_vec, 99)
         ext == Total([i \in 1..Len(keep) |-> cur[keep[i]]])
     IN  verdict' = IF 200 * ext < upper * Len(keep) THEN 0 ELSE 1
  /\ UNCHANGED <<N, D, cur, D_reg, A, B, branch, keep>>

ADPruneNext == RSIA_stepIII \/ prune \/ ENKL_test
-----------------------------------------------------------------------------
Elements(s) == {s[i] : i \in 1..Len(s)}
AllAlike == \A p \in Pairs : D[p] = 0

(* When some two histograms differ, the loop ends with every element on    *)
(* exactly one side; it always has a divergence left to look at before.    *)
(* (With equal histograms only it never ends.)                             *)
SplitsEverything ==
  ~AllAlike => /\ Elements(A) \cap Elements(B) = {}
               /\ Len(A) = Cardinality(Elements(A)) /\ Len(B) = Cardinality(Elements(B))
               /\ pc # "split" => Elements(A) \cup Elements(B) = Idx
               /\ pc = "split" /\ Len(A) + Len(B) < N => \E p \in Pairs : D_reg[p] > 0

(* Pruning keeps at least half of the reference set, in the order of time, *)
(* so that the test has divergences to work on.                            *)
TestHasData ==
  pc # "split" /\ ~AllAlike =>
    /\ 2 * Len(keep) >= N
    /\ \A i, j \in 1..Len(keep) : i < j => keep[i] < keep[j]

(* A histogram that is as close to every kept one as the closest two of    *)
(* them are, and closer than the farthest, is not declared anomalous.      *)
CloseIsNormal ==
  pc = "done" /\ ~AllAlike /\ Len(keep) > 1 =>
    LET inner == {D[<<keep[p[1]], keep[p[2]]>>] : p \in {q \in Pairs : q[2] <= Len(keep)}}
    IN  (\A i \in Elements(keep) : cur[i] <= Min(inner)) /\ Min(inner) < Max(inner) => verdict = 0
=============================================================================
