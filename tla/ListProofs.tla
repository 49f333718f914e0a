------------------------------ MODULE ListProofs ------------------------------
(***************************************************************************)
(* What Drop leaves of a list, for every list and every set, and how often *)
(* a member occurs in a list.                                              *)
(***************************************************************************)
EXTENDS Lists, FiniteSetTheorems, WellFoundedInduction, TLAPS

-----------------------------------------------------------------------------
(* Induction *)

(* A non-empty set of natural numbers has a least member. *)
LEMMA Least ==
  ASSUME NEW S, S \subseteq Nat, S # {}
  PROVE  \E q \in S : \A r \in S : q <= r
<1> DEFINE R == OpToRel(<, Nat)
<1>1. IsWellFoundedOn(R, Nat)
  BY NatLessThanWellFounded, Zenon
<1>2. \A x, y \in Nat : x < y => <<x, y>> \in R
  BY DEF OpToRel
<1> HIDE DEF R
<1>3. PICK x \in S : \A y \in S : ~(<<y, x>> \in R)
  BY <1>1, WFMin, Zenon
<1>4. ASSUME NEW y \in S PROVE x <= y
  <2>1. x \in Nat /\ y \in Nat
    OBVIOUS
  <2>2. ~(y < x)
    BY <1>2, <1>3, <2>1, Zenon
  <2> QED BY <2>1, <2>2
<1> QED BY <1>4

(* Induction up to the length of a list.  G is the set of the numbers for  *)
(* which the induction hypothesis holds.                                   *)
LEMMA UpTo ==
  ASSUME NEW N \in Nat, NEW G, 0 \in G, \A n \in 1 .. N : n - 1 \in G => n \in G
  PROVE  \A n \in 0 .. N : n \in G
<1> DEFINE Bad == {n \in 0 .. N : n \notin G}
<1> SUFFICES ASSUME Bad # {} PROVE FALSE
  OBVIOUS
<1>1. Bad \subseteq Nat
  OBVIOUS
<1>2. PICK q \in Bad : \A r \in Bad : q <= r
  <2> HIDE DEF Bad
  <2> QED BY <1>1, Least, Zenon
<1>3. q \in 1 .. N /\ q \notin G
  OBVIOUS
<1>4. q - 1 \in 0 .. N /\ q - 1 \notin G /\ ~(q <= q - 1)
  BY <1>3
<1>5. q - 1 \in Bad
  BY <1>4
<1> HIDE DEF Bad
<1> QED BY <1>2, <1>4, <1>5

-----------------------------------------------------------------------------
(* Drop *)

(* What Drop has collected after each place of the list. *)
Collects(f, S, s, D) ==
  /\ f \in [0 .. Len(s) -> Seq(S)]
  /\ f[0] = <<>>
  /\ \A n \in 1 .. Len(s) :
       f[n] = IF s[n] \in D THEN f[n - 1] ELSE Append(f[n - 1], s[n])

(* The function by which Drop runs through the list exists. *)
LEMMA DropFcn ==
  ASSUME NEW S, NEW s \in Seq(S), NEW D
  PROVE  \E f : Collects(f, S, s, D) /\ Drop(s, D) = f[Len(s)]
<1> DEFINE N == Len(s)
           Step(g, k) == IF k = 0 THEN <<>> ELSE IF s[k] \in D THEN g[k - 1]
                         ELSE Append(g[k - 1], s[k])
           Good(n) == \E g \in [0 .. n -> Seq(S)] : \A k \in 0 .. n : g[k] = Step(g, k)
           G == {n \in 0 .. N : Good(n)}
<1>0. N \in Nat /\ \A k \in 1 .. N : s[k] \in S
  OBVIOUS
<1> HIDE DEF N
<1>1. 0 \in G
  <2> DEFINE h == [k \in 0 .. 0 |-> <<>>]
  <2>1. h \in [0 .. 0 -> Seq(S)] /\ \A k \in 0 .. 0 : h[k] = Step(h, k)
    OBVIOUS
  <2>2. Good(0)
    BY <2>1, Zenon
  <2> HIDE DEF Good
  <2> QED BY <1>0, <2>2
<1>2. ASSUME NEW q \in 1 .. N, q - 1 \in G PROVE q \in G
  <2>0. q \in Nat /\ q # 0 /\ q <= N
    BY <1>0
  <2>1. Good(q - 1)
    BY <1>2, Zenon
  <2>2. PICK g \in [0 .. q - 1 -> Seq(S)] : \A k \in 0 .. q - 1 : g[k] = Step(g, k)
    BY <2>1, Zenon
  <2> DEFINE h == [k \in 0 .. q |-> IF k = q THEN Step(g, q) ELSE g[k]]
  <2>3. Step(g, q) \in Seq(S)
    BY <1>0, <2>0, <2>2
  <2>4. h \in [0 .. q -> Seq(S)]
    BY <2>0, <2>2, <2>3
  <2>5. ASSUME NEW k \in 0 .. q PROVE h[k] = Step(h, k)
    <3>1. CASE k = q
      BY <2>0, <3>1
    <3>2. CASE k # q
      <4>1. k \in 0 .. q - 1 /\ k \in 0 .. q /\ h[k] = g[k]
        BY <2>0, <3>2
      <4>2. k # 0 => k - 1 \in 0 .. q /\ k - 1 # q /\ h[k - 1] = g[k - 1]
        BY <2>0, <4>1
      <4>3. Step(h, k) = Step(g, k)
        BY <4>2
      <4> QED BY <2>2, <4>1, <4>3, Zenon
    <3> QED BY <3>1, <3>2
  <2>6. Good(q)
    BY <2>4, <2>5, Zenon
  <2> HIDE DEF Good
  <2> QED BY <2>0, <2>6
<1>3. Good(N)
  <2> HIDE DEF G
  <2>1. \A n \in 0 .. N : n \in G
    BY <1>0, <1>1, <1>2, UpTo, Zenon
  <2>2. N \in 0 .. N
    BY <1>0
  <2> QED BY <2>1, <2>2, Zenon DEF G
<1>4. PICK g \in [0 .. N -> Seq(S)] : \A k \in 0 .. N : g[k] = Step(g, k)
  BY <1>3, Zenon
<1>5. g = [n \in 0 .. N |-> Step(g, n)]
  BY <1>4
<1>6. PICK f : f = [n \in 0 .. N |-> Step(f, n)] /\ Drop(s, D) = f[N]
  <2> DEFINE c == CHOOSE e : e = [n \in 0 .. N |-> Step(e, n)]
  <2>1. c = [n \in 0 .. N |-> Step(c, n)]
    BY <1>5, Zenon
  <2>2. Drop(s, D) = c[N]
    BY Zenon DEF Drop, N
  <2> QED BY <2>1, <2>2, Zenon
<1>8. ASSUME NEW e, e = [n \in 0 .. N |-> Step(e, n)]
      PROVE  /\ e[0] = <<>>
             /\ \A n \in 1 .. N : e[n] = IF s[n] \in D THEN e[n - 1] ELSE Append(e[n - 1], s[n])
  <2> DEFINE F == [n \in 0 .. N |-> Step(e, n)]
  <2>1. F[0] = <<>>
    BY <1>0
  <2>2. ASSUME NEW n \in 1 .. N
        PROVE  F[n] = IF s[n] \in D THEN e[n - 1] ELSE Append(e[n - 1], s[n])
    BY <1>0
  <2>3. e = F
    BY <1>8, Zenon
  <2> HIDE DEF F
  <2> QED BY <2>1, <2>2, <2>3
<1> HIDE DEF Step
<1>9. /\ f[0] = <<>>
      /\ \A n \in 1 .. N : f[n] = IF s[n] \in D THEN f[n - 1] ELSE Append(f[n - 1], s[n])
  BY <1>6, <1>8, Zenon
<1>10. \A n \in 0 .. N : f[n] \in Seq(S)
  <2> DEFINE H == {n \in 0 .. N : f[n] \in Seq(S)}
  <2>1. 0 \in H
    <3>1. <<>> \in Seq(S) /\ 0 \in 0 .. N
      BY <1>0
    <3> QED BY <1>9, <3>1, Zenon
  <2>2. ASSUME NEW n \in 1 .. N, n - 1 \in H PROVE n \in H
    <3>1. n \in 0 .. N /\ s[n] \in S /\ f[n - 1] \in Seq(S)
      BY <1>0, <2>2
    <3>2. Append(f[n - 1], s[n]) \in Seq(S)
      BY <3>1
    <3>3. f[n] = f[n - 1] \/ f[n] = Append(f[n - 1], s[n])
      BY <1>9, Zenon
    <3> QED BY <3>1, <3>2, <3>3, Zenon
  <2>3. \A n \in 0 .. N : n \in H
    <3> HIDE DEF H
    <3> QED BY <1>0, <2>1, <2>2, UpTo, Zenon
  <2> QED BY <2>3
<1>11. f \in [0 .. N -> Seq(S)]
  BY <1>6, <1>10
<1> QED BY <1>6, <1>9, <1>11, Zenon DEF N, Collects

(* The places of s that Drop keeps, in order. *)
Keeps(h, w, s, D, n) ==
  /\ h \in [1 .. Len(w) -> 1 .. n]
  /\ \A i \in 1 .. Len(w) : w[i] = s[h[i]] /\ s[h[i]] \notin D
  /\ \A i, j \in 1 .. Len(w) : i < j => h[i] < h[j]
  /\ \A k \in 1 .. n : s[k] \notin D => \E i \in 1 .. Len(w) : h[i] = k

(* Drop keeps the places whose member is not in D, in their order. *)
LEMMA DropPlaces ==
  ASSUME NEW S, NEW s \in Seq(S), NEW D
  PROVE  /\ Drop(s, D) \in Seq(S)
         /\ \E h : Keeps(h, Drop(s, D), s, D, Len(s))
<1>0. PICK f : Collects(f, S, s, D) /\ Drop(s, D) = f[Len(s)]
  BY DropFcn, Zenon
<1>1. /\ f \in [0 .. Len(s) -> Seq(S)]
      /\ f[0] = <<>>
      /\ \A n \in 1 .. Len(s) :
           f[n] = IF s[n] \in D THEN f[n - 1] ELSE Append(f[n - 1], s[n])
      /\ Drop(s, D) = f[Len(s)]
  BY <1>0 DEF Collects
<1> DEFINE N == Len(s)
           G == {n \in 0 .. N : \E h : Keeps(h, f[n], s, D, n)}
<1>2. N \in Nat /\ \A k \in 1 .. N : s[k] \in S
  OBVIOUS
<1>3. 0 \in G
  <2> DEFINE h == [i \in 1 .. 0 |-> 0]
  <2>1. Len(f[0]) = 0
    BY <1>1
  <2>2. Keeps(h, f[0], s, D, 0)
    BY <2>1 DEF Keeps
  <2> QED BY <1>2, <2>2
<1>4. ASSUME NEW n \in 1 .. N, n - 1 \in G PROVE n \in G
  <2>1. PICK h : Keeps(h, f[n - 1], s, D, n - 1)
    BY <1>4, Zenon
  <2>0. n - 1 \in 0 .. Len(s)
    BY <1>2
  <2>2. PICK g \in Seq(S) : g = f[n - 1]
    BY <1>1, <2>0, Zenon
  <2>3. PICK L \in Nat : L = Len(g)
    BY <2>2
  <2>4. /\ h \in [1 .. L -> 1 .. n - 1]
        /\ \A i \in 1 .. L : g[i] = s[h[i]] /\ s[h[i]] \notin D
        /\ \A i, j \in 1 .. L : i < j => h[i] < h[j]
        /\ \A k \in 1 .. n - 1 : s[k] \notin D => \E i \in 1 .. L : h[i] = k
    BY <2>1, <2>2, <2>3 DEF Keeps
  <2>5. n \in Nat /\ n \in 0 .. N /\ s[n] \in S
    BY <1>2
  <2>6. CASE s[n] \in D
    <3>1. f[n] = g
      BY <1>1, <2>2, <2>6
    <3>2. h \in [1 .. L -> 1 .. n]
      BY <2>4, <2>5
    <3>3. ASSUME NEW k \in 1 .. n, s[k] \notin D PROVE \E i \in 1 .. L : h[i] = k
      BY <2>4, <2>5, <2>6, <3>3
    <3>4. Keeps(h, g, s, D, n)
      BY <2>3, <2>4, <3>2, <3>3 DEF Keeps
    <3> QED BY <2>5, <3>1, <3>4, Zenon
  <2>7. CASE s[n] \notin D
    <3> DEFINE e == [i \in 1 .. L + 1 |-> IF i = L + 1 THEN n ELSE h[i]]
    <3>1. PICK w \in Seq(S) : w = f[n]
      BY <1>1, <1>2, <2>5
    <3>2. w = Append(g, s[n])
      BY <1>1, <2>2, <2>7, <3>1, Zenon
    <3>3. /\ Len(w) = L + 1 /\ w[L + 1] = s[n]
          /\ \A i \in 1 .. L : w[i] = g[i]
      BY <2>2, <2>3, <2>5, <3>2
    <3>4. e \in [1 .. L + 1 -> 1 .. n]
      BY <2>4, <2>5
    <3>5. e[L + 1] = n /\ \A i \in 1 .. L : e[i] = h[i]
      OBVIOUS
    <3> HIDE DEF e
    <3>6. \A i \in 1 .. L + 1 : i = L + 1 \/ i \in 1 .. L
      OBVIOUS
    <3>7. ASSUME NEW i \in 1 .. L + 1 PROVE w[i] = s[e[i]] /\ s[e[i]] \notin D
      BY <2>4, <2>7, <3>3, <3>5, <3>6
    <3>8. ASSUME NEW i \in 1 .. L + 1, NEW j \in 1 .. L + 1, i < j PROVE e[i] < e[j]
      <4>0. i \in 1 .. L
        BY <3>8
      <4>1. e[i] = h[i] /\ h[i] \in 1 .. n - 1
        BY <2>4, <3>5, <4>0
      <4>2. CASE j = L + 1
        BY <2>5, <3>5, <4>1, <4>2
      <4>3. CASE j \in 1 .. L
        BY <2>4, <3>5, <3>8, <4>0, <4>1, <4>3
      <4> QED BY <3>6, <4>2, <4>3
    <3>9. ASSUME NEW k \in 1 .. n, s[k] \notin D PROVE \E i \in 1 .. L + 1 : e[i] = k
      <4>1. CASE k = n
        BY <3>5, <4>1
      <4>2. CASE k # n
        <5>1. k \in 1 .. n - 1
          BY <2>5, <4>2
        <5>2. PICK i \in 1 .. L : h[i] = k
          BY <2>4, <3>9, <5>1
        <5> QED BY <3>5, <5>2
      <4> QED BY <4>1, <4>2
    <3>10. Keeps(e, w, s, D, n)
      BY <3>3, <3>4, <3>7, <3>8, <3>9 DEF Keeps
    <3> QED BY <2>5, <3>1, <3>10, Zenon
  <2> QED BY <2>6, <2>7
<1>5. N \in G
  <2> HIDE DEF G
  <2>1. \A n \in 0 .. N : n \in G
    BY <1>2, <1>3, <1>4, UpTo, Zenon
  <2> QED BY <1>2, <2>1
<1>6. \E h : Keeps(h, f[N], s, D, N)
  BY <1>5, Zenon
<1> QED BY <1>1, <1>2, <1>6

(* What is left comes from the list and is not in D. *)
LEMMA DropOut ==
  ASSUME NEW S, NEW s \in Seq(S), NEW D, NEW i \in 1 .. Len(Drop(s, D))
  PROVE  Drop(s, D)[i] \notin D
<1>1. PICK h : Keeps(h, Drop(s, D), s, D, Len(s))
  BY DropPlaces, Zenon
<1> QED BY <1>1 DEF Keeps

(* Every member of the list outside D is left. *)
LEMMA DropAll ==
  ASSUME NEW S, NEW s \in Seq(S), NEW D, NEW j \in 1 .. Len(s), s[j] \notin D
  PROVE  \E i \in 1 .. Len(Drop(s, D)) : Drop(s, D)[i] = s[j]
<1>1. PICK h : Keeps(h, Drop(s, D), s, D, Len(s))
  BY DropPlaces, Zenon
<1> QED BY <1>1 DEF Keeps

Distinct(s) == \A i, j \in 1 .. Len(s) : s[i] = s[j] => i = j

(* Nothing is left twice if nothing was there twice. *)
LEMMA DropDistinct ==
  ASSUME NEW S, NEW s \in Seq(S), NEW D, Distinct(s)
  PROVE  Distinct(Drop(s, D))
<1>1. PICK w \in Seq(S) : w = Drop(s, D)
  BY DropPlaces, Zenon
<1>2. PICK h : Keeps(h, w, s, D, Len(s))
  BY <1>1, DropPlaces, Zenon
<1>3. Len(w) \in Nat /\ Len(s) \in Nat
  OBVIOUS
<1>4. ASSUME NEW i \in 1 .. Len(w), NEW j \in 1 .. Len(w), w[i] = w[j]
      PROVE  i = j
  <2>1. /\ h[i] \in 1 .. Len(s) /\ h[j] \in 1 .. Len(s)
        /\ w[i] = s[h[i]] /\ w[j] = s[h[j]]
    BY <1>2 DEF Keeps
  <2>2. h[i] = h[j]
    BY <1>4, <2>1, Zenon DEF Distinct
  <2>3. ~(h[i] < h[j]) /\ ~(h[j] < h[i])
    BY <2>1, <2>2
  <2>4. ~(i < j) /\ ~(j < i)
    BY <1>2, <2>3 DEF Keeps
  <2> QED BY <1>3, <2>4
<1> QED BY <1>1, <1>4 DEF Distinct

(* Of a member that occurs once, Drop closes the gap. *)
LEMMA DropOnce ==
  ASSUME NEW S, NEW s \in Seq(S), NEW k \in 1 .. Len(s),
         \A i \in 1 .. Len(s) : s[i] = s[k] => i = k
  PROVE  LET w == Drop(s, {s[k]}) IN
         /\ w \in Seq(S) /\ Len(w) = Len(s) - 1
         /\ \A i \in 1 .. Len(s) - 1 : w[i] = IF i < k THEN s[i] ELSE s[i + 1]
<1> DEFINE D == {s[k]}
<1>0. PICK f : Collects(f, S, s, D) /\ Drop(s, D) = f[Len(s)]
  BY DropFcn, Zenon
<1>1. /\ f \in [0 .. Len(s) -> Seq(S)]
      /\ f[0] = <<>>
      /\ \A n \in 1 .. Len(s) :
           f[n] = IF n = k THEN f[n - 1] ELSE Append(f[n - 1], s[n])
      /\ Drop(s, D) = f[Len(s)]
  BY <1>0 DEF Collects
<1> DEFINE N == Len(s)
           After(w, n) == /\ Len(w) = IF n < k THEN n ELSE n - 1
                          /\ \A i \in 1 .. Len(w) : w[i] = IF i < k THEN s[i] ELSE s[i + 1]
           G == {n \in 0 .. N : After(f[n], n)}
<1>2. N \in Nat /\ k \in 1 .. N /\ \A i \in 1 .. N : s[i] \in S
  OBVIOUS
<1>3. 0 \in G
  BY <1>1, <1>2
<1>4. ASSUME NEW n \in 1 .. N, n - 1 \in G PROVE n \in G
  <2>1. PICK g \in Seq(S) : g = f[n - 1]
    BY <1>1, <1>2
  <2>2. After(g, n - 1)
    BY <1>4, <2>1
  <2>3. n \in 0 .. N /\ s[n] \in S
    BY <1>2
  <2>4. CASE n = k
    <3>1. f[n] = g
      BY <1>1, <2>1, <2>4, Zenon
    <3>2. After(g, n)
      BY <2>2, <2>4
    <3> HIDE DEF After
    <3> QED BY <2>3, <3>1, <3>2
  <2>5. CASE n # k
    <3>0. Append(g, s[n]) \in Seq(S)
      BY <2>3
    <3>1. PICK w \in Seq(S) : w = Append(g, s[n])
      BY <3>0, Zenon
    <3>2. f[n] = w
      BY <1>1, <2>1, <2>5, <3>1, Zenon
    <3>3. /\ Len(g) \in Nat /\ Len(w) = Len(g) + 1 /\ w[Len(g) + 1] = s[n]
          /\ \A i \in 1 .. Len(g) : w[i] = g[i]
      BY <2>1, <2>3, <3>1
    <3>4. Len(g) = IF n < k THEN n - 1 ELSE n - 2
      BY <2>2, <2>5
    <3>5. Len(w) = IF n < k THEN n ELSE n - 1
      BY <3>3, <3>4
    <3>6. ASSUME NEW i \in 1 .. Len(w) PROVE w[i] = IF i < k THEN s[i] ELSE s[i + 1]
      <4>1. CASE i \in 1 .. Len(g)
        BY <2>2, <3>3, <4>1
      <4>2. CASE i = Len(g) + 1
        BY <2>5, <3>3, <3>4, <4>2
      <4> QED BY <3>3, <4>1, <4>2
    <3>7. After(w, n)
      BY <3>5, <3>6
    <3> HIDE DEF After
    <3> QED BY <2>3, <3>2, <3>7
  <2> QED BY <2>4, <2>5
<1>5. N \in G
  <2> HIDE DEF G
  <2>1. \A n \in 0 .. N : n \in G
    BY <1>2, <1>3, <1>4, UpTo, Zenon
  <2> QED BY <1>2, <2>1
<1>6. After(f[N], N) /\ f[N] \in Seq(S)
  BY <1>1, <1>2, <1>5
<1>7. PICK w \in Seq(S) : w = f[N]
  BY <1>6, Zenon
<1>8. /\ Len(w) = N - 1
      /\ \A i \in 1 .. N - 1 : w[i] = IF i < k THEN s[i] ELSE s[i + 1]
  BY <1>2, <1>6, <1>7
<1> QED BY <1>1, <1>7, <1>8, Zenon

(* So does the remove of a Python list. *)
LEMMA RemoveOnce ==
  ASSUME NEW S, NEW s \in Seq(S), NEW k \in 1 .. Len(s),
         \A i \in 1 .. Len(s) : s[i] = s[k] => i = k
  PROVE  LET w == RemoveFirst(s, s[k]) IN
         /\ w \in Seq(S) /\ Len(w) = Len(s) - 1
         /\ \A i \in 1 .. Len(s) - 1 : w[i] = IF i < k THEN s[i] ELSE s[i + 1]
<1>1. Places(s, s[k]) = {k}
  BY DEF Places
<1>2. Min(Places(s, s[k])) = k
  BY <1>1 DEF Min
<1>3. RemoveFirst(s, s[k]) = SubSeq(s, 1, k - 1) \o SubSeq(s, k + 1, Len(s))
  BY <1>2, Zenon DEF RemoveFirst, Contains
<1>4. PICK a, b \in Seq(S) : a = SubSeq(s, 1, k - 1) /\ b = SubSeq(s, k + 1, Len(s))
  <2>1. SubSeq(s, 1, k - 1) \in Seq(S) /\ SubSeq(s, k + 1, Len(s)) \in Seq(S)
    OBVIOUS
  <2> QED BY <2>1, Zenon
<1>5. /\ Len(a) = k - 1 /\ \A i \in 1 .. k - 1 : a[i] = s[i]
      /\ Len(b) = Len(s) - k /\ \A i \in 1 .. Len(s) - k : b[i] = s[i + k]
  BY <1>4
<1>6. PICK w \in Seq(S) : w = a \o b
  <2>1. a \o b \in Seq(S)
    OBVIOUS
  <2> QED BY <2>1, Zenon
<1>9. /\ Len(w) = Len(a) + Len(b)
      /\ \A i \in 1 .. Len(a) + Len(b) : w[i] = IF i <= Len(a) THEN a[i] ELSE b[i - Len(a)]
  BY <1>6
<1>10. Len(a) + Len(b) = Len(s) - 1
  BY <1>5
<1>7. k \in Nat /\ 1 <= k /\ k <= Len(s) /\ Len(s) \in Nat
  OBVIOUS
<1>8. \A i \in 1 .. Len(s) - 1 : w[i] = IF i < k THEN s[i] ELSE s[i + 1]
  <2> SUFFICES ASSUME NEW i \in 1 .. Len(s) - 1
               PROVE  w[i] = IF i < k THEN s[i] ELSE s[i + 1]
    BY Zenon
  <2>0. i \in 1 .. Len(a) + Len(b)
    BY <1>10
  <2>1. CASE i < k
    <3>1. i \in 1 .. k - 1 /\ i <= Len(a)
      BY <1>5, <1>7, <2>1
    <3>2. w[i] = a[i] /\ a[i] = s[i]
      BY <1>5, <1>9, <2>0, <3>1
    <3> QED BY <2>1, <3>2
  <2>2. CASE ~(i < k)
    <3>1. /\ i - (k - 1) \in 1 .. Len(s) - k /\ i - (k - 1) + k = i + 1
          /\ ~(i <= Len(a)) /\ i - Len(a) = i - (k - 1)
      BY <1>5, <1>7, <2>2
    <3>2. w[i] = b[i - (k - 1)]
      BY <1>9, <2>0, <3>1, SMTT(30)
    <3> QED BY <1>5, <2>2, <3>1, <3>2
  <2> QED BY <2>1, <2>2
<1>11. RemoveFirst(s, s[k]) = w /\ Len(w) = Len(s) - 1
  BY <1>3, <1>4, <1>6, <1>9, <1>10, Zenon
<1> QED BY <1>8, <1>11, Zenon

(* A list w of distinct members, the ones of s except x. *)
LeftOf(w, s, x) ==
  /\ Distinct(w)
  /\ \A i \in 1 .. Len(w) : w[i] # x /\ \E j \in 1 .. Len(s) : s[j] = w[i]
  /\ \A j \in 1 .. Len(s) : s[j] # x => \E i \in 1 .. Len(w) : w[i] = s[j]

(* The places of a list around the one that is taken out are different places. *)
LEMMA SkipOne ==
  \A i, j, k \in Int :
    (IF i < k THEN i ELSE i + 1) = (IF j < k THEN j ELSE j + 1) => i = j
OBVIOUS

(* The list s with its k-th member taken out holds every other member, once. *)
LEMMA GapLeft ==
  ASSUME NEW S, NEW s \in Seq(S), NEW w \in Seq(S), NEW k \in 1 .. Len(s), Distinct(s),
         Len(w) = Len(s) - 1,
         \A i \in 1 .. Len(s) - 1 : w[i] = IF i < k THEN s[i] ELSE s[i + 1]
  PROVE  LeftOf(w, s, s[k])
<1>1. Len(s) \in Nat /\ k \in Nat
  OBVIOUS
<1>2. PICK h : h = [i \in 1 .. Len(w) |-> IF i < k THEN i ELSE i + 1]
  BY Zenon
<1>3. \A i \in 1 .. Len(w) : h[i] \in 1 .. Len(s) /\ h[i] # k /\ w[i] = s[h[i]]
  <2> SUFFICES ASSUME NEW i \in 1 .. Len(w)
               PROVE  h[i] \in 1 .. Len(s) /\ h[i] # k /\ w[i] = s[h[i]]
    BY Zenon
  <2>1. h[i] = IF i < k THEN i ELSE i + 1
    BY <1>2, Zenon
  <2>2. i \in 1 .. Len(s) - 1
    BY Zenon
  <2>3. w[i] = IF i < k THEN s[i] ELSE s[i + 1]
    BY <2>2, Zenon
  <2>4. w[i] = s[h[i]]
    BY <2>1, <2>3, Zenon
  <2>5. h[i] \in 1 .. Len(s) /\ h[i] # k
    BY <1>1, <2>1, <2>2
  <2> QED BY <2>4, <2>5, Zenon
<1>4. \A i, j \in 1 .. Len(w) : h[i] = h[j] => i = j
  <2> SUFFICES ASSUME NEW i \in 1 .. Len(w), NEW j \in 1 .. Len(w), h[i] = h[j]
               PROVE  i = j
    BY Zenon
  <2>1. /\ h[i] = IF i < k THEN i ELSE i + 1
        /\ h[j] = IF j < k THEN j ELSE j + 1
    BY <1>2, Zenon
  <2>2. i \in Int /\ j \in Int /\ k \in Int
    OBVIOUS
  <2>3. (IF i < k THEN i ELSE i + 1) = (IF j < k THEN j ELSE j + 1)
    BY <2>1, Zenon
  <2> QED BY <2>2, <2>3, SkipOne, Zenon
<1>5. \A j \in 1 .. Len(s) : j # k => \E i \in 1 .. Len(w) : h[i] = j
  <2> SUFFICES ASSUME NEW j \in 1 .. Len(s), j # k PROVE \E i \in 1 .. Len(w) : h[i] = j
    OBVIOUS
  <2>1. CASE j < k
    BY <1>1, <1>2, <2>1
  <2>2. CASE j > k
    <3>1. j - 1 \in 1 .. Len(w) /\ ~(j - 1 < k)
      BY <1>1, <2>2
    <3>2. h[j - 1] = j
      BY <1>1, <1>2, <3>1
    <3> QED BY <3>1, <3>2
  <2> QED BY <1>1, <2>1, <2>2
<1>6. Distinct(w)
  <2>1. ASSUME NEW i \in 1 .. Len(w), NEW j \in 1 .. Len(w), w[i] = w[j] PROVE i = j
    <3>1. s[h[i]] = s[h[j]] /\ h[i] \in 1 .. Len(s) /\ h[j] \in 1 .. Len(s)
      BY <1>3, <2>1, Zenon
    <3>2. h[i] = h[j]
      BY <3>1, Zenon DEF Distinct
    <3> QED BY <1>4, <3>2, Zenon
  <2> QED BY <2>1, Zenon DEF Distinct
<1>7. ASSUME NEW i \in 1 .. Len(w)
      PROVE  w[i] # s[k] /\ \E j \in 1 .. Len(s) : s[j] = w[i]
  <2>1. h[i] \in 1 .. Len(s) /\ h[i] # k /\ w[i] = s[h[i]]
    BY <1>3, Zenon
  <2>2. s[h[i]] # s[k]
    BY <2>1, Zenon DEF Distinct
  <2> QED BY <2>1, <2>2, Zenon
<1>8. \A j \in 1 .. Len(s) : s[j] # s[k] => \E i \in 1 .. Len(w) : w[i] = s[j]
  <2> SUFFICES ASSUME NEW j \in 1 .. Len(s), s[j] # s[k]
               PROVE  \E i \in 1 .. Len(w) : w[i] = s[j]
    BY Zenon
  <2>1. PICK i \in 1 .. Len(w) : h[i] = j
    BY <1>5, Zenon
  <2>2. w[i] = s[j]
    BY <1>3, <2>1, Zenon
  <2> QED BY <2>2, Zenon
<1> QED BY <1>6, <1>7, <1>8, Zenon DEF LeftOf

LEMMA DropLeft ==
  ASSUME NEW S, NEW s \in Seq(S), NEW k \in 1 .. Len(s), Distinct(s)
  PROVE  Drop(s, {s[k]}) \in Seq(S) /\ LeftOf(Drop(s, {s[k]}), s, s[k])
<1>1. \A i \in 1 .. Len(s) : s[i] = s[k] => i = k
  BY Zenon DEF Distinct
<1>2. PICK w : w = Drop(s, {s[k]})
  OBVIOUS
<1>3. /\ w \in Seq(S) /\ Len(w) = Len(s) - 1
      /\ \A i \in 1 .. Len(s) - 1 : w[i] = IF i < k THEN s[i] ELSE s[i + 1]
  BY <1>1, <1>2, DropOnce, Zenon
<1> QED BY <1>2, <1>3, GapLeft, Zenon

LEMMA RemoveLeft ==
  ASSUME NEW S, NEW s \in Seq(S), NEW k \in 1 .. Len(s), Distinct(s)
  PROVE  RemoveFirst(s, s[k]) \in Seq(S) /\ LeftOf(RemoveFirst(s, s[k]), s, s[k])
<1>1. \A i \in 1 .. Len(s) : s[i] = s[k] => i = k
  BY Zenon DEF Distinct
<1>2. PICK w : w = RemoveFirst(s, s[k])
  OBVIOUS
<1>3. /\ w \in Seq(S) /\ Len(w) = Len(s) - 1
      /\ \A i \in 1 .. Len(s) - 1 : w[i] = IF i < k THEN s[i] ELSE s[i + 1]
  BY <1>1, <1>2, RemoveOnce, Zenon
<1> QED BY <1>2, <1>3, GapLeft, Zenon

(* push_back of a new member. *)
LEMMA AppendDistinct ==
  ASSUME NEW S, NEW s \in Seq(S), NEW x \in S, Distinct(s), \A i \in 1 .. Len(s) : s[i] # x
  PROVE  Distinct(Append(s, x))
<1>1. Append(s, x) \in Seq(S)
  OBVIOUS
<1>2. PICK w \in Seq(S) : w = Append(s, x)
  BY <1>1, Zenon
<1>3. /\ Len(s) \in Nat /\ Len(w) = Len(s) + 1 /\ w[Len(s) + 1] = x
      /\ \A i \in 1 .. Len(s) : w[i] = s[i]
  BY <1>2
<1>4. \A i \in 1 .. Len(w) : i = Len(s) + 1 \/ i \in 1 .. Len(s)
  BY <1>3
<1>5. ASSUME NEW i \in 1 .. Len(w), NEW j \in 1 .. Len(w), w[i] = w[j] PROVE i = j
  <2>1. CASE i \in 1 .. Len(s) /\ j \in 1 .. Len(s)
    BY <1>3, <1>5, <2>1, Zenon DEF Distinct
  <2>2. CASE i = Len(s) + 1 /\ j \in 1 .. Len(s)
    BY <1>3, <1>5, <2>2, Zenon
  <2>3. CASE i \in 1 .. Len(s) /\ j = Len(s) + 1
    BY <1>3, <1>5, <2>3, Zenon
  <2> QED BY <1>4, <2>1, <2>2, <2>3, Zenon
<1>6. Distinct(w)
  BY <1>5, Zenon DEF Distinct
<1> QED BY <1>2, <1>6, Zenon

-----------------------------------------------------------------------------
(* Times *)

(* The places of x in a list are finitely many, and Times is their number. *)
LEMMA PlacesFinite ==
  ASSUME NEW S, NEW s \in Seq(S), NEW x
  PROVE  IsFiniteSet(Places(s, x))
<1>1. IsFiniteSet(1 .. Len(s))
  BY FS_Interval
<1>2. Places(s, x) \in SUBSET (1 .. Len(s))
  BY DEF Places
<1> QED BY <1>1, <1>2, FS_Subset, Zenon

LEMMA TimesType ==
  ASSUME NEW S, NEW s \in Seq(S), NEW x
  PROVE  Times(s, x) \in Nat
BY PlacesFinite, FS_CardinalityType, Zenon DEF Times

LEMMA TimesZero ==
  ASSUME NEW S, NEW s \in Seq(S), NEW x
  PROVE  Times(s, x) = 0 <=> \A i \in 1 .. Len(s) : s[i] # x
<1>1. Times(s, x) = 0 <=> Places(s, x) = {}
  BY PlacesFinite, FS_EmptySet, Zenon DEF Times
<1> QED BY <1>1 DEF Places

LEMMA TimesOne ==
  ASSUME NEW S, NEW s \in Seq(S), NEW x
  PROVE  Times(s, x) = 1 <=> \E k \in 1 .. Len(s) : \A i \in 1 .. Len(s) : s[i] = x <=> i = k
<1>1. Times(s, x) = 1 <=> \E k : Places(s, x) = {k}
  BY PlacesFinite, FS_Singleton, Zenon DEF Times
<1>2. ASSUME NEW k, Places(s, x) = {k}
      PROVE  k \in 1 .. Len(s) /\ \A i \in 1 .. Len(s) : s[i] = x <=> i = k
  BY <1>2, Zenon DEF Places
<1>3. ASSUME NEW k \in 1 .. Len(s), \A i \in 1 .. Len(s) : s[i] = x <=> i = k
      PROVE  Places(s, x) = {k}
  BY <1>3 DEF Places
<1> QED BY <1>1, <1>2, <1>3, Zenon

(* push_back adds one place. *)
LEMMA AppendTimes ==
  ASSUME NEW S, NEW s \in Seq(S), NEW y \in S, NEW x
  PROVE  Times(Append(s, y), x) = IF x = y THEN Times(s, x) + 1 ELSE Times(s, x)
<1>1. PICK w, n : w = Append(s, y) /\ n = Len(s) + 1
  BY Zenon
<1>2. /\ Len(s) \in Nat /\ Len(w) = n
      /\ w[n] = y /\ \A i \in 1 .. Len(s) : w[i] = s[i]
  BY <1>1
<1>3. IsFiniteSet(Places(s, x))
  BY PlacesFinite, Zenon
<1>6. n \notin Places(s, x)
  BY <1>1 DEF Places
<1>4. CASE x = y
  <2>1. Places(w, x) = Places(s, x) \cup {n}
    BY <1>1, <1>2, <1>4 DEF Places
  <2>2. Cardinality(Places(w, x)) = Cardinality(Places(s, x)) + 1
    BY <1>3, <1>6, <2>1, FS_AddElement, Zenon
  <2> QED BY <1>1, <1>4, <2>2 DEF Times
<1>5. CASE x # y
  <2>1. Places(w, x) = Places(s, x)
    BY <1>1, <1>2, <1>5 DEF Places
  <2> QED BY <1>1, <1>5, <2>1 DEF Times
<1> QED BY <1>4, <1>5

(* Drop leaves the count of every other member. *)
LEMMA DropTimes ==
  ASSUME NEW S, NEW s \in Seq(S), NEW D, NEW x
  PROVE  Times(Drop(s, D), x) = IF x \in D THEN 0 ELSE Times(s, x)
<1>1. PICK w \in Seq(S) : w = Drop(s, D)
  BY DropPlaces, Zenon
<1>2. CASE x \in D
  <2>0. \A i \in 1 .. Len(Drop(s, D)) : Drop(s, D)[i] \notin D
    BY DropOut, Zenon
  <2>1. \A i \in 1 .. Len(w) : w[i] # x
    BY <1>1, <1>2, <2>0
  <2>2. Times(w, x) = 0
    BY <2>1, TimesZero, Zenon
  <2> QED BY <1>1, <1>2, <2>2
<1>3. CASE x \notin D
  <2>1. PICK h : Keeps(h, w, s, D, Len(s))
    BY <1>1, DropPlaces, Zenon
  <2> DEFINE P == Places(w, x)
             Q == Places(s, x)
             g == [i \in P |-> h[i]]
  <2>2. Len(w) \in Nat /\ Len(s) \in Nat
    OBVIOUS
  <2>3. IsFiniteSet(P)
    BY PlacesFinite, Zenon
  <2>4. g \in [P -> Q]
    BY <2>1, <2>2 DEF Keeps, Places
  <2>5. ASSUME NEW i \in P, NEW j \in P, g[i] = g[j] PROVE i = j
    <3>1. i \in 1 .. Len(w) /\ j \in 1 .. Len(w) /\ h[i] = h[j] /\ h[i] \in 1 .. Len(s)
      BY <2>1, <2>2, <2>5 DEF Keeps, Places
    <3>2. ~(h[i] < h[j]) /\ ~(h[j] < h[i])
      BY <3>1
    <3>3. ~(i < j) /\ ~(j < i)
      BY <2>1, <3>1, <3>2 DEF Keeps, Places
    <3> QED BY <3>1, <3>3
  <2>6. ASSUME NEW k \in Q PROVE \E i \in P : g[i] = k
    <3>1. k \in 1 .. Len(s) /\ s[k] \notin D /\ s[k] = x
      BY <1>3 DEF Places
    <3>2. PICK i \in 1 .. Len(w) : h[i] = k
      BY <2>1, <3>1 DEF Keeps, Places
    <3>3. i \in P
      BY <2>1, <2>2, <3>1, <3>2 DEF Keeps, Places
    <3> QED BY <3>2, <3>3
  <2> HIDE DEF P, Q, g
  <2>7. g \in Bijection(P, Q)
    BY <2>4, <2>5, <2>6 DEF Bijection, Injection, Surjection, IsInjective
  <2>8. Cardinality(P) = Cardinality(Q)
    BY <2>3, <2>7, FS_Bijection DEF ExistsBijection
  <2> QED BY <1>1, <1>3, <2>8 DEF P, Q, Times
<1> QED BY <1>2, <1>3
=============================================================================
