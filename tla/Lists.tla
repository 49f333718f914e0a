-------------------------------- MODULE Lists --------------------------------
(* The lists of the execution engine and of the gates. *)
EXTENDS Naturals, Sequences, FiniteSets, FiniteSetsExt

(* erase(std::remove(...)), as MpMcQueue::remove and the disconnect of the *)
(* gates do it: every member of D is taken out, the rest keeps its order.  *)
Drop(s, D) ==
  LET f[n \in 0 .. Len(s)] == IF n = 0 THEN <<>>
                              ELSE IF s[n] \in D THEN f[n - 1]
                              ELSE Append(f[n - 1], s[n])
  IN f[Len(s)]

(* Where and how often x occurs in s. *)
Places(s, x) == {i \in 1 .. Len(s) : s[i] = x}
Times(s, x)  == Cardinality(Places(s, x))

(* `in` and remove of a Python list: the first occurrence is taken out.    *)
(* The operators of these names in SequencesExt say the same; they come    *)
(* with the bags, which every step of a proof would have in its context.   *)
Contains(s, x) == \E i \in 1 .. Len(s) : s[i] = x
RemoveFirst(s, x) ==
  LET k == Min(Places(s, x))
  IN  IF Contains(s, x) THEN SubSeq(s, 1, k - 1) \o SubSeq(s, k + 1, Len(s)) ELSE s
=============================================================================
