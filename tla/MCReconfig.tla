------------------------------ MODULE MCReconfig -----------------------------
(* Instances of Reconfig for TLC: a source block, a sink block, two pools. *)
EXTENDS Reconfig, TLC

CONSTANTS a, b

MCNames == {a, b}
MCLinks == {<<a, b>>}

(* The two pools are interchangeable. *)
Symmetry == Permutations(Pools)
=============================================================================
