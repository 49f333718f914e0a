---------------------------- MODULE MCThreadPool ----------------------------
(* Two pools, one of two threads and one of a single thread. *)
EXTENDS ThreadPool

CONSTANTS b1, b2, b3

MCPools  == {1, 2}
MCSize   == [p \in MCPools |-> IF p = 1 THEN 2 ELSE 1]
MCOne    == {1}
MCTwoThreads == [p \in MCOne |-> 2]
MCTwoBlocks   == {b1, b2}
MCThreeBlocks == {b1, b2, b3}
=============================================================================
