------------------------------- MODULE Reconfig ------------------------------
(***************************************************************************)
(* The Python side of a Blockmon process: BMProcessManager starts, updates *)
(* and stops a composition; CompositionManager, Block and ThreadPool keep  *)
(* their own tables and call the C++ functions of module Composition.      *)
(* The schedulers and the timer are stopped while a composition changes,   *)
(* so a request is a sequence of steps, each of which may throw and leave  *)
(* the rest of the request undone.                                         *)
(***************************************************************************)
EXTENDS Composition

CONSTANTS Links,      \* the connections that requests name, pairs of block names
          None,       \* no Python object
          MaxPeers    \* bound on the links a gate collects

(* A Block of daemon/core/block.py: its invocation type, its ThreadPool and *)
(* the names of the blocks its gates are connected to.                      *)
Block == [inv : Invocations, tp : Pools \cup {None}, out : Seq(Names), in : Seq(Names)]

ASSUME LinksAssumption == Links \subseteq Names \X Names
ASSUME NoneAssumption == None \notin Pools \cup Block

VARIABLES
  blocks,        \* CompositionManager.__blocks: name -> Block or None
  thread_pools,  \* the keys of CompositionManager.__thread_pools
  handles,       \* pools whose ThreadPool object exists
  tpBlocks,      \* pool -> ThreadPool.blocks
  phase,         \* which part of which request is being executed
  bm_running,    \* BMProcessManager.bm_running
  target,        \* the block being updated
  tidy           \* no request so far broke a rule of the interface

pyVars == <<blocks, thread_pools, handles, tpBlocks>>
control == <<phase, bm_running, target>>
vars == <<cppVars, pyVars, phase, bm_running, target, tidy>>

Known(n) == blocks[n] # None

Init ==
  /\ CppInit
  /\ blocks = [n \in Names |-> None]
  /\ thread_pools = {} /\ handles = {}
  /\ tpBlocks = [q \in Pools |-> <<>>]
  /\ phase = "none" /\ bm_running = FALSE /\ target = None /\ tidy = TRUE

(* Mutant of Settle: the C++ pool of an erased one stays. *)
SettleKeepsPool(lists) ==
  /\ handles' = {q \in handles : \/ q \in thread_pools'
                                  \/ \E n \in Names : blocks'[n] # None /\ blocks'[n].tp = q}
  /\ m_list' = lists
  /\ destroy_unused

(* A ThreadPool object goes when neither the table nor a Block refers to   *)
(* it; __del__ then removes the C++ pool, unless blocks are still listed.  *)
Settle(lists) ==
  LET gone == {q \in handles : /\ q \notin thread_pools'
                               /\ \A n \in Names : blocks'[n] # None => blocks'[n].tp # q}
      erased == {q \in gone : tpBlocks'[q] = <<>>}
  IN  /\ handles' = handles \ gone
      /\ m_list' = [q \in DOMAIN lists \ erased |-> lists[q]]
      /\ destroy_unused

(* An exception ends the request: nothing starts the schedulers again, and *)
(* a process whose installation failed is gone.                            *)
Thrown == /\ phase' = IF phase = "install" THEN "dead" ELSE "idle"
          /\ target' = None
-----------------------------------------------------------------------------
start_composition ==
  /\ phase = "none" /\ phase' = "install"
  /\ UNCHANGED <<cppVars, pyVars, bm_running, tidy, target>>

installed ==
  /\ phase = "install" /\ phase' = "idle"
  /\ init_composition
  /\ bm_running' = TRUE
  /\ UNCHANGED <<linkVars, m_list, pyVars, tidy, target>>

update_composition ==
  /\ phase = "idle" /\ phase' = "delete"
  /\ bm_running' = FALSE
  /\ UNCHANGED <<cppVars, pyVars, tidy, target>>

next_section ==
  /\ phase \in {"delete", "add"}
  /\ phase' = IF phase = "delete" THEN "add" ELSE "reconf"
  /\ UNCHANGED <<cppVars, pyVars, bm_running, tidy, target>>

updated ==
  /\ phase = "reconf" /\ phase' = "idle"
  /\ bm_running' = TRUE
  /\ UNCHANGED <<cppVars, pyVars, tidy, target>>

(* A node of the request that cannot be parsed, or that names a block, a   *)
(* gate, a type or a pool that does not exist, throws before any change.   *)
refused ==
  /\ phase \in {"install", "delete", "add", "reconf", "config"}
  /\ Thrown
  /\ UNCHANGED <<cppVars, pyVars, bm_running, tidy>>
-----------------------------------------------------------------------------
create_pool(q) ==
  /\ phase \in {"install", "add"}
  /\ q \notin DOMAIN m_list
  /\ m_list' = [x \in DOMAIN m_list \cup {q} |-> IF x = q THEN <<>> ELSE m_list[x]]
  /\ thread_pools' = thread_pools \cup {q}
  /\ handles' = handles \cup {q}
  /\ tpBlocks' = [tpBlocks EXCEPT ![q] = <<>>]
  /\ UNCHANGED <<dirVars, linkVars, blocks, control, tidy>>

delete_pool(q) ==
  /\ phase = "delete" /\ q \in thread_pools
  /\ thread_pools' = thread_pools \ {q}
  /\ UNCHANGED <<blocks, tpBlocks>>
  /\ UNCHANGED <<dirVars, control>>
  /\ Settle(m_list)
  /\ tidy' = (tidy /\ tpBlocks[q] = <<>>)

(* CompositionManager.__create_block and Block.__init__ *)
new_block(n, inv, q) ==
  /\ phase \in {"install", "add"}
  /\ IF inv = "indirect" THEN q \in thread_pools ELSE q = None
  /\ create_block(n, inv)
  /\ blocks' = [blocks EXCEPT ![n] = [inv |-> inv, tp |-> q, out |-> <<>>, in |-> <<>>]]
  /\ tpBlocks' = IF q = None THEN tpBlocks ELSE [tpBlocks EXCEPT ![q] = Append(@, n)]
  /\ UNCHANGED thread_pools
  /\ Settle(IF q = None THEN m_list ELSE WithTask(q, born + 1))
  /\ tidy' = (tidy /\ ~Known(n))
  /\ UNCHANGED control

(* Block.remove finds the block in the lists of its pool, if it has one. *)
Removable(n) == blocks[n].inv = "indirect" =>
                  blocks[n].tp # None /\ Contains(tpBlocks[blocks[n].tp], n) /\ Has(n)

(* The Python and the C++ lists after Block.remove. *)
TpBlocksWithout(n) == IF blocks[n].inv = "direct" THEN tpBlocks
                      ELSE [tpBlocks EXCEPT ![blocks[n].tp] = RemoveFirst(@, n)]
ListsWithout(n) == IF blocks[n].inv = "direct" THEN m_list
                   ELSE WithoutTask(blocks[n].tp, m_map[n])

delete(n) ==
  /\ phase = "delete" /\ Known(n) /\ Removable(n) /\ Has(n)
  /\ delete_block(n)
  /\ blocks' = [blocks EXCEPT ![n] = None]
  /\ tpBlocks' = TpBlocksWithout(n)
  /\ UNCHANGED thread_pools
  /\ Settle(ListsWithout(n))
  /\ tidy' = (tidy /\ blocks[n].out = <<>> /\ blocks[n].in = <<>>)
  /\ UNCHANGED control
(* The list of the Python pool may have lost the block before the throw. *)
delete_thrown(n) ==
  /\ phase = "delete" /\ Known(n) /\ ~(Removable(n) /\ Has(n))
  /\ Thrown
  /\ tpBlocks' = IF blocks[n].tp = None THEN tpBlocks ELSE TpBlocksWithout(n)
  /\ UNCHANGED <<cppVars, blocks, thread_pools, handles, bm_running, tidy>>
-----------------------------------------------------------------------------
connect(a, b) ==
  /\ phase \in {"install", "add"}
  /\ Known(a) /\ Known(b) /\ Has(a) /\ Has(b)
  /\ Len(outPeers[m_map[a]]) < MaxPeers /\ Len(blocks[a].out) < MaxPeers
  /\ Len(inPeers[m_map[b]]) < MaxPeers /\ Len(blocks[b].in) < MaxPeers
  /\ create_connection(a, b)
  /\ LET bl == [blocks EXCEPT ![a].out = Append(@, b)]
     IN  blocks' = [bl EXCEPT ![b].in = Append(@, a)]
  /\ tidy' = (tidy /\ ~Linked(a, b))
  /\ UNCHANGED <<dirVars, m_list, thread_pools, handles, tpBlocks, control>>

(* Mutant of disconnect: only the block that sends forgets the link. *)
disconnect_one_side(a, b) ==
  /\ phase = "delete"
  /\ Known(a) /\ Known(b) /\ Has(a) /\ Has(b) /\ Linked(a, b)
  /\ delete_connection(a, b)
  /\ blocks' = [blocks EXCEPT ![a].out = RemoveFirst(@, b)]
  /\ UNCHANGED <<dirVars, m_list, thread_pools, handles, tpBlocks, control, tidy>>

disconnect(a, b) ==
  /\ phase = "delete"
  /\ Known(a) /\ Known(b) /\ Has(a) /\ Has(b) /\ Linked(a, b)
  /\ delete_connection(a, b)
  /\ LET bl == [blocks EXCEPT ![a].out = RemoveFirst(@, b)]
     IN  blocks' = [bl EXCEPT ![b].in = RemoveFirst(@, a)]
  /\ UNCHANGED <<dirVars, m_list, thread_pools, handles, tpBlocks, control, tidy>>
-----------------------------------------------------------------------------
(* Block.update, up to the pool: a request for another pool adds the block *)
(* to its present pool once more and then takes it out of the pool asked   *)
(* for, which throws unless that pool lists it.                            *)
update_pool(n, inv, q) ==
  /\ phase = "reconf" /\ Known(n)
  /\ IF inv = "indirect" THEN q \in thread_pools ELSE q = None
  /\ UNCHANGED <<dirVars, thread_pools, bm_running>>
  /\ LET p == blocks[n].tp
         inPool == [tpBlocks EXCEPT ![p] = Append(@, n)]
     IN  /\ tidy' = (tidy /\ inv = blocks[n].inv /\ (inv = "direct" \/ p = q))
         /\ \/ /\ inv = "direct" \/ p = q
               /\ blocks' = [blocks EXCEPT ![n].inv = inv]
               /\ phase' = "config" /\ target' = n
               /\ UNCHANGED <<handles, tpBlocks, m_list, linkVars>>
            \/ /\ inv = "indirect" /\ p = None          \* no pool to add it to
               /\ blocks' = [blocks EXCEPT ![n].inv = inv]
               /\ Thrown
               /\ UNCHANGED <<handles, tpBlocks, m_list, linkVars>>
            \/ /\ inv = "indirect" /\ p \notin {None, q} /\ Len(tpBlocks[p]) < MaxPeers
               /\ ~Has(n)                                \* not in C++
               /\ blocks' = [blocks EXCEPT ![n].inv = inv]
               /\ tpBlocks' = inPool
               /\ Thrown
               /\ UNCHANGED <<handles, m_list, linkVars>>
            \/ /\ inv = "indirect" /\ p \notin {None, q} /\ Len(tpBlocks[p]) < MaxPeers
               /\ Has(n)
               /\ blocks' = [blocks EXCEPT ![n].inv = inv, ![n].tp = q]
               /\ IF Contains(tpBlocks[q], n)
                  THEN /\ tpBlocks' = [inPool EXCEPT ![q] = RemoveFirst(@, n)]
                       /\ Settle([WithTask(p, m_map[n]) EXCEPT ![q] = Without(@, m_map[n])])
                       /\ phase' = "config" /\ target' = n
                  ELSE /\ tpBlocks' = inPool
                       /\ Settle(WithTask(p, m_map[n]))
                       /\ Thrown

(* The C++ block takes the invocation and the parameters. *)
update_accepted ==
  /\ phase = "config" /\ phase' = "reconf" /\ target' = None
  /\ Has(target)
  /\ set_invocation(target, blocks[target].inv)
  /\ UNCHANGED <<linkVars, m_list, pyVars, bm_running, tidy>>

(* update_config returned false.  remove() may throw; when it does not,    *)
(* restore() hands the <params> node to create_block, which wants a        *)
(* <block> node and throws.                                                *)
update_vetoed ==
  /\ phase = "config" /\ Thrown
  /\ Has(target)
  /\ tidy' = FALSE
  /\ IF Removable(target)
     THEN /\ delete_block(target)
          /\ tpBlocks' = TpBlocksWithout(target)
          /\ UNCHANGED <<blocks, thread_pools>>
          /\ Settle(ListsWithout(target))
     ELSE /\ set_invocation(target, blocks[target].inv)
          /\ UNCHANGED <<m_list, pyVars, linkVars>>
  /\ UNCHANGED bm_running
-----------------------------------------------------------------------------
(* The lists of the schedulers without the blocks of a set of names. *)
ListsWithoutAll(S) ==
  [q \in DOMAIN m_list |->
     Drop(m_list[q], {m_map[n] : n \in {x \in S : blocks[x].inv = "indirect" /\ blocks[x].tp = q}})]

(* CompositionManager.remove: all blocks, then the pools of the table,     *)
(* then the composition.  The tables that remain are not used again.       *)
stop_composition ==
  /\ phase = "idle" /\ phase' = "none"
  /\ bm_running' = FALSE
  /\ LET S == {n \in Names : Known(n)}
     IN  /\ \A n \in S : Removable(n) /\ Has(n)
         /\ m_list' = [q \in DOMAIN m_list \ thread_pools |-> ListsWithoutAll(S)[q]]
  /\ m_map' = [n \in Names |-> NoObj] /\ initialized' = {}
  /\ invocation' = [n \in Names |-> "direct"]
  /\ blocks' = [n \in Names |-> None]
  /\ thread_pools' = {} /\ handles' = {}
  /\ tpBlocks' = [q \in Pools |-> <<>>]
  /\ destroy_unused
  /\ UNCHANGED <<born, tidy, target>>

(* The same when the removal of n throws, after that of the blocks in S. *)
stop_thrown(n, S) ==
  /\ phase = "idle"
  /\ bm_running' = FALSE
  /\ Known(n) /\ ~(Removable(n) /\ Has(n))
  /\ \A s \in S : Known(s) /\ Removable(s) /\ Has(s)
  /\ m_map' = [x \in Names |-> IF x \in S THEN NoObj ELSE m_map[x]]
  /\ initialized' = initialized \ S
  /\ invocation' = [x \in Names |-> IF x \in S THEN "direct" ELSE invocation[x]]
  /\ m_list' = ListsWithoutAll(S)
  /\ tpBlocks' = [q \in Pools |->
       LET gone == {x \in S : blocks[x].inv = "indirect" /\ blocks[x].tp = q}
       IN  FoldSet(LAMBDA x, s : RemoveFirst(s, x), tpBlocks[q], gone)]
  /\ destroy_unused
  /\ UNCHANGED <<born, blocks, thread_pools, handles, phase, tidy, target>>

Next ==
  \/ start_composition \/ installed \/ update_composition \/ next_section \/ updated
  \/ refused \/ stop_composition
  \/ \E q \in Pools : create_pool(q) \/ delete_pool(q)
  \/ \E n \in Names, inv \in Invocations, q \in Pools \cup {None} : new_block(n, inv, q)
  \/ \E n \in Names : delete(n)
  \/ \E l \in Links : connect(l[1], l[2]) \/ disconnect(l[1], l[2])
  \/ \E n \in Names, inv \in Invocations, q \in Pools \cup {None} : update_pool(n, inv, q)
  \/ update_accepted \/ update_vetoed
  \/ \E n \in Names : delete_thrown(n)
  \/ \E n \in Names : \E S \in SUBSET (Names \ {n}) : stop_thrown(n, S)

Spec == Init /\ [][Next]_vars
-----------------------------------------------------------------------------
(* As long as requests disconnect a block before they delete it, add only  *)
(* new names and change no pool or invocation, no gate of a live block     *)
(* points to a destroyed one, although requests may break off anywhere     *)
(* (Composition::delete_block leaves the peers alone).                     *)
TidyNoDanglingGate == tidy => NoDanglingGate

PeerNames(n, s) == [i \in DOMAIN s |-> s[i]] = [i \in DOMAIN n |-> m_map[n[i]]]

(* Under the same rules the Python tables and the C++ directory agree      *)
(* after every step: a block exists on both sides, with the same links,    *)
(* and an indirect block is listed once, by the pool of its Block object,  *)
(* and by no other.                                                        *)
TablesAgree == tidy => \A n \in Names :
  /\ Known(n) <=> Has(n)
  /\ Known(n) =>
       /\ invocation[n] = blocks[n].inv
       /\ PeerNames(blocks[n].out, outPeers[m_map[n]])
       /\ PeerNames(blocks[n].in, inPeers[m_map[n]])
       /\ \A q \in DOMAIN m_list :
            Times(m_list[q], m_map[n]) = IF blocks[n].tp = q THEN 1 ELSE 0

(* A composition that was stopped leaves no block alive and no pool behind *)
(* when the requests kept the rules, so the next start finds the names     *)
(* free (CompositionManager.remove after any updates).                     *)
StopLeavesNothing ==
  tidy /\ phase = "none" => (\A o \in Objs : ~Live(o)) /\ DOMAIN m_list = {}

(* Between two requests every block that the manager lists exists: an      *)
(* update that a block refuses destroys it and "Re-creates the block       *)
(* [...] This function also re-generates any connection that the Block     *)
(* had" (daemon/core/block.py 321-322).                                    *)
KnownBlocksExist == phase = "idle" => \A n \in Names : Known(n) => Has(n)
=============================================================================
