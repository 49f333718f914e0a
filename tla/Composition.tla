----------------------------- MODULE Composition -----------------------------
(***************************************************************************)
(* The C++ side of a composition: the directory of blocks                  *)
(* (core/composition), the links between their gates, and which pool runs  *)
(* which block, as the functions of daemon/backend_glue.cpp change them.   *)
(* A block is an object with an address: names are looked up in m_map,     *)
(* gates and schedulers hold addresses.  Every block has one gate of each  *)
(* direction.  A scheduler keeps its blocks alive (shared_ptr), a gate     *)
(* does not: its peers are plain pointers.                                 *)
(***************************************************************************)
EXTENDS Lists

CONSTANTS Names,     \* block names
          Pools,     \* thread pool names
          MaxObjs    \* bound on the number of block objects ever created

ASSUME MaxObjsAssumption == MaxObjs \in Nat

VARIABLES
  m_map,         \* name -> address, NoObj when there is no such block
  born,          \* addresses used so far
  invocation,    \* invocation type of the block of that name
  initialized,   \* names of the blocks whose initialize() was called
  outPeers,      \* address -> m_peers of its output gate
  inPeers,       \* address -> m_peers of its input gate
  m_list         \* existing pool -> the list of its scheduler

dirVars  == <<m_map, born, invocation, initialized>>
linkVars == <<outPeers, inPeers>>
cppVars  == <<m_map, born, invocation, initialized, outPeers, inPeers, m_list>>

NoObj == 0
Objs  == 1..MaxObjs
Invocations == {"direct", "indirect"}     \* "async" is scheduled like "indirect"

CppInit ==
  /\ m_map = [n \in Names |-> NoObj]
  /\ born = 0
  /\ invocation = [n \in Names |-> "direct"]
  /\ initialized = {}
  /\ outPeers = [o \in Objs |-> <<>>]
  /\ inPeers = [o \in Objs |-> <<>>]
  /\ m_list = [q \in {} |-> <<>>]

Has(n)  == m_map[n] # NoObj
Live(o) == \/ \E n \in Names : m_map[n] = o
           \/ \E q \in DOMAIN m_list : Contains(m_list[q], o)

(* m_map[name] = std::move(sp): an older block of that name is dropped. *)
create_block(n, inv) ==
  /\ born < MaxObjs
  /\ born' = born + 1
  /\ m_map' = [m_map EXCEPT ![n] = born + 1]
  /\ invocation' = [invocation EXCEPT ![n] = inv]
  /\ initialized' = initialized \ {n}

(* The gates of the block stay in the peers of other gates. *)
delete_block(n) ==
  /\ m_map' = [m_map EXCEPT ![n] = NoObj]
  /\ invocation' = [invocation EXCEPT ![n] = "direct"]
  /\ initialized' = initialized \ {n}
  /\ UNCHANGED born

set_invocation(n, inv) ==
  /\ invocation' = [invocation EXCEPT ![n] = inv]
  /\ UNCHANGED <<m_map, born, initialized>>

(* The gates of a block that no directory and no scheduler holds any more  *)
(* are destroyed with it; its address stays in the peers of other gates.   *)
destroy_unused ==
  /\ outPeers' = [o \in Objs |-> IF Live(o)' THEN outPeers[o] ELSE <<>>]
  /\ inPeers'  = [o \in Objs |-> IF Live(o)' THEN inPeers[o] ELSE <<>>]

(* OutGate and InGate: std::remove takes every occurrence out. *)
Without(s, x) == Drop(s, {x})
OutConnect(o, x)    == [outPeers EXCEPT ![o] = Append(@, x)]
InConnect(o, x)     == [inPeers EXCEPT ![o] = Append(@, x)]
OutDisconnect(o, x) == [outPeers EXCEPT ![o] = Without(@, x)]
InDisconnect(o, x)  == [inPeers EXCEPT ![o] = Without(@, x)]

(* Mutant of create_connection: the input gate does not learn its peer. *)
create_one_way(a, b) ==
  /\ outPeers' = OutConnect(m_map[a], m_map[b])
  /\ UNCHANGED inPeers

create_connection(a, b) ==
  /\ outPeers' = OutConnect(m_map[a], m_map[b])
  /\ inPeers'  = InConnect(m_map[b], m_map[a])

Linked(a, b) == Contains(outPeers[m_map[a]], m_map[b])

(* Mutant of delete_connection: the input gate keeps its peer. *)
delete_one_way(a, b) ==
  /\ outPeers' = OutDisconnect(m_map[a], m_map[b])
  /\ UNCHANGED inPeers

delete_connection(a, b) ==
  /\ outPeers' = OutDisconnect(m_map[a], m_map[b])
  /\ inPeers'  = InDisconnect(m_map[b], m_map[a])

(* Lists of the schedulers after a pool took or lost a block. *)
WithTask(q, o)    == [m_list EXCEPT ![q] = Append(@, o)]
WithoutTask(q, o) == [m_list EXCEPT ![q] = Without(@, o)]

init_composition ==
  /\ initialized' = {n \in Names : Has(n)}
  /\ UNCHANGED <<m_map, born, invocation>>

-----------------------------------------------------------------------------
(* A link has two ends: as often as a live block sends to another one, the *)
(* other one has it as a peer (Composition::create_link, delete_link and   *)
(* the gates' connect and disconnect), whatever blocks were replaced,      *)
(* destroyed or rebuilt in between.                                        *)
LinksHaveTwoEnds ==
  \A o \in Objs, x \in Objs :
    Live(o) /\ Live(x) => Times(outPeers[o], x) = Times(inPeers[x], o)

(* Every gate of a live block points to gates of live blocks. *)
NoDanglingGate ==
  \A o \in Objs : Live(o) =>
    \A i \in DOMAIN (outPeers[o] \o inPeers[o]) : Live((outPeers[o] \o inPeers[o])[i])
=============================================================================
