--------------------------- MODULE ReconfigProofs ---------------------------
(***************************************************************************)
(* Proofs about the reconfiguration of a composition, for any names,       *)
(* pools and links and any number of blocks and peers: the links between   *)
(* blocks have two ends, and the tables of the two languages agree as long *)
(* as the requests keep the rules.                                         *)
(***************************************************************************)
EXTENDS Reconfig, ListProofs

-----------------------------------------------------------------------------
(* The inductive invariant *)

\* The addresses in the directory, the gates and the schedulers are addresses
\* of blocks that were created.
Addresses ==
  /\ born \in 0 .. MaxObjs
  /\ m_map \in [Names -> 0 .. born]
  /\ outPeers \in [Objs -> Seq(1 .. born)]
  /\ inPeers \in [Objs -> Seq(1 .. born)]
  /\ m_list \in [DOMAIN m_list -> Seq(1 .. born)]

\* A block that is not alive has no gates.
DeadHasNoGates ==
  \A o \in Objs : ~Live(o) => outPeers[o] = <<>> /\ inPeers[o] = <<>>

LinkInv == Addresses /\ DeadHasNoGates /\ LinksHaveTwoEnds

KnownNames == {n \in Names : Known(n)}

\* The two directories list the same blocks, each under one name.
SameBlocks ==
  /\ blocks \in [Names -> Block \cup {None}]
  /\ invocation \in [Names -> Invocations]
  /\ \A n \in Names : /\ Known(n) <=> Has(n)
                      /\ Known(n) => invocation[n] = blocks[n].inv
  /\ \A n, k \in Names : Has(n) /\ m_map[n] = m_map[k] => n = k

\* The peers os of a gate are the blocks of the names ns, each of them once.
Peers(ns, os, K, M) ==
  /\ Len(os) = Len(ns) /\ Distinct(ns)
  /\ \A i \in 1 .. Len(ns) : ns[i] \in K /\ os[i] = M[ns[i]]

SameLinks ==
  \A n \in KnownNames : /\ Peers(blocks[n].out, outPeers[m_map[n]], KnownNames, m_map)
                        /\ Peers(blocks[n].in, inPeers[m_map[n]], KnownNames, m_map)

\* The pools of the table are the ones that exist, and a block has a pool of
\* the table if its invocation is indirect.
SamePools ==
  /\ thread_pools \subseteq Pools
  /\ handles = thread_pools /\ DOMAIN m_list = thread_pools
  /\ tpBlocks \in [Pools -> Seq(Names)]
  /\ \A n \in KnownNames :
       IF blocks[n].inv = "indirect" THEN blocks[n].tp \in thread_pools
                                     ELSE blocks[n].tp = None

\* A list of names and a list of addresses hold the blocks R, each once.
Hold(names, addrs, R, M) ==
  /\ Distinct(names) /\ Distinct(addrs)
  /\ \A i \in 1 .. Len(names) : names[i] \in R
  /\ \A i \in 1 .. Len(addrs) : \E n \in R : addrs[i] = M[n]
  /\ \A n \in R : /\ \E i \in 1 .. Len(names) : names[i] = n
                  /\ \E i \in 1 .. Len(addrs) : addrs[i] = M[n]

BlocksOf(q) == {n \in KnownNames : blocks[n].tp = q}

\* The Python list and the scheduler's list of a pool both hold its blocks.
SameTasks == \A q \in thread_pools : Hold(tpBlocks[q], m_list[q], BlocksOf(q), m_map)

\* No composition, no block and no pool.
NothingLeft == phase = "none" => thread_pools = {} /\ KnownNames = {}

Tables == SameBlocks /\ SameLinks /\ SamePools /\ SameTasks /\ NothingLeft

IInv == LinkInv /\ tidy \in BOOLEAN /\ (tidy => Tables)
-----------------------------------------------------------------------------
(* The links *)

LEMMA Wider ==
  ASSUME NEW S, NEW T, S \subseteq T, NEW s \in Seq(S)
  PROVE  s \in Seq(T)
OBVIOUS

LEMMA Entry ==
  ASSUME NEW S, NEW s \in Seq(S), NEW i \in 1 .. Len(s)
  PROVE  s[i] \in S
OBVIOUS

LEMMA LiveBorn ==
  ASSUME Addresses, NEW o \in Objs, Live(o)
  PROVE  o \in 1 .. born
BY MaxObjsAssumption DEF Addresses, Live, Contains, Objs

\* Blocks may be created and dropped: the gates of the ones that stay are as
\* they were, and the ones of a new block are empty.
LEMMA Survivors ==
  ASSUME LinkInv, destroy_unused,
         born' \in 0 .. MaxObjs, born <= born',
         m_map' \in [Names -> 0 .. born'],
         m_list' \in [DOMAIN m_list' -> Seq(1 .. born')],
         \A o \in 1 .. born : Live(o)' => Live(o)
  PROVE  LinkInv'
<1>0. born \in Nat /\ born' \in Nat /\ 1 .. born \subseteq 1 .. born'
  BY MaxObjsAssumption DEF LinkInv, Addresses
<1>1. /\ outPeers \in [Objs -> Seq(1 .. born)]
      /\ inPeers \in [Objs -> Seq(1 .. born)]
  BY DEF LinkInv, Addresses
<1>2. ASSUME NEW o \in Objs
      PROVE  /\ outPeers'[o] = IF Live(o)' THEN outPeers[o] ELSE <<>>
             /\ inPeers'[o] = IF Live(o)' THEN inPeers[o] ELSE <<>>
  BY DEF destroy_unused
<1>3. ASSUME NEW o \in Objs
      PROVE  outPeers'[o] \in Seq(1 .. born) /\ inPeers'[o] \in Seq(1 .. born)
  <2>1. <<>> \in Seq(1 .. born)
    OBVIOUS
  <2> QED BY <1>1, <1>2, <2>1, Zenon
<1>4. Addresses'
  <2>1. ASSUME NEW o \in Objs
        PROVE  outPeers'[o] \in Seq(1 .. born') /\ inPeers'[o] \in Seq(1 .. born')
    BY <1>0, <1>3, Wider, Zenon
  <2>2. outPeers' \in [Objs -> Seq(1 .. born')] /\ inPeers' \in [Objs -> Seq(1 .. born')]
    BY <2>1, Zenon DEF destroy_unused
  <2> QED BY <2>2 DEF Addresses
<1>5. DeadHasNoGates'
  BY <1>2, Zenon DEF DeadHasNoGates
<1>6. ASSUME NEW o \in Objs, o \notin 1 .. born
      PROVE  outPeers'[o] = <<>> /\ inPeers'[o] = <<>>
  <2>1. ~Live(o)
    BY <1>6, LiveBorn, Zenon DEF LinkInv
  <2>2. outPeers[o] = <<>> /\ inPeers[o] = <<>>
    BY <2>1, Zenon DEF LinkInv, DeadHasNoGates
  <2> QED BY <1>2, <2>2, Zenon
<1>7. ASSUME NEW o \in Objs, NEW x, x \notin 1 .. born
      PROVE  Times(outPeers'[o], x) = 0 /\ Times(inPeers'[o], x) = 0
  <2>1. PICK s \in Seq(1 .. born), t \in Seq(1 .. born) : s = outPeers'[o] /\ t = inPeers'[o]
    BY <1>3, Zenon
  <2>4. /\ \A i \in 1 .. Len(s) : s[i] \in 1 .. born
        /\ \A i \in 1 .. Len(t) : t[i] \in 1 .. born
    BY Entry, Zenon
  <2>2. (\A i \in 1 .. Len(s) : s[i] # x) /\ (\A i \in 1 .. Len(t) : t[i] # x)
    BY <1>7, <2>4, Zenon
  <2>3. Times(s, x) = 0 /\ Times(t, x) = 0
    BY <2>2, TimesZero, Zenon
  <2> QED BY <2>1, <2>3, Zenon
<1>8. \A x : Times(<<>>, x) = 0
  <2>1. <<>> \in Seq(1 .. born) /\ \A x : \A i \in 1 .. Len(<<>>) : <<>>[i] # x
    OBVIOUS
  <2> QED BY <2>1, TimesZero, Zenon
<1>9. ASSUME NEW o \in Objs, NEW x \in Objs, Live(o)', Live(x)'
      PROVE  Times(outPeers'[o], x) = Times(inPeers'[x], o)
  <2>1. CASE o \in 1 .. born /\ x \in 1 .. born
    <3>1. Live(o) /\ Live(x)
      BY <1>9, <2>1, Zenon
    <3>2. Times(outPeers[o], x) = Times(inPeers[x], o)
      BY <3>1, Zenon DEF LinkInv, LinksHaveTwoEnds
    <3> QED BY <1>2, <1>9, <3>2, Zenon
  <2>2. CASE o \notin 1 .. born
    BY <1>6, <1>7, <1>8, <2>2, Zenon
  <2>3. CASE x \notin 1 .. born
    BY <1>6, <1>7, <1>8, <2>3, Zenon
  <2> QED BY <2>1, <2>2, <2>3, Zenon
<1> QED BY <1>4, <1>5, <1>9, Zenon DEF LinkInv, LinksHaveTwoEnds

\* The lists L hold addresses up to b, and of the older ones only live blocks.
Held(L, b) ==
  /\ L \in [DOMAIN L -> Seq(1 .. b)]
  /\ \A q \in DOMAIN L : \A i \in 1 .. Len(L[q]) : L[q][i] \in 1 .. born => Live(L[q][i])

LEMMA HeldNow ==
  ASSUME LinkInv
  PROVE  Held(m_list, born)
BY DEF LinkInv, Addresses, Held, Live, Contains

LEMMA HeldWider ==
  ASSUME born \in Nat, NEW L, Held(L, born)
  PROVE  Held(L, born + 1)
<1>1. 1 .. born \subseteq 1 .. born + 1
  OBVIOUS
<1>2. ASSUME NEW q \in DOMAIN L PROVE L[q] \in Seq(1 .. born + 1)
  <2>1. PICK s \in Seq(1 .. born) : s = L[q]
    BY Zenon DEF Held
  <2>2. s \in Seq(1 .. born + 1)
    BY <1>1, Wider, Zenon
  <2> QED BY <2>1, <2>2, Zenon
<1>3. L = [q \in DOMAIN L |-> L[q]]
  BY DEF Held
<1>4. L \in [DOMAIN L -> Seq(1 .. born + 1)]
  BY <1>2, <1>3
<1> QED BY <1>4, Zenon DEF Held

LEMMA HeldAppend ==
  ASSUME NEW L, NEW b \in Nat, Held(L, b), NEW q, NEW o \in 1 .. b, o \in 1 .. born => Live(o)
  PROVE  Held([L EXCEPT ![q] = Append(@, o)], b)
<1>1. PICK M : M = [L EXCEPT ![q] = Append(@, o)]
  BY Zenon
<1>2. DOMAIN M = DOMAIN L /\ M = [x \in DOMAIN M |-> M[x]]
  BY <1>1, Zenon
<1>3. ASSUME NEW x \in DOMAIN M
      PROVE  /\ M[x] \in Seq(1 .. b)
             /\ \A i \in 1 .. Len(M[x]) : M[x][i] \in 1 .. born => Live(M[x][i])
  <2>1. PICK s \in Seq(1 .. b) : s = L[x]
    BY <1>2, Zenon DEF Held
  <2>2. \A i \in 1 .. Len(s) : s[i] \in 1 .. born => Live(s[i])
    BY <1>2, <2>1, Zenon DEF Held
  <2>3. CASE x # q
    <3>1. M[x] = s
      BY <1>1, <1>2, <2>1, <2>3
    <3> QED BY <2>2, <3>1, Zenon
  <2>4. CASE x = q
    <3>1. Append(s, o) \in Seq(1 .. b)
      OBVIOUS
    <3>2. PICK t \in Seq(1 .. b) : t = Append(s, o)
      BY <3>1, Zenon
    <3>3. M[x] = t
      BY <1>1, <1>2, <2>1, <2>4, <3>2
    <3>4. \A i \in 1 .. Len(t) : t[i] = o \/ \E j \in 1 .. Len(s) : t[i] = s[j]
      BY <3>2
    <3>5. \A i \in 1 .. Len(t) : t[i] \in 1 .. born => Live(t[i])
      BY <2>2, <3>4, Zenon
    <3> QED BY <3>3, <3>5, Zenon
  <2> QED BY <2>3, <2>4, Zenon
<1>4. M \in [DOMAIN M -> Seq(1 .. b)]
  BY <1>2, <1>3
<1>5. Held(M, b)
  BY <1>3, <1>4, Zenon DEF Held
<1> QED BY <1>1, <1>5, Zenon

LEMMA HeldDrop ==
  ASSUME NEW L, NEW b, Held(L, b), NEW M, M = [q \in DOMAIN M |-> M[q]],
         DOMAIN M \subseteq DOMAIN L,
         \A q \in DOMAIN M : M[q] = L[q] \/ \E D : M[q] = Drop(L[q], D)
  PROVE  Held(M, b)
<1>1. ASSUME NEW x \in DOMAIN M
      PROVE  /\ M[x] \in Seq(1 .. b)
             /\ \A i \in 1 .. Len(M[x]) : M[x][i] \in 1 .. born => Live(M[x][i])
  <2>1. PICK s \in Seq(1 .. b) : s = L[x]
    BY Zenon DEF Held
  <2>2. \A i \in 1 .. Len(s) : s[i] \in 1 .. born => Live(s[i])
    BY <2>1, Zenon DEF Held
  <2>3. CASE M[x] = s
    BY <2>2, <2>3, Zenon
  <2>4. CASE \E D : M[x] = Drop(s, D)
    <3>1. PICK D : M[x] = Drop(s, D)
      BY <2>4, Zenon
    <3>2. Drop(s, D) \in Seq(1 .. b)
      BY DropPlaces, Zenon
    <3>3. ASSUME NEW i \in 1 .. Len(Drop(s, D))
          PROVE  \E j \in 1 .. Len(s) : s[j] = Drop(s, D)[i]
      <4>1. PICK h : Keeps(h, Drop(s, D), s, D, Len(s))
        BY DropPlaces, Zenon
      <4> QED BY <4>1 DEF Keeps
    <3>4. ASSUME NEW i \in 1 .. Len(Drop(s, D)), Drop(s, D)[i] \in 1 .. born
          PROVE  Live(Drop(s, D)[i])
      BY <2>2, <3>3, <3>4, Zenon
    <3> QED BY <3>1, <3>2, <3>4, Zenon
  <2> QED BY <2>1, <2>3, <2>4, Zenon
<1>2. M \in [DOMAIN M -> Seq(1 .. b)]
  BY <1>1
<1> QED BY <1>1, <1>2, Zenon DEF Held

\* What is left of the lists and the directory of a step that settles.
LEMMA KeptLinks ==
  ASSUME LinkInv, destroy_unused,
         born' \in 0 .. MaxObjs, born <= born',
         m_map' \in [Names -> 0 .. born'],
         \A n \in Names : m_map'[n] \in 1 .. born => Live(m_map'[n]),
         NEW L, NEW b, b = born', m_list' = L, Held(L, b)
  PROVE  LinkInv'
<1>1. m_list' \in [DOMAIN m_list' -> Seq(1 .. born')]
  BY Zenon DEF Held
<1>2. ASSUME NEW o \in 1 .. born, Live(o)' PROVE Live(o)
  <2>1. CASE \E n \in Names : m_map'[n] = o
    BY <2>1, Zenon
  <2>2. CASE \E q \in DOMAIN L : Contains(L[q], o)
    BY <2>2, Zenon DEF Held, Contains
  <2> QED BY <1>2, <2>1, <2>2, Zenon DEF Live
<1> QED BY <1>1, <1>2, Survivors, Zenon

\* Steps that leave the addresses alone.
LEMMA SameLinkInv ==
  ASSUME LinkInv, UNCHANGED <<m_map, born, outPeers, inPeers, m_list>>
  PROVE  LinkInv'
<1>1. \A o : Live(o)' <=> Live(o)
  BY DEF Live
<1>2. Addresses'
  BY DEF LinkInv, Addresses
<1> QED BY <1>1, <1>2, Zenon DEF LinkInv, DeadHasNoGates, LinksHaveTwoEnds

LEMMA SettleLinks ==
  ASSUME LinkInv, NEW lists, Settle(lists), NEW b, b = born', Held(lists, b),
         born' \in 0 .. MaxObjs, born <= born',
         m_map' \in [Names -> 0 .. born'],
         \A n \in Names : m_map'[n] \in 1 .. born => Live(m_map'[n])
  PROVE  LinkInv'
<1>1. PICK L, E : L = m_list' /\ L = [q \in DOMAIN lists \ E |-> lists[q]]
  BY Zenon DEF Settle
<1>2. /\ L = [q \in DOMAIN L |-> L[q]] /\ DOMAIN L \subseteq DOMAIN lists
      /\ \A q \in DOMAIN L : L[q] = lists[q]
  BY <1>1
<1>3. Held(L, b)
  BY <1>2, HeldDrop, Zenon
<1>4. destroy_unused
  BY Zenon DEF Settle
<1> QED BY <1>1, <1>3, <1>4, KeptLinks, Zenon

LEMMA LinkTypes ==
  ASSUME LinkInv
  PROVE  /\ born \in Nat /\ born \in 0 .. MaxObjs
         /\ m_map \in [Names -> 0 .. born]
         /\ \A n \in Names : m_map[n] \in 1 .. born => Live(m_map[n])
         /\ \A n \in Names : Has(n) => m_map[n] \in 1 .. born /\ m_map[n] \in Objs
BY MaxObjsAssumption DEF LinkInv, Addresses, Live, Has, NoObj, Objs

-----------------------------------------------------------------------------
(* One lemma per operation that changes the addresses *)

LEMMA CreatePoolLinks ==
  ASSUME LinkInv, NEW q, create_pool(q)
  PROVE  LinkInv'
<1>1. /\ UNCHANGED <<m_map, born, outPeers, inPeers>>
      /\ DOMAIN m_list' = DOMAIN m_list \cup {q}
      /\ m_list' = [x \in DOMAIN m_list' |-> m_list'[x]]
      /\ \A x \in DOMAIN m_list' : m_list'[x] = IF x = q THEN <<>> ELSE m_list[x]
  BY DEF create_pool, dirVars, linkVars
<1>2. <<>> \in Seq(1 .. born)
  OBVIOUS
<1>3. ASSUME NEW x \in DOMAIN m_list' PROVE m_list'[x] \in Seq(1 .. born)
  BY <1>1, <1>2, Zenon DEF LinkInv, Addresses
<1>4. m_list' \in [DOMAIN m_list' -> Seq(1 .. born)]
  BY <1>1, <1>3
<1>5. Addresses'
  BY <1>1, <1>4 DEF LinkInv, Addresses
<1>6. q \notin DOMAIN m_list
  BY DEF create_pool
<1>7. \A o : ~Contains(<<>>, o)
  BY DEF Contains
<1>8. ASSUME NEW o
      PROVE  (\E x \in DOMAIN m_list' : Contains(m_list'[x], o)) <=>
             (\E x \in DOMAIN m_list : Contains(m_list[x], o))
  BY <1>1, <1>6, <1>7, Zenon
<1>9. \A o : Live(o)' <=> Live(o)
  BY <1>1, <1>8, Zenon DEF Live
<1> QED BY <1>1, <1>5, <1>9, Zenon DEF LinkInv, DeadHasNoGates, LinksHaveTwoEnds

LEMMA DeletePoolLinks ==
  ASSUME LinkInv, NEW q, delete_pool(q)
  PROVE  LinkInv'
<1>1. PICK L, b : L = m_list /\ b = born'
  OBVIOUS
<1>2. Settle(L) /\ m_map' = m_map /\ born' = born
  BY <1>1, Zenon DEF delete_pool, dirVars
<1>3. Held(L, b)
  BY <1>1, <1>2, HeldNow, Zenon
<1>4. born <= born' /\ born' \in 0 .. MaxObjs
  BY <1>2, LinkTypes
<1>5. m_map' \in [Names -> 0 .. born'] /\ \A n \in Names : m_map'[n] \in 1 .. born => Live(m_map'[n])
  BY <1>2, LinkTypes, Zenon
<1> QED BY <1>1, <1>2, <1>3, <1>4, <1>5, SettleLinks, Zenon

LEMMA NewBlockLinks ==
  ASSUME LinkInv, NEW n \in Names, NEW inv, NEW q, new_block(n, inv, q)
  PROVE  LinkInv'
<1>1. PICK L, b : L = (IF q = None THEN m_list ELSE WithTask(q, born + 1)) /\ b = born'
  OBVIOUS
<1>2. Settle(L) /\ create_block(n, inv)
  BY <1>1, Zenon DEF new_block
<1>3. /\ b = born + 1 /\ b \in Nat /\ b \in 1 .. b /\ b \notin 1 .. born
      /\ born <= born' /\ born' \in 0 .. MaxObjs
  BY <1>1, <1>2, LinkTypes, MaxObjsAssumption DEF create_block
<1>4. Held(m_list, b)
  BY <1>3, HeldNow, HeldWider, LinkTypes, Zenon
<1>5. Held([m_list EXCEPT ![q] = Append(@, b)], b)
  BY <1>3, <1>4, HeldAppend, Zenon
<1>6. Held(L, b)
  BY <1>1, <1>3, <1>4, <1>5, Zenon DEF WithTask
<1>7. /\ m_map' \in [Names -> 0 .. born']
      /\ \A k \in Names : m_map'[k] = m_map[k] \/ m_map'[k] = b
  BY <1>1, <1>2, <1>3, LinkTypes DEF create_block
<1>8. \A k \in Names : m_map'[k] \in 1 .. born => Live(m_map'[k])
  BY <1>3, <1>7, LinkTypes, Zenon
<1> QED BY <1>1, <1>2, <1>3, <1>6, <1>7, <1>8, SettleLinks, Zenon

\* What Block.remove leaves in the lists of the schedulers.
LEMMA HeldWithout ==
  ASSUME LinkInv, NEW n
  PROVE  Held(ListsWithout(n), born)
<1>1. PICK M : M = ListsWithout(n)
  OBVIOUS
<1>2. /\ M = [q \in DOMAIN M |-> M[q]] /\ DOMAIN M = DOMAIN m_list
      /\ \A q \in DOMAIN M : M[q] = m_list[q] \/ M[q] = Drop(m_list[q], {m_map[n]})
  BY <1>1, Zenon DEF ListsWithout, WithoutTask, Without, LinkInv, Addresses
<1>3. \A q \in DOMAIN M : M[q] = m_list[q] \/ \E D : M[q] = Drop(m_list[q], D)
  BY <1>2, Zenon
<1>4. Held(M, born)
  BY <1>2, <1>3, HeldNow, HeldDrop, Zenon
<1> QED BY <1>1, <1>4, Zenon

\* delete_block and the rest of Block.remove.
LEMMA RemoveLinks ==
  ASSUME LinkInv, NEW n, delete_block(n), Settle(ListsWithout(n))
  PROVE  LinkInv'
<1>1. PICK L, b : L = ListsWithout(n) /\ b = born'
  OBVIOUS
<1>2. b = born /\ born <= born' /\ born' \in 0 .. MaxObjs
  BY <1>1, LinkTypes DEF delete_block
<1>3. Held(L, b) /\ Settle(L)
  BY <1>1, <1>2, HeldWithout, Zenon
<1>4. /\ m_map' \in [Names -> 0 .. born']
      /\ \A k \in Names : m_map'[k] = m_map[k] \/ m_map'[k] \notin 1 .. born
  <2>1. m_map \in [Names -> 0 .. born] /\ born \in Nat
    BY LinkTypes
  <2>2. m_map' = [m_map EXCEPT ![n] = 0] /\ born' = born
    BY DEF delete_block, NoObj
  <2>3. /\ m_map' = [k \in Names |-> m_map'[k]]
        /\ \A k \in Names : m_map'[k] = IF k = n THEN 0 ELSE m_map[k]
    BY <2>1, <2>2, Zenon
  <2>4. 0 \in 0 .. born /\ 0 \notin 1 .. born
    BY <2>1
  <2>5. \A k \in Names : m_map'[k] \in 0 .. born /\ (m_map'[k] = m_map[k] \/ m_map'[k] \notin 1 .. born)
    BY <2>1, <2>3, <2>4, Zenon
  <2> QED BY <2>2, <2>3, <2>5, Zenon
<1>5. \A k \in Names : m_map'[k] \in 1 .. born => Live(m_map'[k])
  BY <1>4, LinkTypes, Zenon
<1> QED BY <1>1, <1>2, <1>3, <1>4, <1>5, SettleLinks, Zenon

LEMMA UpdatePoolLinks ==
  ASSUME LinkInv, NEW n \in Names, NEW inv, NEW q, update_pool(n, inv, q)
  PROVE  LinkInv'
<1>1. m_map' = m_map /\ born' = born
  BY Zenon DEF update_pool, dirVars
<1>2. CASE m_list' = m_list /\ linkVars' = linkVars
  <2>1. outPeers' = outPeers /\ inPeers' = inPeers
    BY <1>2, Zenon DEF linkVars
  <2> QED BY <1>1, <1>2, <2>1, SameLinkInv, Zenon
<1>3. CASE Has(n) /\ \E p : \/ Settle(WithTask(p, m_map[n]))
                            \/ Settle([WithTask(p, m_map[n]) EXCEPT ![q] = Without(@, m_map[n])])
  <2>1. PICK p, L, M, b, o : /\ o = m_map[n] /\ b = born'
                             /\ L = [m_list EXCEPT ![p] = Append(@, o)]
                             /\ M = [L EXCEPT ![q] = Drop(@, {o})]
                             /\ Settle(L) \/ Settle(M)
    BY <1>3, Zenon DEF WithTask, Without
  <2>2. o \in 1 .. born /\ b = born /\ b \in Nat /\ Live(o)
    BY <1>1, <1>3, <2>1, LinkTypes
  <2>3. Held(L, b)
    BY <2>1, <2>2, HeldNow, HeldAppend, Zenon
  <2>4. L = [x \in DOMAIN L |-> L[x]]
    BY <2>3 DEF Held
  <2>5. /\ M = [x \in DOMAIN M |-> M[x]] /\ DOMAIN M = DOMAIN L
        /\ \A x \in DOMAIN M : M[x] = L[x] \/ M[x] = Drop(L[x], {o})
    BY <2>1, <2>4, Zenon
  <2>6. \A x \in DOMAIN M : M[x] = L[x] \/ \E D : M[x] = Drop(L[x], D)
    BY <2>5, Zenon
  <2>7. Held(M, b)
    BY <2>3, <2>5, <2>6, HeldDrop, Zenon
  <2>8. born <= born' /\ born' \in 0 .. MaxObjs
    BY <1>1, LinkTypes
  <2>9. /\ m_map' \in [Names -> 0 .. born']
        /\ \A k \in Names : m_map'[k] \in 1 .. born => Live(m_map'[k])
    BY <1>1, LinkTypes, Zenon
  <2>10. CASE Settle(L)
    BY <2>1, <2>3, <2>8, <2>9, <2>10, SettleLinks, Zenon
  <2>11. CASE Settle(M)
    BY <2>1, <2>7, <2>8, <2>9, <2>11, SettleLinks, Zenon
  <2> QED BY <2>1, <2>10, <2>11, Zenon
<1> QED BY <1>2, <1>3, Zenon DEF update_pool

\* What CompositionManager.remove leaves in them.
LEMMA HeldWithoutAll ==
  ASSUME LinkInv, NEW S, NEW L, L = [q \in DOMAIN L |-> L[q]], DOMAIN L \subseteq DOMAIN m_list,
         \A q \in DOMAIN L : L[q] = ListsWithoutAll(S)[q]
  PROVE  Held(L, born)
<1>1. ASSUME NEW q \in DOMAIN L PROVE \E D : L[q] = Drop(m_list[q], D)
  <2>1. PICK D : D = {m_map[n] : n \in {x \in S : blocks[x].inv = "indirect" /\ blocks[x].tp = q}}
    BY Zenon
  <2>2. ListsWithoutAll(S)[q] = Drop(m_list[q], D)
    BY <2>1 DEF ListsWithoutAll
  <2> QED BY <2>2, Zenon
<1>2. \A q \in DOMAIN L : L[q] = m_list[q] \/ \E D : L[q] = Drop(m_list[q], D)
  BY <1>1, Zenon
<1>3. Held(m_list, born)
  BY HeldNow, Zenon
<1> QED BY <1>2, <1>3, HeldDrop, SMT

\* CompositionManager.remove takes some names out of the directory and their
\* blocks out of the lists.
LEMMA RemoveAllLinks ==
  ASSUME LinkInv, destroy_unused, born' = born,
         m_map' = [n \in Names |-> m_map'[n]],
         \A n \in Names : m_map'[n] \in {NoObj, m_map[n]},
         NEW S, NEW P, m_list' = [q \in DOMAIN m_list \ P |-> ListsWithoutAll(S)[q]]
  PROVE  LinkInv'
<1>1. PICK L, b : L = m_list' /\ b = born
  OBVIOUS
<1>2. /\ L = [q \in DOMAIN L |-> L[q]] /\ DOMAIN L \subseteq DOMAIN m_list
      /\ \A q \in DOMAIN L : L[q] = ListsWithoutAll(S)[q]
  BY <1>1
<1>4. Held(L, b)
  BY <1>1, <1>2, HeldWithoutAll, Zenon
<1>5. /\ m_map \in [Names -> 0 .. born] /\ born \in Nat
      /\ born <= born' /\ born' \in 0 .. MaxObjs
      /\ NoObj \in 0 .. born /\ NoObj \notin 1 .. born
  BY LinkTypes DEF NoObj
<1>6. \A n \in Names : /\ m_map'[n] \in 0 .. born
                       /\ m_map'[n] = m_map[n] \/ m_map'[n] \notin 1 .. born
  BY <1>5, Zenon
<1>7. m_map' \in [Names -> 0 .. born']
  BY <1>6
<1>8. \A n \in Names : m_map'[n] \in 1 .. born => Live(m_map'[n])
  BY <1>6, LinkTypes, Zenon
<1> QED BY <1>1, <1>4, <1>5, <1>7, <1>8, KeptLinks, Zenon

LEMMA StopLinks ==
  ASSUME LinkInv, stop_composition
  PROVE  LinkInv'
<1>1. PICK S, P : m_list' = [q \in DOMAIN m_list \ P |-> ListsWithoutAll(S)[q]]
  BY Zenon DEF stop_composition
<1>2. /\ destroy_unused /\ born' = born
      /\ m_map' = [n \in Names |-> m_map'[n]]
      /\ \A n \in Names : m_map'[n] \in {NoObj, m_map[n]}
  BY DEF stop_composition
<1> QED BY <1>1, <1>2, RemoveAllLinks, Zenon

LEMMA StopThrownLinks ==
  ASSUME LinkInv, NEW n, NEW S, stop_thrown(n, S)
  PROVE  LinkInv'
<1>1. m_list' = [q \in DOMAIN m_list \ {} |-> ListsWithoutAll(S)[q]]
  BY Zenon DEF stop_thrown, ListsWithoutAll
<1>2. /\ destroy_unused /\ born' = born
      /\ m_map' = [x \in Names |-> m_map'[x]]
      /\ \A x \in Names : m_map'[x] \in {NoObj, m_map[x]}
  BY Zenon DEF stop_thrown
<1> QED BY <1>1, <1>2, RemoveAllLinks, Zenon

\* push_back at both ends of a link.
LEMMA ConnectLinks ==
  ASSUME LinkInv, NEW a \in Names, NEW b \in Names, connect(a, b)
  PROVE  LinkInv'
<1>1. PICK x, y : x = m_map[a] /\ y = m_map[b]
  OBVIOUS
<1>2. /\ UNCHANGED <<m_map, born, m_list>> /\ Has(a) /\ Has(b)
      /\ outPeers' = [outPeers EXCEPT ![x] = Append(@, y)]
      /\ inPeers' = [inPeers EXCEPT ![y] = Append(@, x)]
  BY <1>1 DEF connect, create_connection, OutConnect, InConnect, dirVars
<1>3. /\ outPeers \in [Objs -> Seq(1 .. born)] /\ inPeers \in [Objs -> Seq(1 .. born)]
      /\ x \in 1 .. born /\ y \in 1 .. born /\ x \in Objs /\ y \in Objs /\ Live(x) /\ Live(y)
  BY <1>1, <1>2, LinkTypes DEF LinkInv, Addresses
<1>4. /\ outPeers' = [o \in Objs |-> IF o = x THEN Append(outPeers[o], y) ELSE outPeers[o]]
      /\ inPeers' = [o \in Objs |-> IF o = y THEN Append(inPeers[o], x) ELSE inPeers[o]]
  BY <1>2, <1>3, Zenon
<1>5. /\ outPeers' \in [Objs -> Seq(1 .. born)]
      /\ inPeers' \in [Objs -> Seq(1 .. born)]
  <2>1. ASSUME NEW o \in Objs
        PROVE  outPeers'[o] \in Seq(1 .. born) /\ inPeers'[o] \in Seq(1 .. born)
    <3>1. PICK s \in Seq(1 .. born), t \in Seq(1 .. born) : s = outPeers[o] /\ t = inPeers[o]
      BY <1>3
    <3>2. Append(s, y) \in Seq(1 .. born) /\ Append(t, x) \in Seq(1 .. born)
      BY <1>3
    <3> QED BY <1>4, <3>1, <3>2, Zenon
  <2> QED BY <1>4, <2>1
<1>6. Addresses'
  BY <1>2, <1>5 DEF LinkInv, Addresses
<1>7. \A o : Live(o)' <=> Live(o)
  BY <1>2 DEF Live
<1>8. DeadHasNoGates'
  BY <1>3, <1>4, <1>7 DEF LinkInv, DeadHasNoGates
<1>9. ASSUME NEW o \in Objs, NEW z \in Objs, Live(o)', Live(z)'
      PROVE  Times(outPeers'[o], z) = Times(inPeers'[z], o)
  <2>1. Times(outPeers[o], z) = Times(inPeers[z], o)
    BY <1>7, <1>9, Zenon DEF LinkInv, LinksHaveTwoEnds
  <2>2. PICK S : \E s, t \in Seq(S) : s = outPeers[o] /\ t = inPeers[z] /\ x \in S /\ y \in S
    BY <1>3, Zenon
  <2>6. PICK s, t \in Seq(S) : s = outPeers[o] /\ t = inPeers[z] /\ x \in S /\ y \in S
    BY <2>2, Zenon
  <2>3. Times(Append(s, y), z) = IF z = y THEN Times(s, z) + 1 ELSE Times(s, z)
    BY <2>6, AppendTimes, SMT
  <2>5. Times(Append(t, x), o) = IF o = x THEN Times(t, o) + 1 ELSE Times(t, o)
    BY <2>6, AppendTimes, SMT
  <2>4. /\ outPeers'[o] = IF o = x THEN Append(s, y) ELSE s
        /\ inPeers'[z] = IF z = y THEN Append(t, x) ELSE t
    BY <1>4, <2>6
  <2> QED BY <2>1, <2>6, <2>3, <2>4, <2>5, Zenon
<1> QED BY <1>6, <1>8, <1>9, Zenon DEF LinkInv, LinksHaveTwoEnds

\* std::remove at both ends of a link.
LEMMA DisconnectLinks ==
  ASSUME LinkInv, NEW a \in Names, NEW b \in Names, disconnect(a, b)
  PROVE  LinkInv'
<1>1. PICK x, y : x = m_map[a] /\ y = m_map[b]
  OBVIOUS
<1>2. /\ UNCHANGED <<m_map, born, m_list>> /\ Has(a) /\ Has(b)
      /\ outPeers' = [outPeers EXCEPT ![x] = Drop(@, {y})]
      /\ inPeers' = [inPeers EXCEPT ![y] = Drop(@, {x})]
  BY <1>1 DEF disconnect, delete_connection, OutDisconnect, InDisconnect, Without, dirVars
<1>3. /\ outPeers \in [Objs -> Seq(1 .. born)] /\ inPeers \in [Objs -> Seq(1 .. born)]
      /\ x \in Objs /\ y \in Objs /\ Live(x) /\ Live(y)
  BY <1>1, <1>2, LinkTypes DEF LinkInv, Addresses
<1>4. /\ outPeers' = [o \in Objs |-> IF o = x THEN Drop(outPeers[o], {y}) ELSE outPeers[o]]
      /\ inPeers' = [o \in Objs |-> IF o = y THEN Drop(inPeers[o], {x}) ELSE inPeers[o]]
  BY <1>2, <1>3, Zenon
<1>5. ASSUME NEW o \in Objs
      PROVE  outPeers'[o] \in Seq(1 .. born) /\ inPeers'[o] \in Seq(1 .. born)
  <2>1. PICK s \in Seq(1 .. born), t \in Seq(1 .. born) : s = outPeers[o] /\ t = inPeers[o]
    BY <1>3
  <2>2. Drop(s, {y}) \in Seq(1 .. born) /\ Drop(t, {x}) \in Seq(1 .. born)
    BY DropPlaces, Zenon
  <2> QED BY <1>4, <2>1, <2>2, Zenon
<1>6. Addresses'
  <2>1. outPeers' \in [Objs -> Seq(1 .. born)] /\ inPeers' \in [Objs -> Seq(1 .. born)]
    BY <1>4, <1>5, Zenon
  <2> QED BY <1>2, <2>1 DEF LinkInv, Addresses
<1>7. \A o : Live(o)' <=> Live(o)
  BY <1>2 DEF Live
<1>8. DeadHasNoGates'
  BY <1>3, <1>4, <1>7 DEF LinkInv, DeadHasNoGates
<1>9. ASSUME NEW o \in Objs, NEW z \in Objs, Live(o)', Live(z)'
      PROVE  Times(outPeers'[o], z) = Times(inPeers'[z], o)
  <2>1. Times(outPeers[o], z) = Times(inPeers[z], o)
    BY <1>7, <1>9, Zenon DEF LinkInv, LinksHaveTwoEnds
  <2>2. PICK s \in Seq(1 .. born), t \in Seq(1 .. born) : s = outPeers[o] /\ t = inPeers[z]
    BY <1>3
  <2>3. PICK D, E : D = {y} /\ E = {x}
    BY Zenon
  <2>4. Times(Drop(s, D), z) = IF z \in D THEN 0 ELSE Times(s, z)
    BY DropTimes, SMT
  <2>7. Times(Drop(t, E), o) = IF o \in E THEN 0 ELSE Times(t, o)
    BY DropTimes, SMT
  <2>5. /\ outPeers'[o] = IF o = x THEN Drop(s, D) ELSE s
        /\ inPeers'[z] = IF z = y THEN Drop(t, E) ELSE t
    BY <1>4, <2>2, <2>3
  <2>6. (z \in D <=> z = y) /\ (o \in E <=> o = x)
    BY <2>3
  <2> QED BY <2>1, <2>2, <2>4, <2>5, <2>6, <2>7, Zenon
<1> QED BY <1>6, <1>8, <1>9, Zenon DEF LinkInv, LinksHaveTwoEnds

-----------------------------------------------------------------------------
(* LinkInv is inductive *)

LEMMA LinkStep ==
  ASSUME LinkInv, [Next]_vars
  PROVE  LinkInv'
<1>1. CASE UNCHANGED <<m_map, born, outPeers, inPeers, m_list>>
  BY <1>1, SameLinkInv, Zenon
<1>2. CASE \/ start_composition \/ installed \/ update_composition \/ next_section \/ updated
           \/ refused \/ update_accepted \/ UNCHANGED vars
           \/ \E n \in Names : delete_thrown(n)
  BY <1>1, <1>2 DEF start_composition, installed, update_composition, next_section, updated,
       refused, update_accepted, delete_thrown, init_composition, set_invocation,
       vars, cppVars, linkVars
<1>3. CASE stop_composition
  BY <1>3, StopLinks, Zenon
<1>4. ASSUME NEW q \in Pools, create_pool(q) \/ delete_pool(q) PROVE LinkInv'
  BY <1>4, CreatePoolLinks, DeletePoolLinks, Zenon
<1>5. ASSUME NEW n \in Names, NEW inv \in Invocations, NEW q \in Pools \cup {None},
             new_block(n, inv, q) \/ update_pool(n, inv, q)
      PROVE  LinkInv'
  BY <1>5, NewBlockLinks, UpdatePoolLinks, Zenon
<1>6. ASSUME NEW n \in Names, delete(n) PROVE LinkInv'
  <2>1. delete_block(n) /\ Settle(ListsWithout(n))
    BY <1>6, Zenon DEF delete
  <2> QED BY <2>1, RemoveLinks, Zenon
<1>7. ASSUME NEW l \in Links, connect(l[1], l[2]) \/ disconnect(l[1], l[2]) PROVE LinkInv'
  <2>1. l[1] \in Names /\ l[2] \in Names
    BY LinksAssumption
  <2> QED BY <1>7, <2>1, ConnectLinks, DisconnectLinks, Zenon
<1>8. CASE update_vetoed
  <2>1. CASE Removable(target)
    <3>1. delete_block(target) /\ Settle(ListsWithout(target))
      BY <1>8, <2>1, Zenon DEF update_vetoed
    <3> QED BY <3>1, RemoveLinks, Zenon
  <2>2. CASE ~Removable(target)
    BY <1>1, <1>8, <2>2 DEF update_vetoed, set_invocation, linkVars
  <2> QED BY <2>1, <2>2, Zenon
<1>9. ASSUME NEW n \in Names, NEW S \in SUBSET (Names \ {n}), stop_thrown(n, S) PROVE LinkInv'
  BY <1>9, StopThrownLinks, Zenon
<1> QED BY <1>2, <1>3, <1>4, <1>5, <1>6, <1>7, <1>8, <1>9, Zenon DEF Next

LEMMA LinkInit ==
  ASSUME Init
  PROVE  LinkInv
<1>1. Addresses /\ \A o \in Objs : outPeers[o] = <<>> /\ inPeers[o] = <<>>
  BY MaxObjsAssumption DEF Init, CppInit, Addresses, NoObj
<1>2. \A o \in Objs : ~Live(o)
  BY DEF Init, CppInit, Live, NoObj, Objs
<1> QED BY <1>1, <1>2, Zenon DEF LinkInv, DeadHasNoGates, LinksHaveTwoEnds

\* Composition::create_link, delete_link and the gates: as often as a live block
\* sends to another one, the other one has it as a peer, whatever blocks were
\* replaced, destroyed or rebuilt, and wherever a request broke off.
THEOREM TwoEnds == Spec => []LinksHaveTwoEnds
<1>1. Init => LinkInv
  BY LinkInit
<1>2. LinkInv /\ [Next]_vars => LinkInv'
  BY LinkStep
<1>3. LinkInv => LinksHaveTwoEnds
  BY DEF LinkInv
<1> QED BY <1>1, <1>2, <1>3, PTL DEF Spec

-----------------------------------------------------------------------------
(* Lists of names and lists of addresses *)

LEMMA PeersSame ==
  ASSUME NEW ns, NEW os, NEW K, NEW M, Peers(ns, os, K, M), NEW L, NEW W,
         \A i \in 1 .. Len(ns) : ns[i] \in L /\ W[ns[i]] = M[ns[i]]
  PROVE  Peers(ns, os, L, W)
BY Zenon DEF Peers

LEMMA PeersGrow ==
  ASSUME NEW N, NEW A, NEW ns \in Seq(N), NEW os \in Seq(A), NEW K, NEW M, Peers(ns, os, K, M),
         NEW b \in N, b \in K, M[b] \in A, \A i \in 1 .. Len(ns) : ns[i] # b
  PROVE  Peers(Append(ns, b), Append(os, M[b]), K, M)
<1>1. Append(ns, b) \in Seq(N) /\ Append(os, M[b]) \in Seq(A)
  OBVIOUS
<1>2. PICK w \in Seq(N), v \in Seq(A) : w = Append(ns, b) /\ v = Append(os, M[b])
  BY <1>1, Zenon
<1>3. Distinct(w)
  BY <1>2, AppendDistinct, Zenon DEF Peers
<1>4. Len(os) = Len(ns) /\ \A i \in 1 .. Len(ns) : ns[i] \in K /\ os[i] = M[ns[i]]
  BY Zenon DEF Peers
<1>5. Len(v) = Len(w)
  BY <1>2, <1>4
<1>6. ASSUME NEW i \in 1 .. Len(w) PROVE w[i] \in K /\ v[i] = M[w[i]]
  <2>1. CASE i \in 1 .. Len(ns)
    <3>1. w[i] = ns[i] /\ v[i] = os[i]
      BY <1>2, <1>4, <2>1
    <3> QED BY <1>4, <2>1, <3>1, Zenon
  <2>2. CASE i = Len(ns) + 1
    <3>1. w[i] = b /\ v[i] = M[b]
      BY <1>2, <1>4, <2>2
    <3> QED BY <3>1, Zenon
  <2>3. i \in 1 .. Len(ns) \/ i = Len(ns) + 1
    BY <1>2
  <2> QED BY <2>1, <2>2, <2>3, Zenon
<1>7. Peers(w, v, K, M)
  BY <1>3, <1>5, <1>6, Zenon DEF Peers
<1> QED BY <1>2, <1>7, Zenon

LEMMA PeersShrink ==
  ASSUME NEW N, NEW A, NEW ns \in Seq(N), NEW os \in Seq(A), NEW K, NEW M, Peers(ns, os, K, M),
         \A x, y \in K : M[x] = M[y] => x = y, NEW k \in 1 .. Len(ns)
  PROVE  Peers(RemoveFirst(ns, ns[k]), Drop(os, {M[ns[k]]}), K, M)
<1>1. /\ Len(os) = Len(ns) /\ Distinct(ns)
      /\ \A i \in 1 .. Len(ns) : ns[i] \in K /\ os[i] = M[ns[i]]
  BY Zenon DEF Peers
<1>2. /\ k \in 1 .. Len(os) /\ os[k] = M[ns[k]]
      /\ \A i \in 1 .. Len(ns) : ns[i] = ns[k] => i = k
  BY <1>1, Zenon DEF Distinct
<1>3. \A i \in 1 .. Len(os) : os[i] = os[k] => i = k
  BY <1>1, <1>2
<1>4. PICK w, v : w = RemoveFirst(ns, ns[k]) /\ v = Drop(os, {os[k]})
  OBVIOUS
<1>5. /\ w \in Seq(N) /\ Len(w) = Len(ns) - 1
      /\ \A i \in 1 .. Len(ns) - 1 : w[i] = IF i < k THEN ns[i] ELSE ns[i + 1]
  BY <1>2, <1>4, RemoveOnce, Zenon
<1>6. /\ v \in Seq(A) /\ Len(v) = Len(os) - 1
      /\ \A i \in 1 .. Len(os) - 1 : v[i] = IF i < k THEN os[i] ELSE os[i + 1]
  BY <1>2, <1>3, <1>4, DropOnce, Zenon
<1>7. Distinct(w)
  BY <1>1, <1>4, RemoveLeft, Zenon DEF LeftOf
<1>8. Len(v) = Len(w) /\ Len(ns) \in Nat /\ k \in Nat
  BY <1>1, <1>5, <1>6
<1>9. ASSUME NEW i \in 1 .. Len(w) PROVE w[i] \in K /\ v[i] = M[w[i]]
  <2>1. PICK j \in 1 .. Len(ns) : w[i] = ns[j] /\ v[i] = os[j]
    <3>1. CASE i < k
      BY <1>1, <1>5, <1>6, <1>8, <3>1, SMTT(30)
    <3>2. CASE ~(i < k)
      BY <1>1, <1>5, <1>6, <1>8, <3>2, SMTT(30)
    <3> QED BY <3>1, <3>2
  <2> QED BY <1>1, <2>1, Zenon
<1>10. Peers(w, v, K, M)
  BY <1>7, <1>8, <1>9, Zenon DEF Peers
<1> QED BY <1>2, <1>4, <1>10, Zenon

LEMMA HoldSame ==
  ASSUME NEW names, NEW addrs, NEW R, NEW M, Hold(names, addrs, R, M), NEW W,
         \A n \in R : W[n] = M[n]
  PROVE  Hold(names, addrs, R, W)
<1>1. Distinct(names) /\ Distinct(addrs) /\ \A i \in 1 .. Len(names) : names[i] \in R
  BY DEF Hold
<1>2. ASSUME NEW i \in 1 .. Len(addrs) PROVE \E n \in R : addrs[i] = W[n]
  <2>1. PICK n \in R : addrs[i] = M[n]
    BY Zenon DEF Hold
  <2>2. W[n] = M[n]
    OBVIOUS
  <2> QED BY <2>1, <2>2, Zenon
<1>3. ASSUME NEW n \in R
      PROVE  (\E i \in 1 .. Len(names) : names[i] = n) /\ \E i \in 1 .. Len(addrs) : addrs[i] = W[n]
  <2>1. W[n] = M[n]
    OBVIOUS
  <2>2. (\E i \in 1 .. Len(names) : names[i] = n) /\ \E i \in 1 .. Len(addrs) : addrs[i] = M[n]
    BY Zenon DEF Hold
  <2> QED BY <2>1, <2>2, Zenon
<1> QED BY <1>1, <1>2, <1>3, Zenon DEF Hold

LEMMA HoldGrow ==
  ASSUME NEW N, NEW A, NEW names \in Seq(N), NEW addrs \in Seq(A), NEW R, NEW M,
         Hold(names, addrs, R, M), NEW n \in N, n \notin R, M[n] \in A, \A k \in R : M[k] # M[n]
  PROVE  Hold(Append(names, n), Append(addrs, M[n]), R \cup {n}, M)
<1>1. Append(names, n) \in Seq(N) /\ Append(addrs, M[n]) \in Seq(A)
  OBVIOUS
<1>2. PICK w \in Seq(N), v \in Seq(A) : w = Append(names, n) /\ v = Append(addrs, M[n])
  BY <1>1, Zenon
<1>3. \A i \in 1 .. Len(names) : names[i] # n
  BY Zenon DEF Hold
<1>4. \A i \in 1 .. Len(addrs) : addrs[i] # M[n]
  BY DEF Hold
<1>5. Distinct(w) /\ Distinct(v)
  BY <1>2, <1>3, <1>4, AppendDistinct, Zenon DEF Hold
<1>6. /\ \A i \in 1 .. Len(w) : w[i] = n \/ \E j \in 1 .. Len(names) : w[i] = names[j]
      /\ \A j \in 1 .. Len(names) : \E i \in 1 .. Len(w) : w[i] = names[j]
      /\ \E i \in 1 .. Len(w) : w[i] = n
  BY <1>2
<1>7. /\ \A i \in 1 .. Len(v) : v[i] = M[n] \/ \E j \in 1 .. Len(addrs) : v[i] = addrs[j]
      /\ \A j \in 1 .. Len(addrs) : \E i \in 1 .. Len(v) : v[i] = addrs[j]
      /\ \E i \in 1 .. Len(v) : v[i] = M[n]
  BY <1>2
<1>0. /\ \A i \in 1 .. Len(names) : names[i] \in R
      /\ \A i \in 1 .. Len(addrs) : \E k \in R : addrs[i] = M[k]
      /\ \A k \in R : \E i \in 1 .. Len(names) : names[i] = k
      /\ \A k \in R : \E i \in 1 .. Len(addrs) : addrs[i] = M[k]
  BY DEF Hold
<1>8. ASSUME NEW i \in 1 .. Len(w) PROVE w[i] \in R \cup {n}
  BY <1>0, <1>6
<1>9. ASSUME NEW i \in 1 .. Len(v) PROVE \E k \in R \cup {n} : v[i] = M[k]
  <2>1. CASE v[i] = M[n]
    BY <2>1
  <2>2. CASE \E j \in 1 .. Len(addrs) : v[i] = addrs[j]
    BY <1>0, <2>2
  <2> QED BY <1>7, <2>1, <2>2
<1>11. ASSUME NEW k \in R \cup {n}
       PROVE  /\ \E i \in 1 .. Len(w) : w[i] = k
              /\ \E i \in 1 .. Len(v) : v[i] = M[k]
  <2>1. CASE k = n
    BY <1>6, <1>7, <2>1
  <2>2. CASE k \in R
    <3>1. PICK i \in 1 .. Len(names), j \in 1 .. Len(addrs) : names[i] = k /\ addrs[j] = M[k]
      BY <1>0, <2>2, Zenon
    <3>2. PICK p \in 1 .. Len(w) : w[p] = names[i]
      BY <1>6
    <3>3. PICK q \in 1 .. Len(v) : v[q] = addrs[j]
      BY <1>7
    <3> QED BY <3>1, <3>2, <3>3, Zenon
  <2> QED BY <2>1, <2>2, SMTT(30)
<1>10. Hold(w, v, R \cup {n}, M)
  BY <1>5, <1>8, <1>9, <1>11, Zenon DEF Hold
<1> QED BY <1>2, <1>10, Zenon

LEMMA HoldShrink ==
  ASSUME NEW N, NEW A, NEW names \in Seq(N), NEW addrs \in Seq(A), NEW R, NEW M,
         Hold(names, addrs, R, M), \A x, y \in R : M[x] = M[y] => x = y, NEW n \in R
  PROVE  Hold(RemoveFirst(names, n), Drop(addrs, {M[n]}), R \ {n}, M)
<1>0. /\ Distinct(names) /\ Distinct(addrs)
      /\ \A i \in 1 .. Len(names) : names[i] \in R
      /\ \A i \in 1 .. Len(addrs) : \E k \in R : addrs[i] = M[k]
      /\ \A k \in R : \E i \in 1 .. Len(names) : names[i] = k
      /\ \A k \in R : \E i \in 1 .. Len(addrs) : addrs[i] = M[k]
  BY DEF Hold
<1>1. PICK i \in 1 .. Len(names), j \in 1 .. Len(addrs) : names[i] = n /\ addrs[j] = M[n]
  BY <1>0
<1>2. PICK w, v : w = RemoveFirst(names, names[i]) /\ v = Drop(addrs, {addrs[j]})
  OBVIOUS
<1>3. LeftOf(w, names, n)
  BY <1>0, <1>1, <1>2, RemoveLeft, Zenon
<1>4. LeftOf(v, addrs, M[n])
  <2>1. LeftOf(Drop(addrs, {addrs[j]}), addrs, addrs[j])
    BY <1>0, DropLeft, Zenon
  <2> QED BY <1>1, <1>2, <2>1, Zenon
<1>5. ASSUME NEW k \in 1 .. Len(w) PROVE w[k] \in R \ {n}
  BY <1>0, <1>3, Zenon DEF LeftOf
<1>6. ASSUME NEW k \in 1 .. Len(v) PROVE \E x \in R \ {n} : v[k] = M[x]
  <2>1. PICK b \in 1 .. Len(addrs) : v[k] = addrs[b] /\ addrs[b] # M[n]
    BY <1>4 DEF LeftOf
  <2>2. PICK x \in R : addrs[b] = M[x]
    BY <1>0
  <2> QED BY <2>1, <2>2
<1>7. ASSUME NEW x \in R \ {n}
      PROVE  /\ \E k \in 1 .. Len(w) : w[k] = x
             /\ \E k \in 1 .. Len(v) : v[k] = M[x]
  <2>1. PICK a \in 1 .. Len(names), b \in 1 .. Len(addrs) : names[a] = x /\ addrs[b] = M[x]
    BY <1>0
  <2>2. names[a] # n /\ addrs[b] # M[n]
    BY <2>1, Zenon
  <2>3. \E k \in 1 .. Len(w) : w[k] = names[a]
    BY <1>3, <2>2, Zenon DEF LeftOf
  <2>4. \E k \in 1 .. Len(v) : v[k] = addrs[b]
    BY <1>4, <2>2, Zenon DEF LeftOf
  <2> QED BY <2>1, <2>3, <2>4, Zenon
<1>8. Distinct(w) /\ Distinct(v)
  BY <1>3, <1>4, Zenon DEF LeftOf
<1>9. Hold(w, v, R \ {n}, M)
  BY <1>5, <1>6, <1>7, <1>8, Zenon DEF Hold
<1> QED BY <1>1, <1>2, <1>9, Zenon

-----------------------------------------------------------------------------
(* The tables: what every step needs *)

LEMMA SameTables ==
  ASSUME Tables,
         UNCHANGED <<m_map, outPeers, inPeers, m_list, blocks, thread_pools, handles, tpBlocks>>,
         invocation' = invocation, phase' \in {phase} \/ phase' # "none"
  PROVE  Tables'
<1>1. KnownNames' = KnownNames /\ \A q : BlocksOf(q)' = BlocksOf(q)
  BY DEF KnownNames, Known, BlocksOf
<1>2. SameBlocks'
  BY DEF Tables, SameBlocks, Known, Has
<1>3. SameLinks'
  BY <1>1 DEF Tables, SameLinks
<1>4. SamePools'
  BY <1>1 DEF Tables, SamePools
<1>5. SameTasks'
  BY <1>1 DEF Tables, SameTasks
<1>6. NothingLeft'
  BY <1>1 DEF Tables, NothingLeft
<1> QED BY <1>2, <1>3, <1>4, <1>5, <1>6 DEF Tables

\* The gates of a block that stays in the directory stay as they are.
LEMMA GatesStay ==
  ASSUME LinkInv, destroy_unused, NEW n \in Names, Has(n), m_map'[n] = m_map[n]
  PROVE  /\ outPeers'[m_map[n]] = outPeers[m_map[n]]
         /\ inPeers'[m_map[n]] = inPeers[m_map[n]]
<1>1. m_map[n] \in Objs
  BY LinkTypes
<1>2. Live(m_map[n])'
  BY DEF Live
<1> QED BY <1>1, <1>2 DEF destroy_unused

\* As long as no pool leaves the table, no ThreadPool object goes.
LEMMA SettleQuiet ==
  ASSUME NEW lists, Settle(lists), handles = thread_pools, thread_pools' = thread_pools,
         lists = [q \in DOMAIN lists |-> lists[q]]
  PROVE  handles' = handles /\ m_list' = lists /\ destroy_unused
<1>1. destroy_unused
  BY Zenon DEF Settle
<1>2. PICK gone, erased : /\ gone \subseteq {q \in handles : q \notin thread_pools'}
                          /\ erased \subseteq gone
                          /\ handles' = handles \ gone
                          /\ m_list' = [q \in DOMAIN lists \ erased |-> lists[q]]
  BY Zenon DEF Settle
<1>3. gone = {} /\ erased = {}
  BY <1>2
<1>4. handles' = handles /\ DOMAIN lists \ erased = DOMAIN lists
  BY <1>2, <1>3
<1> QED BY <1>1, <1>2, <1>4

LEMMA TidyTables ==
  ASSUME IInv, tidy
  PROVE  LinkInv /\ SameBlocks /\ SameLinks /\ SamePools /\ SameTasks /\ NothingLeft
BY DEF IInv, Tables

\* A known block has addresses and names of peers.
LEMMA KnownTypes ==
  ASSUME LinkInv, SameBlocks, NEW n \in KnownNames
  PROVE  /\ n \in Names /\ Has(n) /\ blocks[n] \in Block
         /\ m_map[n] \in 1 .. born /\ m_map[n] \in Objs /\ Live(m_map[n])
         /\ blocks[n].out \in Seq(Names) /\ blocks[n].in \in Seq(Names)
         /\ outPeers[m_map[n]] \in Seq(1 .. born) /\ inPeers[m_map[n]] \in Seq(1 .. born)
<1>1. n \in Names /\ blocks[n] # None
  BY DEF KnownNames, Known
<1>2. Has(n) /\ blocks[n] \in Block
  BY <1>1 DEF SameBlocks, Known
<1>3. m_map[n] \in 1 .. born /\ m_map[n] \in Objs /\ Live(m_map[n])
  BY <1>1, <1>2, LinkTypes
<1>4. outPeers[m_map[n]] \in Seq(1 .. born) /\ inPeers[m_map[n]] \in Seq(1 .. born)
  BY <1>3 DEF LinkInv, Addresses
<1>5. blocks[n].out \in Seq(Names) /\ blocks[n].in \in Seq(Names)
  BY <1>2 DEF Block
<1> QED BY <1>1, <1>2, <1>3, <1>4, <1>5, Zenon

-----------------------------------------------------------------------------
(* The tables: one lemma per operation *)

LEMMA CreatePoolTables ==
  ASSUME IInv, tidy, NEW q \in Pools, create_pool(q)
  PROVE  Tables'
<1>0. LinkInv /\ SameBlocks /\ SameLinks /\ SamePools /\ SameTasks
  BY TidyTables, Zenon
<1>1. /\ UNCHANGED <<m_map, invocation, outPeers, inPeers, blocks, phase>>
      /\ phase \in {"install", "add"} /\ q \notin thread_pools
      /\ thread_pools' = thread_pools \cup {q} /\ handles' = handles \cup {q}
      /\ DOMAIN m_list' = DOMAIN m_list \cup {q}
      /\ \A x \in DOMAIN m_list' : m_list'[x] = IF x = q THEN <<>> ELSE m_list[x]
  BY <1>0 DEF create_pool, dirVars, linkVars, control, SamePools
<1>2. /\ tpBlocks' \in [Pools -> Seq(Names)]
      /\ \A x \in Pools : tpBlocks'[x] = IF x = q THEN <<>> ELSE tpBlocks[x]
  BY <1>0 DEF create_pool, SamePools
<1>3. KnownNames' = KnownNames /\ \A x : BlocksOf(x)' = BlocksOf(x)
  BY <1>1 DEF KnownNames, Known, BlocksOf
<1>4. SameBlocks'
  BY <1>0, <1>1 DEF SameBlocks, Known, Has
<1>5. SameLinks'
  BY <1>0, <1>1, <1>3 DEF SameLinks
<1>6. SamePools'
  BY <1>0, <1>1, <1>2, <1>3, SMTT(30) DEF SamePools
<1>7. BlocksOf(q) = {}
  BY <1>0, <1>1, NoneAssumption DEF SamePools, BlocksOf
<1>8. ASSUME NEW x \in thread_pools'
      PROVE  Hold(tpBlocks'[x], m_list'[x], BlocksOf(x), m_map)
  <2>1. CASE x = q
    <3>1. tpBlocks'[x] = <<>> /\ m_list'[x] = <<>>
      BY <1>0, <1>1, <1>2, <2>1 DEF SamePools
    <3>2. Hold(<<>>, <<>>, {}, m_map)
      BY DEF Hold, Distinct
    <3> QED BY <1>7, <2>1, <3>1, <3>2, Zenon
  <2>2. CASE x # q
    <3>1. x \in thread_pools /\ x \in Pools
      BY <1>0, <1>1, <2>2 DEF SamePools
    <3>2. tpBlocks'[x] = tpBlocks[x] /\ m_list'[x] = m_list[x]
      BY <1>0, <1>1, <1>2, <2>2, <3>1 DEF SamePools
    <3> QED BY <1>0, <3>1, <3>2, Zenon DEF SameTasks
  <2> QED BY <2>1, <2>2, Zenon
<1>9. SameTasks'
  BY <1>1, <1>3, <1>8, Zenon DEF SameTasks
<1>10. NothingLeft'
  BY <1>1 DEF NothingLeft
<1> QED BY <1>4, <1>5, <1>6, <1>9, <1>10 DEF Tables

\* The pool that goes lists no block, so no block refers to it.
LEMMA DeletePoolTables ==
  ASSUME IInv, tidy, NEW q \in Pools, delete_pool(q), tpBlocks[q] = <<>>
  PROVE  Tables'
<1>0. LinkInv /\ SameBlocks /\ SameLinks /\ SamePools /\ SameTasks
  BY TidyTables, Zenon
<1>1. /\ UNCHANGED <<m_map, invocation, blocks, tpBlocks, phase>>
      /\ phase = "delete" /\ q \in thread_pools
      /\ thread_pools' = thread_pools \ {q} /\ Settle(m_list)
  BY DEF delete_pool, dirVars, control
<1>2. BlocksOf(q) = {}
  <2>1. Hold(tpBlocks[q], m_list[q], BlocksOf(q), m_map)
    BY <1>0, <1>1, Zenon DEF SameTasks
  <2> QED BY <2>1 DEF Hold
<1>3. KnownNames' = KnownNames /\ \A x : BlocksOf(x)' = BlocksOf(x)
  BY <1>1 DEF KnownNames, Known, BlocksOf
<1>4. \A n \in Names : blocks'[n] # None => blocks'[n].tp # q
  BY <1>1, <1>2 DEF BlocksOf, KnownNames, Known
<1>5. PICK gone, erased :
        /\ gone = {x \in handles : /\ x \notin thread_pools'
                                   /\ \A n \in Names : blocks'[n] # None => blocks'[n].tp # x}
        /\ erased = {x \in gone : tpBlocks'[x] = <<>>}
        /\ handles' = handles \ gone
        /\ m_list' = [x \in DOMAIN m_list \ erased |-> m_list[x]]
  BY <1>1, Zenon DEF Settle
<1>6. gone = {q} /\ erased = {q}
  <2>1. gone = {q}
    BY <1>0, <1>1, <1>4, <1>5 DEF SamePools
  <2> QED BY <1>1, <1>5, <2>1
<1>7. /\ handles' = thread_pools' /\ DOMAIN m_list' = thread_pools'
      /\ \A x \in thread_pools' : x \in thread_pools /\ m_list'[x] = m_list[x]
  BY <1>0, <1>1, <1>5, <1>6 DEF SamePools
<1>8. destroy_unused
  BY <1>1, Zenon DEF Settle
<1>9. SameBlocks'
  BY <1>0, <1>1 DEF SameBlocks, Known, Has
<1>10. SameLinks'
  <2>1. ASSUME NEW n \in KnownNames
        PROVE  /\ outPeers'[m_map[n]] = outPeers[m_map[n]]
               /\ inPeers'[m_map[n]] = inPeers[m_map[n]]
    BY <1>0, <1>1, <1>8, KnownTypes, GatesStay, Zenon
  <2> QED BY <1>0, <1>1, <1>3, <2>1, Zenon DEF SameLinks
<1>11. SamePools'
  <2>1. ASSUME NEW n \in KnownNames, blocks[n].inv = "indirect"
        PROVE  blocks[n].tp \in thread_pools'
    BY <1>0, <1>1, <1>2, <2>1 DEF SamePools, BlocksOf
  <2> QED BY <1>0, <1>1, <1>3, <1>7, <2>1 DEF SamePools
<1>12. SameTasks'
  BY <1>0, <1>1, <1>3, <1>7, Zenon DEF SameTasks
<1>13. NothingLeft'
  BY <1>1 DEF NothingLeft
<1> QED BY <1>9, <1>10, <1>11, <1>12, <1>13 DEF Tables

LEMMA NewBlockTables ==
  ASSUME IInv, tidy, NEW n \in Names, NEW inv \in Invocations, NEW q \in Pools \cup {None},
         new_block(n, inv, q), ~Known(n)
  PROVE  Tables'
<1>0. LinkInv /\ SameBlocks /\ SameLinks /\ SamePools /\ SameTasks
  BY TidyTables, Zenon
<1>1. /\ phase' = phase /\ phase \in {"install", "add"} /\ thread_pools' = thread_pools
      /\ IF inv = "indirect" THEN q \in thread_pools ELSE q = None
      /\ create_block(n, inv)
      /\ blocks' = [blocks EXCEPT ![n] = [inv |-> inv, tp |-> q, out |-> <<>>, in |-> <<>>]]
      /\ tpBlocks' = IF q = None THEN tpBlocks ELSE [tpBlocks EXCEPT ![q] = Append(@, n)]
      /\ Settle(IF q = None THEN m_list ELSE WithTask(q, born + 1))
  BY DEF new_block, control
<1>2. PICK o, r : o = born + 1 /\ r = [inv |-> inv, tp |-> q, out |-> <<>>, in |-> <<>>]
  BY Zenon
<1>3. /\ r \in Block /\ r # None /\ r.inv = inv /\ r.tp = q /\ r.out = <<>> /\ r.in = <<>>
  <2>1. <<>> \in Seq(Names)
    OBVIOUS
  <2>2. r \in Block
    BY <1>2, <2>1 DEF Block
  <2> QED BY <1>2, <2>2, NoneAssumption
<1>4. o \in Objs /\ o # NoObj /\ o \notin 0 .. born /\ o \notin 1 .. born
  BY <1>0, <1>1, <1>2, LinkTypes, MaxObjsAssumption DEF create_block, Objs, NoObj
<1>5. \A k \in Names : blocks'[k] = IF k = n THEN r ELSE blocks[k]
  BY <1>0, <1>1, <1>2 DEF SameBlocks
<1>6. \A k \in Names : m_map'[k] = IF k = n THEN o ELSE m_map[k]
  BY <1>0, <1>1, <1>2, LinkTypes DEF create_block
<1>7. KnownNames' = KnownNames \cup {n} /\ n \notin KnownNames
  BY <1>3, <1>5 DEF KnownNames, Known
<1>8. \A k \in KnownNames : k \in Names /\ k # n /\ m_map'[k] = m_map[k] /\ m_map[k] # o
  BY <1>0, <1>4, <1>6, <1>7, LinkTypes, SMTT(30) DEF KnownNames
<1>9. SameBlocks'
  <2>1. blocks' \in [Names -> Block \cup {None}]
    BY <1>0, <1>1, <1>2, <1>3 DEF SameBlocks
  <2>2. /\ invocation' \in [Names -> Invocations]
        /\ \A k \in Names : invocation'[k] = IF k = n THEN inv ELSE invocation[k]
    BY <1>0, <1>1 DEF SameBlocks, create_block
  <2>3. ASSUME NEW k \in Names
        PROVE  /\ Known(k)' <=> Has(k)'
               /\ Known(k)' => invocation'[k] = blocks'[k].inv
    BY <1>0, <1>3, <1>4, <1>5, <1>6, <2>2 DEF SameBlocks, Known, Has
  <2>4. ASSUME NEW k \in Names, NEW l \in Names, Has(k)', m_map'[k] = m_map'[l]
        PROVE  k = l
    <3>1. \A x \in Names : m_map[x] # o
      BY <1>0, <1>4, LinkTypes
    <3>2. CASE k = n \/ l = n
      BY <1>6, <2>4, <3>1, <3>2
    <3>3. CASE k # n /\ l # n
      BY <1>0, <1>6, <2>4, <3>3 DEF SameBlocks, Has
    <3> QED BY <3>2, <3>3
  <2> QED BY <2>1, <2>2, <2>3, <2>4, SMTT(30) DEF SameBlocks
<1>10. PICK L : L = (IF q = None THEN m_list ELSE WithTask(q, o))
  OBVIOUS
<1>11. /\ L = [x \in DOMAIN L |-> L[x]] /\ DOMAIN L = thread_pools
       /\ \A x \in thread_pools : L[x] = IF x = q THEN Append(m_list[x], o) ELSE m_list[x]
  BY <1>0, <1>10, NoneAssumption, Zenon DEF SamePools, LinkInv, Addresses, WithTask
<1>12. handles' = handles /\ m_list' = L /\ destroy_unused
  <2>1. Settle(L)
    BY <1>1, <1>2, <1>10, Zenon
  <2> QED BY <1>0, <1>1, <1>11, <2>1, SettleQuiet, Zenon DEF SamePools
<1>13. SameLinks'
  <2>1. ASSUME NEW k \in KnownNames
        PROVE  /\ Peers(blocks'[k].out, outPeers'[m_map'[k]], KnownNames', m_map')
               /\ Peers(blocks'[k].in, inPeers'[m_map'[k]], KnownNames', m_map')
    <3>1. blocks'[k] = blocks[k] /\ m_map'[k] = m_map[k]
      BY <1>5, <1>8
    <3>2. outPeers'[m_map[k]] = outPeers[m_map[k]] /\ inPeers'[m_map[k]] = inPeers[m_map[k]]
      BY <1>0, <1>8, <1>12, <3>1, KnownTypes, GatesStay, Zenon
    <3>3. /\ Peers(blocks[k].out, outPeers[m_map[k]], KnownNames, m_map)
          /\ Peers(blocks[k].in, inPeers[m_map[k]], KnownNames, m_map)
      BY <1>0, Zenon DEF SameLinks
    <3>4. PICK K, W, M : K = KnownNames' /\ W = m_map' /\ M = m_map
      OBVIOUS
    <3>5. \A l \in KnownNames : l \in K /\ W[l] = M[l]
      BY <1>7, <1>8, <3>4
    <3>6. Peers(blocks[k].out, outPeers[m_map[k]], K, W)
      BY <3>3, <3>4, <3>5, PeersSame, Zenon DEF Peers
    <3>7. Peers(blocks[k].in, inPeers[m_map[k]], K, W)
      BY <3>3, <3>4, <3>5, PeersSame, Zenon DEF Peers
    <3> QED BY <3>1, <3>2, <3>4, <3>6, <3>7, Zenon
  <2>2. blocks'[n] = r /\ m_map'[n] = o
    BY <1>5, <1>6
  <2>3. outPeers'[o] = <<>> /\ inPeers'[o] = <<>>
    <3>1. ~Live(o)
      BY <1>0, <1>4, LiveBorn, Zenon DEF LinkInv
    <3>2. outPeers[o] = <<>> /\ inPeers[o] = <<>>
      BY <1>0, <1>4, <3>1, Zenon DEF LinkInv, DeadHasNoGates
    <3> QED BY <1>4, <1>12, <3>2 DEF destroy_unused
  <2>4. \A K, M : Peers(<<>>, <<>>, K, M)
    BY DEF Peers, Distinct
  <2> QED BY <1>3, <1>7, <2>1, <2>2, <2>3, <2>4, Zenon DEF SameLinks
<1>14. SamePools'
  <2>1. tpBlocks' \in [Pools -> Seq(Names)]
    BY <1>0, <1>1, SMTT(30) DEF SamePools
  <2>2. ASSUME NEW k \in KnownNames'
        PROVE  IF blocks'[k].inv = "indirect" THEN blocks'[k].tp \in thread_pools
                                              ELSE blocks'[k].tp = None
    BY <1>0, <1>1, <1>3, <1>5, <1>7, <1>8 DEF SamePools
  <2> QED BY <1>0, <1>1, <1>11, <1>12, <2>1, <2>2, SMTT(30) DEF SamePools
<1>15. ASSUME NEW x \in thread_pools
       PROVE  Hold(tpBlocks'[x], m_list'[x], BlocksOf(x)', m_map')
  <2>0. x \in Pools /\ x # None
    BY <1>0, NoneAssumption DEF SamePools
  <2>1. PICK s \in Seq(Names), t \in Seq(1 .. born) : s = tpBlocks[x] /\ t = m_list[x]
    BY <1>0, <2>0 DEF SamePools, LinkInv, Addresses
  <2>2. PICK R, W, M : R = BlocksOf(x) /\ W = m_map' /\ M = m_map
    OBVIOUS
  <2>3. Hold(s, t, R, M)
    BY <1>0, <2>1, <2>2, ZenonT(40) DEF SameTasks
  <2>4. \A k \in R : W[k] = M[k] /\ k # n /\ M[k] # o
    BY <1>8, <2>2 DEF BlocksOf
  <2>5. Hold(s, t, R, W)
    BY <2>3, <2>4, HoldSame, Zenon
  <2>6. CASE x = q
    <3>1. 1 .. born \subseteq 1 .. o /\ o \in 1 .. o
      BY <1>0, <1>2, LinkTypes
    <3>2. PICK A : 1 .. born \subseteq A /\ o \in A
      BY <3>1, Zenon
    <3>3. t \in Seq(A)
      BY <3>2, Wider, ZenonT(40)
    <3>4. W[n] = o /\ n \notin R /\ \A k \in R : W[k] # W[n]
      BY <1>6, <2>2, <2>4
    <3>5. Hold(Append(s, n), Append(t, W[n]), R \cup {n}, W)
      BY <2>5, <3>2, <3>3, <3>4, HoldGrow, Zenon
    <3>6. BlocksOf(x)' = R \cup {n}
      BY <1>3, <1>5, <1>7, <1>8, <2>2, <2>6, SMTT(30) DEF BlocksOf
    <3>7. tpBlocks'[x] = Append(s, n) /\ m_list'[x] = Append(t, o)
      BY <1>0, <1>1, <1>11, <1>12, <2>0, <2>1, <2>6 DEF SamePools
    <3> QED BY <2>2, <3>4, <3>5, <3>6, <3>7, Zenon
  <2>7. CASE x # q
    <3>1. BlocksOf(x)' = R
      BY <1>3, <1>5, <1>7, <1>8, <2>2, <2>7, SMTT(30) DEF BlocksOf
    <3>2. tpBlocks'[x] = s /\ m_list'[x] = t
      BY <1>0, <1>1, <1>11, <1>12, <2>0, <2>1, <2>7 DEF SamePools
    <3> QED BY <2>2, <2>5, <3>1, <3>2, Zenon
  <2> QED BY <2>6, <2>7, Zenon
<1>16. SameTasks'
  BY <1>1, <1>15, Zenon DEF SameTasks
<1>17. NothingLeft'
  BY <1>1 DEF NothingLeft
<1> QED BY <1>9, <1>13, <1>14, <1>16, <1>17 DEF Tables

\* Where a live block is a peer in a gate, its name is in the list of the Block,
\* and the two ends of the link agree on it.
LEMMA LinkedNames ==
  ASSUME LinkInv, SameBlocks, SameLinks, NEW a \in KnownNames, NEW b \in KnownNames
  PROVE  /\ (\E i \in 1 .. Len(blocks[a].out) : blocks[a].out[i] = b) <=>
            Times(outPeers[m_map[a]], m_map[b]) # 0
         /\ (\E i \in 1 .. Len(blocks[b].in) : blocks[b].in[i] = a) <=>
            Times(inPeers[m_map[b]], m_map[a]) # 0
         /\ Times(outPeers[m_map[a]], m_map[b]) = Times(inPeers[m_map[b]], m_map[a])
<1>1. /\ outPeers[m_map[a]] \in Seq(1 .. born) /\ inPeers[m_map[b]] \in Seq(1 .. born)
      /\ m_map[a] \in Objs /\ m_map[b] \in Objs /\ Live(m_map[a]) /\ Live(m_map[b])
      /\ a \in Names /\ b \in Names /\ Has(a) /\ Has(b)
  BY KnownTypes, Zenon
<1>2. /\ Peers(blocks[a].out, outPeers[m_map[a]], KnownNames, m_map)
      /\ Peers(blocks[b].in, inPeers[m_map[b]], KnownNames, m_map)
  BY Zenon DEF SameLinks
<1>3. \A k \in KnownNames : /\ m_map[k] = m_map[a] => k = a
                            /\ m_map[k] = m_map[b] => k = b
  BY <1>1 DEF SameBlocks, KnownNames
<1>4. PICK s, ns, t, ms : /\ s = outPeers[m_map[a]] /\ ns = blocks[a].out
                          /\ t = inPeers[m_map[b]] /\ ms = blocks[b].in
  OBVIOUS
<1>5. /\ Len(s) = Len(ns) /\ \A i \in 1 .. Len(ns) : ns[i] \in KnownNames /\ s[i] = m_map[ns[i]]
      /\ Len(t) = Len(ms) /\ \A i \in 1 .. Len(ms) : ms[i] \in KnownNames /\ t[i] = m_map[ms[i]]
  BY <1>2, <1>4, Zenon DEF Peers
<1>6. (\E i \in 1 .. Len(ns) : ns[i] = b) <=> (\E i \in 1 .. Len(s) : s[i] = m_map[b])
  BY <1>3, <1>5
<1>7. (\E i \in 1 .. Len(ms) : ms[i] = a) <=> (\E i \in 1 .. Len(t) : t[i] = m_map[a])
  BY <1>3, <1>5
<1>8. Times(s, m_map[b]) = 0 <=> \A i \in 1 .. Len(s) : s[i] # m_map[b]
  BY <1>1, <1>4, TimesZero, Zenon
<1>9. Times(t, m_map[a]) = 0 <=> \A i \in 1 .. Len(t) : t[i] # m_map[a]
  BY <1>1, <1>4, TimesZero, Zenon
<1>10. Times(outPeers[m_map[a]], m_map[b]) = Times(inPeers[m_map[b]], m_map[a])
  BY <1>1, Zenon DEF LinkInv, LinksHaveTwoEnds
<1> QED BY <1>4, <1>6, <1>7, <1>8, <1>9, <1>10, Zenon

\* delete: a block without links is a peer of no other block, because links have
\* two ends.
LEMMA DeleteTables ==
  ASSUME IInv, tidy, NEW n \in Names, delete(n), blocks[n].out = <<>>, blocks[n].in = <<>>
  PROVE  Tables'
<1>0. LinkInv /\ SameBlocks /\ SameLinks /\ SamePools /\ SameTasks
  BY TidyTables, Zenon
<1>1. /\ phase' = phase /\ phase = "delete" /\ thread_pools' = thread_pools
      /\ Known(n) /\ Has(n) /\ delete_block(n)
      /\ blocks' = [blocks EXCEPT ![n] = None]
      /\ tpBlocks' = TpBlocksWithout(n) /\ Settle(ListsWithout(n))
  BY DEF delete, control
<1>2. \A k \in Names : blocks'[k] = IF k = n THEN None ELSE blocks[k]
  BY <1>0, <1>1, SMTT(30) DEF SameBlocks
<1>3. \A k \in Names : m_map'[k] = IF k = n THEN NoObj ELSE m_map[k]
  BY <1>0, <1>1, LinkTypes DEF delete_block
<1>4. n \in KnownNames /\ KnownNames' = KnownNames \ {n}
  BY <1>1, <1>2 DEF KnownNames, Known
<1>5. \A k \in KnownNames' : k \in Names /\ k \in KnownNames /\ k # n
  BY <1>4 DEF KnownNames
<1>6. SameBlocks'
  <2>1. blocks' \in [Names -> Block \cup {None}]
    BY <1>0, <1>1, SMTT(30) DEF SameBlocks
  <2>2. /\ invocation' \in [Names -> Invocations]
        /\ \A k \in Names : invocation'[k] = IF k = n THEN "direct" ELSE invocation[k]
    BY <1>0, <1>1 DEF SameBlocks, delete_block, Invocations
  <2>3. ASSUME NEW k \in Names
        PROVE  /\ Known(k)' <=> Has(k)'
               /\ Known(k)' => invocation'[k] = blocks'[k].inv
    BY <1>0, <1>2, <1>3, <2>2 DEF SameBlocks, Known, Has
  <2>4. ASSUME NEW k \in Names, NEW l \in Names, Has(k)', m_map'[k] = m_map'[l]
        PROVE  k = l
    BY <1>0, <1>3, <2>4 DEF SameBlocks, Has
  <2> QED BY <2>1, <2>2, <2>3, <2>4, SMTT(30) DEF SameBlocks
<1>7. blocks[n].tp \in thread_pools \/ (blocks[n].inv = "direct" /\ blocks[n].tp = None)
  <2>1. blocks[n] \in Block
    BY <1>0, <1>4, KnownTypes, Zenon
  <2>2. blocks[n].inv \in {"direct", "indirect"}
    BY <2>1 DEF Block, Invocations
  <2>3. IF blocks[n].inv = "indirect" THEN blocks[n].tp \in thread_pools
                                      ELSE blocks[n].tp = None
    BY <1>0, <1>4, Zenon DEF SamePools
  <2> QED BY <2>2, <2>3
<1>8. PICK L, p, o : L = ListsWithout(n) /\ p = blocks[n].tp /\ o = m_map[n]
  OBVIOUS
<1>9. /\ L = [x \in DOMAIN L |-> L[x]] /\ DOMAIN L = thread_pools
      /\ \A x \in thread_pools : L[x] = IF x = p THEN Drop(m_list[x], {o}) ELSE m_list[x]
  <2>1. m_list = [x \in DOMAIN m_list |-> m_list[x]] /\ DOMAIN m_list = thread_pools
    BY <1>0 DEF SamePools, LinkInv, Addresses
  <2>2. CASE p \in thread_pools
    <3>1. blocks[n].inv # "direct"
      BY <1>0, <1>4, <1>8, <2>2, NoneAssumption, SMTT(30) DEF SamePools
    <3>2. L = [m_list EXCEPT ![p] = Drop(@, {o})]
      BY <1>8, <3>1 DEF ListsWithout, WithoutTask, Without
    <3> QED BY <2>1, <3>2, ZenonT(40)
  <2>3. CASE blocks[n].inv = "direct" /\ p = None
    <3>1. L = m_list /\ p \notin thread_pools
      BY <1>0, <1>8, <2>3, NoneAssumption, SMTT(30) DEF ListsWithout, SamePools
    <3> QED BY <2>1, <3>1, SMTT(30)
  <2> QED BY <1>7, <1>8, <2>2, <2>3, Zenon
<1>10. /\ tpBlocks' = [x \in Pools |-> tpBlocks'[x]]
       /\ \A x \in Pools : tpBlocks'[x] = IF x = p THEN RemoveFirst(tpBlocks[x], n) ELSE tpBlocks[x]
  <2>1. tpBlocks = [x \in Pools |-> tpBlocks[x]]
    BY <1>0 DEF SamePools
  <2>2. CASE p \in thread_pools
    <3>1. blocks[n].inv # "direct"
      BY <1>0, <1>4, <1>8, <2>2, NoneAssumption DEF SamePools
    <3>2. tpBlocks' = [tpBlocks EXCEPT ![p] = RemoveFirst(@, n)]
      BY <1>1, <1>8, <3>1 DEF TpBlocksWithout
    <3> QED BY <2>1, <3>2, SMTT(30)
  <2>3. CASE blocks[n].inv = "direct" /\ p = None
    <3>1. tpBlocks' = tpBlocks /\ p \notin Pools
      BY <1>1, <2>3, NoneAssumption DEF TpBlocksWithout
    <3> QED BY <2>1, <3>1, SMTT(30)
  <2> QED BY <1>7, <1>8, <2>2, <2>3, SMTT(30)
<1>11. handles' = handles /\ m_list' = L /\ destroy_unused
  <2>1. Settle(L)
    BY <1>1, <1>8, Zenon
  <2> QED BY <1>0, <1>1, <1>9, <2>1, SettleQuiet, Zenon DEF SamePools
<1>12. ASSUME NEW k \in KnownNames'
       PROVE  /\ Peers(blocks'[k].out, outPeers'[m_map'[k]], KnownNames', m_map')
              /\ Peers(blocks'[k].in, inPeers'[m_map'[k]], KnownNames', m_map')
  <2>1. k \in KnownNames /\ k # n /\ k \in Names /\ blocks'[k] = blocks[k] /\ m_map'[k] = m_map[k]
    BY <1>2, <1>3, <1>5
  <2>2. outPeers'[m_map[k]] = outPeers[m_map[k]] /\ inPeers'[m_map[k]] = inPeers[m_map[k]]
    BY <1>0, <1>11, <2>1, KnownTypes, GatesStay, Zenon
  <2>3. /\ Peers(blocks[k].out, outPeers[m_map[k]], KnownNames, m_map)
        /\ Peers(blocks[k].in, inPeers[m_map[k]], KnownNames, m_map)
    BY <1>0, <2>1, Zenon DEF SameLinks
  <2>4. /\ ~\E i \in 1 .. Len(blocks[n].out) : blocks[n].out[i] = k
        /\ ~\E i \in 1 .. Len(blocks[n].in) : blocks[n].in[i] = k
    OBVIOUS
  <2>5. ~\E i \in 1 .. Len(blocks[k].out) : blocks[k].out[i] = n
    <3>1. Times(inPeers[m_map[n]], m_map[k]) = 0
      BY <1>0, <1>4, <2>1, <2>4, LinkedNames, Zenon
    <3>2. Times(outPeers[m_map[k]], m_map[n]) = 0
      BY <1>0, <1>4, <2>1, <3>1, LinkedNames, Zenon
    <3> QED BY <1>0, <1>4, <2>1, <3>2, LinkedNames, Zenon
  <2>6. ~\E i \in 1 .. Len(blocks[k].in) : blocks[k].in[i] = n
    <3>1. Times(outPeers[m_map[n]], m_map[k]) = 0
      BY <1>0, <1>4, <2>1, <2>4, LinkedNames, ZenonT(40)
    <3>2. Times(inPeers[m_map[k]], m_map[n]) = 0
      BY <1>0, <1>4, <2>1, <3>1, LinkedNames, Zenon
    <3> QED BY <1>0, <1>4, <2>1, <3>2, LinkedNames, Zenon
  <2>7. PICK K, W, M : K = KnownNames' /\ W = m_map' /\ M = m_map
    OBVIOUS
  <2>8. \A l \in KnownNames : l # n => l \in K /\ W[l] = M[l]
    BY <1>3, <1>4, <1>5, <2>7
  <2>9. Peers(blocks[k].out, outPeers[m_map[k]], K, W)
    BY <2>3, <2>5, <2>7, <2>8, PeersSame, Zenon DEF Peers
  <2>10. Peers(blocks[k].in, inPeers[m_map[k]], K, W)
    BY <2>3, <2>6, <2>7, <2>8, PeersSame, Zenon DEF Peers
  <2> QED BY <2>1, <2>2, <2>7, <2>9, <2>10, ZenonT(40)
<1>13. SameLinks'
  BY <1>12, Zenon DEF SameLinks
<1>14. ASSUME NEW x \in thread_pools
       PROVE  Hold(tpBlocks'[x], m_list'[x], BlocksOf(x)', m_map')
  <2>0. x \in Pools
    BY <1>0 DEF SamePools
  <2>1. PICK s \in Seq(Names), t \in Seq(1 .. born) : s = tpBlocks[x] /\ t = m_list[x]
    BY <1>0, <2>0 DEF SamePools, LinkInv, Addresses
  <2>2. PICK R, W, M : R = BlocksOf(x) /\ W = m_map' /\ M = m_map
    OBVIOUS
  <2>3. Hold(s, t, R, M)
    BY <1>0, <2>1, <2>2, Zenon DEF SameTasks
  <2>4. \A k \in R : k # n => W[k] = M[k]
    BY <1>3, <2>2 DEF BlocksOf, KnownNames
  <2>5. BlocksOf(x)' = R \ {n}
    BY <1>2, <1>4, <1>5, <2>2 DEF BlocksOf
  <2>6. CASE x = p
    <3>1. n \in R
      BY <1>4, <1>8, <2>2, <2>6, SMTT(30) DEF BlocksOf
    <3>2. \A k, l \in R : M[k] = M[l] => k = l
      BY <1>0, <2>2 DEF SameBlocks, BlocksOf, KnownNames
    <3>3. Hold(RemoveFirst(s, n), Drop(t, {M[n]}), R \ {n}, M)
      BY <2>3, <3>1, <3>2, HoldShrink, Zenon
    <3>4. \A k \in R \ {n} : W[k] = M[k]
      BY <2>4
    <3>5. Hold(RemoveFirst(s, n), Drop(t, {M[n]}), R \ {n}, W)
      BY <3>3, <3>4, HoldSame, ZenonT(40)
    <3>6. tpBlocks'[x] = RemoveFirst(s, n) /\ m_list'[x] = Drop(t, {M[n]})
      BY <1>8, <1>9, <1>10, <1>11, <2>0, <2>1, <2>2, <2>6, ZenonT(40)
    <3> QED BY <2>2, <2>5, <3>5, <3>6, ZenonT(40)
  <2>7. CASE x # p
    <3>1. n \notin R /\ R \ {n} = R
      BY <1>8, <2>2, <2>7 DEF BlocksOf
    <3>2. Hold(s, t, R, W)
      BY <2>3, <2>4, <3>1, HoldSame, ZenonT(40)
    <3>3. tpBlocks'[x] = s /\ m_list'[x] = t
      BY <1>9, <1>10, <1>11, <2>0, <2>1, <2>7, SMTT(30)
    <3> QED BY <2>2, <2>5, <3>1, <3>2, <3>3, Zenon
  <2> QED BY <2>6, <2>7, Zenon
<1>15. SameTasks'
  BY <1>1, <1>14, Zenon DEF SameTasks
<1>16. SamePools'
  <2>1. ASSUME NEW x \in Pools PROVE tpBlocks'[x] \in Seq(Names)
    <3>1. PICK s \in Seq(Names) : s = tpBlocks[x]
      BY <1>0 DEF SamePools
    <3>2. CASE x = p
      <4>1. x \in thread_pools
        BY <1>7, <1>8, <3>2, NoneAssumption, SMTT(30)
      <4>2. Hold(s, m_list[x], BlocksOf(x), m_map) /\ n \in BlocksOf(x)
        BY <1>0, <1>4, <1>8, <3>1, <3>2, <4>1, Zenon DEF SameTasks, BlocksOf
      <4>3. PICK i \in 1 .. Len(s) : s[i] = n
        BY <4>2 DEF Hold
      <4>4. RemoveFirst(s, s[i]) \in Seq(Names)
        BY <4>2, RemoveLeft, Zenon DEF Hold
      <4> QED BY <1>10, <3>1, <3>2, <4>3, <4>4, SMTT(30)
    <3>3. CASE x # p
      BY <1>10, <3>1, <3>3
    <3> QED BY <3>2, <3>3, SMTT(30)
  <2>2. tpBlocks' \in [Pools -> Seq(Names)]
    BY <1>10, <2>1
  <2>3. ASSUME NEW k \in KnownNames'
        PROVE  IF blocks'[k].inv = "indirect" THEN blocks'[k].tp \in thread_pools
                                              ELSE blocks'[k].tp = None
    BY <1>0, <1>2, <1>5, SMTT(30) DEF SamePools
  <2> QED BY <1>0, <1>1, <1>9, <1>11, <2>2, <2>3, SMTT(30) DEF SamePools
<1>17. NothingLeft'
  BY <1>1 DEF NothingLeft
<1> QED BY <1>6, <1>13, <1>15, <1>16, <1>17 DEF Tables

\* The Block u is the Block r of the name k after a has the peers ns and b the
\* peers ms.
Wired(u, r, k, a, b, ns, ms) ==
  /\ u.inv = r.inv /\ u.tp = r.tp
  /\ u.out = IF k = a THEN ns ELSE r.out
  /\ u.in = IF k = b THEN ms ELSE r.in

\* What a change of one link does to the Block objects.
LEMMA Rewired ==
  ASSUME SameBlocks, NEW a \in KnownNames, NEW b \in KnownNames,
         NEW ns \in Seq(Names), NEW ms \in Seq(Names), NEW bl,
         bl = [blocks EXCEPT ![a].out = ns], blocks' = [bl EXCEPT ![b].in = ms]
  PROVE  /\ blocks' \in [Names -> Block \cup {None}] /\ KnownNames' = KnownNames
         /\ \A k \in KnownNames : Wired(blocks'[k], blocks[k], k, a, b, ns, ms)
<1>1. /\ blocks \in [Names -> Block \cup {None}] /\ a \in Names /\ b \in Names
      /\ \A k \in KnownNames : k \in Names /\ blocks[k] # None /\ blocks[k] \in Block
  BY DEF SameBlocks, KnownNames, Known
<1>2. /\ bl = [k \in Names |-> bl[k]]
      /\ \A k \in Names : bl[k] = IF k = a THEN [blocks[k] EXCEPT !.out = ns] ELSE blocks[k]
  BY <1>1, Zenon
<1>3. /\ blocks' = [k \in Names |-> blocks'[k]]
      /\ \A k \in Names : blocks'[k] = IF k = b THEN [bl[k] EXCEPT !.in = ms] ELSE bl[k]
  BY <1>2, <1>1, Zenon
<1>4. ASSUME NEW k \in KnownNames
      PROVE  /\ blocks'[k] \in Block
             /\ blocks'[k].inv = blocks[k].inv /\ blocks'[k].tp = blocks[k].tp
             /\ blocks'[k].out = IF k = a THEN ns ELSE blocks[k].out
             /\ blocks'[k].in = IF k = b THEN ms ELSE blocks[k].in
  <2>1. PICK r \in Block : r = blocks[k]
    BY <1>1
  <2>2. PICK u : u = IF k = a THEN [r EXCEPT !.out = ns] ELSE r
    BY Zenon
  <2>3. PICK v : v = IF k = b THEN [u EXCEPT !.in = ms] ELSE u
    BY Zenon
  <2>4. /\ u \in Block /\ u.inv = r.inv /\ u.tp = r.tp /\ u.in = r.in
        /\ u.out = IF k = a THEN ns ELSE r.out
    BY <2>2, Zenon DEF Block
  <2>5. /\ v \in Block /\ v.inv = u.inv /\ v.tp = u.tp /\ v.out = u.out
        /\ v.in = IF k = b THEN ms ELSE u.in
    BY <2>3, <2>4, ZenonT(40) DEF Block
  <2>6. bl[k] = u /\ blocks'[k] = v
    BY <1>1, <1>2, <1>3, <2>1, <2>2, <2>3, Zenon
  <2> QED BY <2>1, <2>4, <2>5, <2>6, Zenon
<1>5. ASSUME NEW k \in Names, blocks[k] = None PROVE blocks'[k] = None
  <2>1. k # a /\ k # b
    BY <1>1, <1>5
  <2> QED BY <1>2, <1>3, <1>5, <2>1, Zenon
<1>6. \A k \in Names : blocks'[k] \in Block \cup {None} /\ (blocks'[k] = None <=> blocks[k] = None)
  BY <1>4, <1>5, NoneAssumption, ZenonT(40) DEF KnownNames, Known
<1>7. KnownNames' = KnownNames
  BY <1>6, Zenon DEF KnownNames, Known
<1>8. blocks' \in [Names -> Block \cup {None}]
  BY <1>3, <1>6, ZenonT(40)
<1>9. \A k \in KnownNames : Wired(blocks'[k], blocks[k], k, a, b, ns, ms)
  BY <1>4, Zenon DEF Wired
<1> QED BY <1>7, <1>8, <1>9, Zenon

LEMMA RewiredPeers ==
  ASSUME LinkInv, SameBlocks, SameLinks, NEW a \in KnownNames, NEW b \in KnownNames,
         NEW ns, NEW ms, NEW os, NEW ps,
         Peers(ns, os, KnownNames, m_map), Peers(ms, ps, KnownNames, m_map),
         NEW k \in KnownNames, NEW u,
         Wired(u, blocks[k], k, a, b, ns, ms),
         outPeers' = [outPeers EXCEPT ![m_map[a]] = os],
         inPeers' = [inPeers EXCEPT ![m_map[b]] = ps]
  PROVE  /\ Peers(u.out, outPeers'[m_map[k]], KnownNames, m_map)
         /\ Peers(u.in, inPeers'[m_map[k]], KnownNames, m_map)
<1>1. /\ outPeers = [o \in Objs |-> outPeers[o]] /\ inPeers = [o \in Objs |-> inPeers[o]]
  BY DEF LinkInv, Addresses
<1>2. m_map[k] \in Objs /\ k \in Names /\ a \in Names /\ b \in Names /\ Has(k)
  BY KnownTypes, Zenon
<1>3. (m_map[k] = m_map[a] <=> k = a) /\ (m_map[k] = m_map[b] <=> k = b)
  BY <1>2 DEF SameBlocks
<1>4. PICK x, y : x = outPeers'[m_map[k]] /\ y = inPeers'[m_map[k]]
  OBVIOUS
<1>5. /\ x = IF k = a THEN os ELSE outPeers[m_map[k]]
      /\ y = IF k = b THEN ps ELSE inPeers[m_map[k]]
  BY <1>1, <1>2, <1>3, <1>4, SMTT(30)
<1>6. /\ u.out = IF k = a THEN ns ELSE blocks[k].out
      /\ u.in = IF k = b THEN ms ELSE blocks[k].in
  BY DEF Wired
<1>7. /\ Peers(blocks[k].out, outPeers[m_map[k]], KnownNames, m_map)
      /\ Peers(blocks[k].in, inPeers[m_map[k]], KnownNames, m_map)
  BY Zenon DEF SameLinks
<1>8. Peers(u.out, x, KnownNames, m_map)
  <2>1. CASE k = a
    <3>1. u.out = ns /\ x = os
      BY <1>5, <1>6, <2>1
    <3> QED BY <3>1, ZenonT(40)
  <2>2. CASE k # a
    <3>1. u.out = blocks[k].out /\ x = outPeers[m_map[k]]
      BY <1>5, <1>6, <2>2
    <3> QED BY <1>7, <3>1, ZenonT(40)
  <2> QED BY <2>1, <2>2, Zenon
<1>9. Peers(u.in, y, KnownNames, m_map)
  <2>1. CASE k = b
    <3>1. u.in = ms /\ y = ps
      BY <1>5, <1>6, <2>1
    <3> QED BY <3>1, Zenon
  <2>2. CASE k # b
    <3>1. u.in = blocks[k].in /\ y = inPeers[m_map[k]]
      BY <1>5, <1>6, <2>2, SMTT(30)
    <3> QED BY <1>7, <3>1, ZenonT(40)
  <2> QED BY <2>1, <2>2, Zenon
<1> QED BY <1>4, <1>8, <1>9, Zenon

\* Steps that change nothing but the links.
LEMMA LinkTables ==
  ASSUME Tables, blocks' \in [Names -> Block \cup {None}], KnownNames' = KnownNames,
         \A k \in KnownNames : /\ blocks'[k].inv = blocks[k].inv /\ blocks'[k].tp = blocks[k].tp
                               /\ Peers(blocks'[k].out, outPeers'[m_map[k]], KnownNames, m_map)
                               /\ Peers(blocks'[k].in, inPeers'[m_map[k]], KnownNames, m_map),
         UNCHANGED <<m_map, invocation, m_list, thread_pools, handles, tpBlocks>>,
         phase' # "none"
  PROVE  Tables'
<1>0. SameBlocks /\ SameLinks /\ SamePools /\ SameTasks
  BY SMTT(30) DEF Tables
<1>3. \A k \in Names : (k \in KnownNames <=> Known(k)) /\ (k \in KnownNames' <=> Known(k)')
  BY DEF KnownNames
<1>5. SameBlocks'
  <2>1. ASSUME NEW k \in Names
        PROVE  /\ Known(k)' <=> Has(k)'
               /\ Known(k)' => invocation'[k] = blocks'[k].inv
    <3>1. Known(k)' <=> Known(k)
      BY <1>3, Zenon
    <3>2. Has(k)' <=> Has(k)
      BY SMTT(30) DEF Has
    <3>3. Known(k) => invocation'[k] = blocks'[k].inv
      BY <1>0, <1>3 DEF SameBlocks
    <3>4. Known(k) <=> Has(k)
      BY <1>0, Zenon DEF SameBlocks
    <3> QED BY <3>1, <3>2, <3>3, <3>4, Zenon
  <2>2. invocation' \in [Names -> Invocations]
    BY <1>0, ZenonT(40) DEF SameBlocks
  <2>3. \A k, l \in Names : Has(k)' /\ m_map'[k] = m_map'[l] => k = l
    BY <1>0 DEF SameBlocks, Has
  <2> QED BY <2>1, <2>2, <2>3, Zenon DEF SameBlocks
<1>6. m_map' = m_map
  OBVIOUS
<1>7. SameLinks'
  BY <1>6, Zenon DEF SameLinks
<1>8. SamePools'
  BY <1>0, SMTT(30) DEF SamePools
<1>9. \A q : BlocksOf(q)' = BlocksOf(q)
  BY SMTT(30) DEF BlocksOf
<1>10. SameTasks'
  BY <1>0, <1>9 DEF SameTasks
<1> QED BY <1>5, <1>7, <1>8, <1>10, SMTT(30) DEF Tables, NothingLeft

\* The in field of b after the out field of a changed is still the old one.
LEMMA OtherField ==
  ASSUME SameBlocks, NEW a \in KnownNames, NEW b \in KnownNames, NEW ns \in Seq(Names), NEW bl,
         bl = [blocks EXCEPT ![a].out = ns]
  PROVE  bl[b].in = blocks[b].in
<1>1. /\ blocks \in [Names -> Block \cup {None}] /\ b \in Names /\ blocks[b] \in Block
  BY DEF SameBlocks, KnownNames, Known
<1>2. bl[b] = IF b = a THEN [blocks[b] EXCEPT !.out = ns] ELSE blocks[b]
  BY <1>1
<1>3. PICK r \in Block : r = blocks[b]
  BY <1>1
<1>4. [r EXCEPT !.out = ns].in = r.in
  BY DEF Block
<1> QED BY <1>2, <1>3, <1>4, Zenon

\* A step that gives a the peers ns and b the peers ms, in both languages.
LEMMA ChangeLink ==
  ASSUME IInv, tidy, NEW a \in KnownNames, NEW b \in KnownNames,
         NEW ns \in Seq(Names), NEW ms \in Seq(Names), NEW os, NEW ps, NEW bl,
         Peers(ns, os, KnownNames, m_map), Peers(ms, ps, KnownNames, m_map),
         bl = [blocks EXCEPT ![a].out = ns], blocks' = [bl EXCEPT ![b].in = ms],
         outPeers' = [outPeers EXCEPT ![m_map[a]] = os],
         inPeers' = [inPeers EXCEPT ![m_map[b]] = ps],
         UNCHANGED <<m_map, invocation, m_list, thread_pools, handles, tpBlocks>>,
         phase' # "none"
  PROVE  Tables'
<1>0. LinkInv /\ SameBlocks /\ SameLinks /\ Tables
  BY DEF IInv, Tables
<1>1. blocks' \in [Names -> Block \cup {None}] /\ KnownNames' = KnownNames
  BY <1>0, Rewired, Zenon
<1>3. \A k \in KnownNames : Wired(blocks'[k], blocks[k], k, a, b, ns, ms)
  BY <1>0, Rewired, Zenon
<1>2. ASSUME NEW k \in KnownNames
      PROVE  /\ blocks'[k].inv = blocks[k].inv /\ blocks'[k].tp = blocks[k].tp
             /\ Peers(blocks'[k].out, outPeers'[m_map[k]], KnownNames, m_map)
             /\ Peers(blocks'[k].in, inPeers'[m_map[k]], KnownNames, m_map)
  <2>1. Wired(blocks'[k], blocks[k], k, a, b, ns, ms)
    BY <1>3, Zenon
  <2>2. PICK u : u = blocks'[k]
    BY Zenon
  <2>3. Wired(u, blocks[k], k, a, b, ns, ms)
    BY <2>1, <2>2, Zenon
  <2>4. Peers(u.out, outPeers'[m_map[k]], KnownNames, m_map)
    BY <1>0, <2>3, RewiredPeers, Zenon
  <2>5. Peers(u.in, inPeers'[m_map[k]], KnownNames, m_map)
    BY <1>0, <2>3, RewiredPeers, Zenon
  <2>6. u.inv = blocks[k].inv /\ u.tp = blocks[k].tp
    BY <2>3, Zenon DEF Wired
  <2> QED BY <2>2, <2>4, <2>5, <2>6, Zenon
<1> QED BY <1>0, <1>1, <1>2, LinkTables, Zenon

\* connect: a link that is new to the output gate is new to the input gate too.
LEMMA ConnectTables ==
  ASSUME IInv, tidy, NEW a \in Names, NEW b \in Names, connect(a, b), ~Linked(a, b)
  PROVE  Tables'
<1>0. LinkInv /\ SameBlocks /\ SameLinks
  BY TidyTables, Zenon
<1>1. a \in KnownNames /\ b \in KnownNames /\ phase' # "none"
  BY DEF connect, KnownNames, control
<1>2. PICK x, y, s, t, ns, ms :
        /\ x = m_map[a] /\ y = m_map[b] /\ s = outPeers[m_map[a]] /\ t = inPeers[m_map[b]]
        /\ ns = blocks[a].out /\ ms = blocks[b].in
  OBVIOUS
<1>3. /\ s \in Seq(1 .. born) /\ t \in Seq(1 .. born) /\ x \in 1 .. born /\ y \in 1 .. born
      /\ ns \in Seq(Names) /\ ms \in Seq(Names)
  BY <1>0, <1>1, <1>2, KnownTypes, Zenon
<1>4. Times(s, y) = 0
  <2>1. \A i \in 1 .. Len(s) : s[i] # y
    BY <1>2 DEF Linked, Contains
  <2> QED BY <1>3, <2>1, TimesZero, Zenon
<1>5. Times(t, x) = 0
  BY <1>0, <1>1, <1>2, <1>4, LinkedNames, ZenonT(40)
<1>6. \A i \in 1 .. Len(ns) : ns[i] # b
  <2>1. Times(outPeers[m_map[a]], m_map[b]) = 0
    BY <1>2, <1>4, Zenon
  <2>2. ~\E i \in 1 .. Len(blocks[a].out) : blocks[a].out[i] = b
    BY <1>0, <1>1, <2>1, LinkedNames, ZenonT(40)
  <2> QED BY <1>2, <2>2
<1>7. \A i \in 1 .. Len(ms) : ms[i] # a
  <2>1. Times(inPeers[m_map[b]], m_map[a]) = 0
    BY <1>2, <1>5, Zenon
  <2>2. ~\E i \in 1 .. Len(blocks[b].in) : blocks[b].in[i] = a
    BY <1>0, <1>1, <2>1, LinkedNames, Zenon
  <2> QED BY <1>2, <2>2
<1>8. Peers(ns, s, KnownNames, m_map) /\ Peers(ms, t, KnownNames, m_map)
  BY <1>0, <1>1, <1>2, Zenon DEF SameLinks
<1>9. PICK A : s \in Seq(A) /\ t \in Seq(A) /\ x \in A /\ y \in A
  BY <1>3, Zenon
<1>10. Peers(Append(ns, b), Append(s, y), KnownNames, m_map)
  BY <1>1, <1>2, <1>3, <1>6, <1>8, <1>9, PeersGrow, ZenonT(40)
<1>11. Peers(Append(ms, a), Append(t, x), KnownNames, m_map)
  BY <1>1, <1>2, <1>3, <1>7, <1>8, <1>9, PeersGrow, ZenonT(40)
<1>12. Append(ns, b) \in Seq(Names) /\ Append(ms, a) \in Seq(Names)
  BY <1>3
<1>13. PICK w, v, bl :
         /\ w \in Seq(Names) /\ w = Append(ns, b)
         /\ v \in Seq(Names) /\ v = Append(ms, a)
         /\ bl = [blocks EXCEPT ![a].out = w]
  BY <1>12, Zenon
<1>14. bl[b].in = ms
  <2>1. bl[b].in = blocks[b].in
    BY <1>0, <1>1, <1>13, OtherField
  <2> QED BY <1>2, <2>1
<1>15. blocks' = [bl EXCEPT ![b].in = v]
  <2>1. bl = [blocks EXCEPT ![a].out = Append(@, b)]
    BY <1>2, <1>13
  <2>2. blocks' = [bl EXCEPT ![b].in = Append(@, a)]
    BY <2>1 DEF connect
  <2> QED BY <1>13, <1>14, <2>2
<1>16. PICK os, ps : /\ os = Append(s, y) /\ ps = Append(t, x)
                     /\ outPeers' = [outPeers EXCEPT ![m_map[a]] = os]
                     /\ inPeers' = [inPeers EXCEPT ![m_map[b]] = ps]
  BY <1>2, Zenon DEF connect, create_connection, OutConnect, InConnect
<1>17. UNCHANGED <<m_map, invocation, m_list, thread_pools, handles, tpBlocks>>
  BY DEF connect, dirVars
<1>18. Peers(w, os, KnownNames, m_map) /\ Peers(v, ps, KnownNames, m_map)
  BY <1>10, <1>11, <1>13, <1>16, Zenon
<1> QED BY <1>1, <1>13, <1>15, <1>16, <1>17, <1>18, ChangeLink, ZenonT(40)

\* disconnect: remove of a Python list takes out the first occurrence and
\* std::remove every one, which is the same for a link that exists once.
LEMMA DisconnectTables ==
  ASSUME IInv, tidy, NEW a \in Names, NEW b \in Names, disconnect(a, b)
  PROVE  Tables'
<1>0. LinkInv /\ SameBlocks /\ SameLinks
  BY TidyTables, Zenon
<1>1. a \in KnownNames /\ b \in KnownNames /\ phase' # "none" /\ Linked(a, b)
  BY DEF disconnect, KnownNames, control
<1>2. PICK x, y, s, t, ns, ms :
        /\ x = m_map[a] /\ y = m_map[b] /\ s = outPeers[m_map[a]] /\ t = inPeers[m_map[b]]
        /\ ns = blocks[a].out /\ ms = blocks[b].in
  OBVIOUS
<1>3. s \in Seq(1 .. born) /\ t \in Seq(1 .. born) /\ ns \in Seq(Names) /\ ms \in Seq(Names)
  BY <1>0, <1>1, <1>2, KnownTypes, Zenon
<1>4. Times(s, y) # 0
  <2>1. ~\A i \in 1 .. Len(s) : s[i] # y
    BY <1>1, <1>2 DEF Linked, Contains
  <2> QED BY <1>3, <2>1, TimesZero, Zenon
<1>5. Times(t, x) # 0
  BY <1>0, <1>1, <1>2, <1>4, LinkedNames, ZenonT(40)
<1>6. PICK i \in 1 .. Len(ns) : ns[i] = b
  <2>1. Times(outPeers[m_map[a]], m_map[b]) # 0
    BY <1>2, <1>4, Zenon
  <2>2. \E i \in 1 .. Len(blocks[a].out) : blocks[a].out[i] = b
    BY <1>0, <1>1, <2>1, LinkedNames, ZenonT(40)
  <2> QED BY <1>2, <2>2
<1>7. PICK j \in 1 .. Len(ms) : ms[j] = a
  <2>1. Times(inPeers[m_map[b]], m_map[a]) # 0
    BY <1>2, <1>5, Zenon
  <2>2. \E k \in 1 .. Len(blocks[b].in) : blocks[b].in[k] = a
    BY <1>0, <1>1, <2>1, LinkedNames, Zenon
  <2> QED BY <1>2, <2>2
<1>8. Peers(ns, s, KnownNames, m_map) /\ Peers(ms, t, KnownNames, m_map)
  BY <1>0, <1>1, <1>2, Zenon DEF SameLinks
<1>9. \A k, l \in KnownNames : m_map[k] = m_map[l] => k = l
  BY <1>0 DEF SameBlocks, KnownNames
<1>10. Peers(RemoveFirst(ns, ns[i]), Drop(s, {m_map[ns[i]]}), KnownNames, m_map)
  BY <1>3, <1>8, <1>9, PeersShrink, Zenon
<1>11. Peers(RemoveFirst(ms, ms[j]), Drop(t, {m_map[ms[j]]}), KnownNames, m_map)
  BY <1>3, <1>8, <1>9, PeersShrink, Zenon
<1>12. RemoveFirst(ns, ns[i]) \in Seq(Names) /\ RemoveFirst(ms, ms[j]) \in Seq(Names)
  BY <1>3, <1>8, RemoveLeft, Zenon DEF Peers
<1>13. PICK w, v, bl :
         /\ w \in Seq(Names) /\ w = RemoveFirst(ns, b)
         /\ v \in Seq(Names) /\ v = RemoveFirst(ms, a)
         /\ bl = [blocks EXCEPT ![a].out = w]
  BY <1>6, <1>7, <1>12, Zenon
<1>14. bl[b].in = ms
  <2>1. bl[b].in = blocks[b].in
    BY <1>0, <1>1, <1>13, OtherField
  <2> QED BY <1>2, <2>1
<1>15. blocks' = [bl EXCEPT ![b].in = v]
  <2>1. bl = [blocks EXCEPT ![a].out = RemoveFirst(@, b)]
    BY <1>2, <1>13
  <2>2. blocks' = [bl EXCEPT ![b].in = RemoveFirst(@, a)]
    BY <2>1 DEF disconnect
  <2> QED BY <1>13, <1>14, <2>2
<1>16. PICK os, ps : /\ os = Drop(s, {y}) /\ ps = Drop(t, {x})
                     /\ outPeers' = [outPeers EXCEPT ![m_map[a]] = os]
                     /\ inPeers' = [inPeers EXCEPT ![m_map[b]] = ps]
  BY <1>2, ZenonT(40) DEF disconnect, delete_connection, OutDisconnect, InDisconnect, Without
<1>17. UNCHANGED <<m_map, invocation, m_list, thread_pools, handles, tpBlocks>>
  BY DEF disconnect, dirVars
<1>18. Peers(w, os, KnownNames, m_map) /\ Peers(v, ps, KnownNames, m_map)
  BY <1>2, <1>6, <1>7, <1>10, <1>11, <1>13, <1>16, ZenonT(40)
<1> QED BY <1>1, <1>13, <1>15, <1>16, <1>17, <1>18, ChangeLink, Zenon

LEMMA StopTables ==
  ASSUME IInv, tidy, stop_composition
  PROVE  Tables'
<1>0. SamePools
  BY TidyTables, ZenonT(40)
<1>1. /\ \A n \in Names : m_map'[n] = NoObj /\ blocks'[n] = None
      /\ blocks' \in [Names -> Block \cup {None}] /\ invocation' \in [Names -> Invocations]
      /\ thread_pools' = {} /\ handles' = {}
      /\ DOMAIN m_list' = DOMAIN m_list \ thread_pools
      /\ tpBlocks' = [q \in Pools |-> <<>>]
  BY DEF stop_composition, Invocations
<1>2. KnownNames' = {}
  BY <1>1 DEF KnownNames, Known
<1>3. SameBlocks'
  BY <1>1 DEF SameBlocks, Known, Has
<1>4. SamePools'
  <2>1. tpBlocks' \in [Pools -> Seq(Names)]
    BY <1>1
  <2> QED BY <1>0, <1>1, <1>2, <2>1, SMTT(30) DEF SamePools
<1> QED BY <1>1, <1>2, <1>3, <1>4 DEF Tables, SameLinks, SameTasks, NothingLeft

\* Nothing that a request removes throws.
LEMMA NothingThrown ==
  ASSUME IInv, tidy, NEW n \in KnownNames
  PROVE  Removable(n) /\ Has(n)
<1>0. LinkInv /\ SameBlocks /\ SamePools /\ SameTasks
  BY TidyTables, Zenon
<1>1. Has(n)
  BY <1>0, KnownTypes, Zenon
<1>2. ASSUME blocks[n].inv = "indirect"
      PROVE  blocks[n].tp # None /\ Contains(tpBlocks[blocks[n].tp], n)
  <2>1. PICK q : q = blocks[n].tp
    OBVIOUS
  <2>2. q \in thread_pools /\ q # None
    BY <1>0, <1>2, <2>1, NoneAssumption DEF SamePools
  <2>3. n \in BlocksOf(q)
    BY <2>1 DEF BlocksOf
  <2>4. Hold(tpBlocks[q], m_list[q], BlocksOf(q), m_map)
    BY <1>0, <2>2, Zenon DEF SameTasks
  <2>5. \E i \in 1 .. Len(tpBlocks[q]) : tpBlocks[q][i] = n
    BY <2>3, <2>4, Zenon DEF Hold
  <2> QED BY <2>1, <2>2, <2>5 DEF Contains
<1> QED BY <1>1, <1>2, Zenon DEF Removable

\* update: a Block that keeps its invocation type and its pool stays as it is.
LEMMA UpdateTables ==
  ASSUME IInv, tidy, NEW n \in Names, NEW inv, NEW q, update_pool(n, inv, q),
         inv = blocks[n].inv, inv = "direct" \/ blocks[n].tp = q
  PROVE  Tables'
<1>0. SameBlocks /\ SamePools /\ Tables
  BY SMTT(30) DEF IInv, Tables
<1>1. n \in KnownNames /\ blocks[n] \in Block
  BY <1>0 DEF update_pool, KnownNames, SameBlocks, Known
<1>2. inv = "indirect" => blocks[n].tp # None /\ blocks[n].tp = q
  BY <1>0, <1>1, NoneAssumption, Zenon DEF SamePools
<1>3. /\ blocks' = [blocks EXCEPT ![n].inv = inv] /\ phase' = "config"
      /\ UNCHANGED <<m_map, invocation, thread_pools, handles, tpBlocks, m_list, outPeers, inPeers>>
  BY <1>2, Zenon DEF update_pool, dirVars, linkVars
<1>4. blocks' = blocks
  <2>1. PICK r \in Block : r = blocks[n] /\ r.inv = inv
    BY <1>1
  <2>2. [r EXCEPT !.inv = inv] = r
    BY <2>1 DEF Block
  <2> QED BY <1>0, <1>3, <2>1, <2>2 DEF SameBlocks
<1> QED BY <1>0, <1>3, <1>4, SameTables, Zenon

-----------------------------------------------------------------------------
(* IInv is inductive *)

LEMMA TableStep ==
  ASSUME IInv, [Next]_vars, tidy'
  PROVE  Tables'
<1>1. CASE tidy /\ (\/ start_composition \/ installed \/ update_composition \/ next_section
                    \/ updated \/ refused \/ UNCHANGED vars)
  <2>1. /\ UNCHANGED <<m_map, outPeers, inPeers, m_list, blocks, thread_pools, handles, tpBlocks>>
        /\ invocation' = invocation /\ (phase' \in {phase} \/ phase' # "none")
    BY <1>1 DEF start_composition, installed, update_composition, next_section, updated, refused,
         Thrown, init_composition, vars, cppVars, pyVars, linkVars
  <2> QED BY <1>1, <2>1, SameTables, ZenonT(40) DEF IInv
<1>2. CASE update_accepted
  <2>1. /\ tidy' = tidy /\ phase' # "none" /\ Has(target)
        /\ invocation' = [invocation EXCEPT ![target] = blocks[target].inv]
        /\ UNCHANGED <<m_map, outPeers, inPeers, m_list, blocks, thread_pools, handles, tpBlocks>>
    BY <1>2, ZenonT(40) DEF update_accepted, set_invocation, linkVars, pyVars
  <2>2. Tables /\ SameBlocks
    BY <2>1, Zenon DEF IInv, Tables
  <2>3. target \in Names => invocation[target] = blocks[target].inv
    BY <2>1, <2>2 DEF SameBlocks
  <2>4. invocation' = invocation
    BY <2>1, <2>2, <2>3 DEF SameBlocks
  <2> QED BY <2>1, <2>2, <2>4, SameTables, Zenon
<1>3. CASE stop_composition
  <2>1. tidy' = tidy
    BY <1>3, Zenon DEF stop_composition
  <2> QED BY <1>3, <2>1, StopTables, Zenon
<1>4. ASSUME NEW q \in Pools, create_pool(q) PROVE Tables'
  <2>1. tidy' = tidy
    BY <1>4, Zenon DEF create_pool
  <2> QED BY <1>4, <2>1, CreatePoolTables, Zenon
<1>5. ASSUME NEW q \in Pools, delete_pool(q) PROVE Tables'
  <2>1. tidy /\ tpBlocks[q] = <<>>
    BY <1>5, Zenon DEF delete_pool
  <2> QED BY <1>5, <2>1, DeletePoolTables, Zenon
<1>6. ASSUME NEW n \in Names, NEW inv \in Invocations, NEW q \in Pools \cup {None},
             new_block(n, inv, q)
      PROVE  Tables'
  <2>1. tidy /\ ~Known(n)
    BY <1>6, Zenon DEF new_block
  <2> QED BY <1>6, <2>1, NewBlockTables, Zenon
<1>7. ASSUME NEW n \in Names, NEW inv \in Invocations, NEW q \in Pools \cup {None},
             update_pool(n, inv, q)
      PROVE  Tables'
  <2>1. tidy /\ inv = blocks[n].inv /\ (inv = "direct" \/ blocks[n].tp = q)
    BY <1>7, Zenon DEF update_pool
  <2> QED BY <1>7, <2>1, UpdateTables, Zenon
<1>8. ASSUME NEW n \in Names, delete(n) PROVE Tables'
  <2>1. tidy /\ blocks[n].out = <<>> /\ blocks[n].in = <<>>
    BY <1>8, Zenon DEF delete
  <2> QED BY <1>8, <2>1, DeleteTables, Zenon
<1>9. ASSUME NEW l \in Links, connect(l[1], l[2]) PROVE Tables'
  <2>1. l[1] \in Names /\ l[2] \in Names
    BY LinksAssumption
  <2>2. tidy /\ ~Linked(l[1], l[2])
    BY <1>9, Zenon DEF connect
  <2> QED BY <1>9, <2>1, <2>2, ConnectTables, Zenon
<1>10. ASSUME NEW l \in Links, disconnect(l[1], l[2]) PROVE Tables'
  <2>1. l[1] \in Names /\ l[2] \in Names
    BY LinksAssumption
  <2>2. tidy' = tidy
    BY <1>10, Zenon DEF disconnect
  <2> QED BY <1>10, <2>1, <2>2, DisconnectTables, Zenon
<1>11. ~update_vetoed
  BY Zenon DEF update_vetoed
<1>12. ASSUME NEW n \in Names, delete_thrown(n) PROVE FALSE
  <2>1. tidy' = tidy /\ n \in KnownNames /\ ~(Removable(n) /\ Has(n))
    BY <1>12, Zenon DEF delete_thrown, KnownNames
  <2> QED BY <2>1, NothingThrown, Zenon
<1>13. ASSUME NEW n \in Names, NEW S, stop_thrown(n, S) PROVE FALSE
  <2>1. tidy' = tidy
    BY <1>13, Zenon DEF stop_thrown
  <2>2. n \in KnownNames /\ ~(Removable(n) /\ Has(n))
    BY <1>13, Zenon DEF stop_thrown, KnownNames
  <2> QED BY <2>1, <2>2, NothingThrown, Zenon
<1>14. CASE \/ start_composition \/ installed \/ update_composition \/ next_section
            \/ updated \/ refused \/ UNCHANGED vars
  <2>1. tidy' = tidy
    BY <1>14, Zenon DEF start_composition, installed, update_composition, next_section, updated,
         refused, vars
  <2> QED BY <1>1, <1>14, <2>1, Zenon
<1> QED BY <1>2, <1>3, <1>4, <1>5, <1>6, <1>7, <1>8, <1>9, <1>10, <1>11, <1>12, <1>13, <1>14,
           ZenonT(40) DEF Next

LEMMA TidyBoolean ==
  ASSUME IInv, [Next]_vars
  PROVE  tidy' \in BOOLEAN
<1>0. tidy \in BOOLEAN
  BY DEF IInv
<1>1. CASE \/ start_composition \/ installed \/ update_composition \/ next_section \/ updated
           \/ refused \/ stop_composition \/ update_accepted \/ update_vetoed \/ UNCHANGED vars
  BY <1>0, <1>1, Zenon DEF start_composition, installed, update_composition, next_section,
       updated, refused, stop_composition, update_accepted, update_vetoed, vars
<1>2. ASSUME NEW q \in Pools, create_pool(q) \/ delete_pool(q) PROVE tidy' \in BOOLEAN
  BY <1>0, <1>2, Zenon DEF create_pool, delete_pool
<1>3. ASSUME NEW n, NEW inv, NEW q, new_block(n, inv, q) \/ update_pool(n, inv, q)
      PROVE  tidy' \in BOOLEAN
  BY <1>0, <1>3, Zenon DEF new_block, update_pool
<1>4. ASSUME NEW n, delete(n) \/ delete_thrown(n) PROVE tidy' \in BOOLEAN
  BY <1>0, <1>4, Zenon DEF delete, delete_thrown
<1>5. ASSUME NEW a, NEW b, connect(a, b) \/ disconnect(a, b) PROVE tidy' \in BOOLEAN
  BY <1>0, <1>5, Zenon DEF connect, disconnect
<1>6. ASSUME NEW n, NEW S, stop_thrown(n, S) PROVE tidy' \in BOOLEAN
  BY <1>0, <1>6, Zenon DEF stop_thrown
<1> QED BY <1>1, <1>2, <1>3, <1>4, <1>5, <1>6, Zenon DEF Next

LEMMA TableInit ==
  ASSUME Init
  PROVE  IInv
<1>1. LinkInv
  BY LinkInit
<1>2. /\ \A n \in Names : m_map[n] = NoObj /\ blocks[n] = None
      /\ blocks \in [Names -> Block \cup {None}] /\ invocation \in [Names -> Invocations]
      /\ thread_pools = {} /\ handles = {} /\ DOMAIN m_list = {}
      /\ tpBlocks = [q \in Pools |-> <<>>]
  BY DEF Init, CppInit, Invocations
<1>3. KnownNames = {}
  BY <1>2 DEF KnownNames, Known
<1>4. SameBlocks
  BY <1>2 DEF SameBlocks, Known, Has
<1>5. tpBlocks \in [Pools -> Seq(Names)]
  BY <1>2
<1>6. SamePools
  BY <1>2, <1>3, <1>5, SMTT(30) DEF SamePools
<1>7. Tables
  BY <1>2, <1>3, <1>4, <1>6, SMTT(30) DEF Tables, SameLinks, SameTasks, NothingLeft
<1>8. tidy \in BOOLEAN
  BY DEF Init
<1> QED BY <1>1, <1>7, <1>8 DEF IInv

LEMMA Invariant == Spec => []IInv
<1>1. Init => IInv
  BY TableInit
<1>2. IInv /\ [Next]_vars => IInv'
  <2> SUFFICES ASSUME IInv, [Next]_vars PROVE IInv'
    OBVIOUS
  <2>1. LinkInv'
    BY LinkStep, Zenon DEF IInv
  <2>2. tidy' \in BOOLEAN
    BY TidyBoolean, Zenon
  <2>3. tidy' => Tables'
    BY TableStep, Zenon
  <2> QED BY <2>1, <2>2, <2>3, Zenon DEF IInv
<1> QED BY <1>1, <1>2, PTL DEF Spec

-----------------------------------------------------------------------------
(* What follows from it *)

\* Under the rules every live block is in the directory.
LEMMA LiveKnown ==
  ASSUME IInv, tidy, NEW o \in Objs, Live(o)
  PROVE  \E n \in KnownNames : m_map[n] = o
<1>0. LinkInv /\ SameBlocks /\ SamePools /\ SameTasks
  BY TidyTables, Zenon
<1>1. CASE \E n \in Names : m_map[n] = o
  <2>1. PICK n \in Names : m_map[n] = o
    BY <1>1, Zenon
  <2>2. Has(n)
    BY <2>1 DEF Has, NoObj, Objs
  <2>3. n \in KnownNames
    BY <1>0, <2>2 DEF SameBlocks, KnownNames
  <2> QED BY <2>1, <2>3, Zenon
<1>2. CASE \E q \in DOMAIN m_list : Contains(m_list[q], o)
  <2>1. PICK q \in thread_pools : Contains(m_list[q], o)
    BY <1>0, <1>2, Zenon DEF SamePools
  <2>2. Hold(tpBlocks[q], m_list[q], BlocksOf(q), m_map)
    BY <1>0, Zenon DEF SameTasks
  <2>3. PICK i \in 1 .. Len(m_list[q]) : m_list[q][i] = o
    BY <2>1 DEF Contains
  <2>4. PICK n \in BlocksOf(q) : m_list[q][i] = m_map[n]
    BY <2>2 DEF Hold
  <2>5. n \in KnownNames
    BY DEF BlocksOf
  <2> QED BY <2>3, <2>4, <2>5, Zenon
<1> QED BY <1>1, <1>2, Zenon DEF Live

LEMMA PeersLive ==
  ASSUME LinkInv, SameBlocks, NEW ns, NEW os, Peers(ns, os, KnownNames, m_map),
         NEW i \in 1 .. Len(os)
  PROVE  Live(os[i])
<1>1. ns[i] \in KnownNames /\ os[i] = m_map[ns[i]]
  BY DEF Peers
<1>2. Live(m_map[ns[i]])
  BY <1>1, KnownTypes, Zenon
<1> QED BY <1>1, <1>2, Zenon

\* Composition::delete_block leaves the peers alone, and yet no gate of a live
\* block points to a destroyed one, wherever a request breaks off, if requests
\* disconnect a block before they delete it and keep the other rules.
THEOREM NoGateDangles == Spec => []TidyNoDanglingGate
<1>1. IInv => TidyNoDanglingGate
  <2> SUFFICES ASSUME IInv, tidy, NEW o \in Objs, Live(o),
                      NEW i \in DOMAIN (outPeers[o] \o inPeers[o])
               PROVE  Live((outPeers[o] \o inPeers[o])[i])
    BY Zenon DEF TidyNoDanglingGate, NoDanglingGate
  <2>0. LinkInv /\ SameBlocks /\ SameLinks
    BY TidyTables, Zenon
  <2>1. PICK n \in KnownNames : m_map[n] = o
    BY LiveKnown, Zenon
  <2>2. PICK s \in Seq(1 .. born), t \in Seq(1 .. born) : s = outPeers[o] /\ t = inPeers[o]
    BY <2>0, <2>1, KnownTypes, Zenon
  <2>3. Peers(blocks[n].out, s, KnownNames, m_map) /\ Peers(blocks[n].in, t, KnownNames, m_map)
    BY <2>0, <2>1, <2>2, Zenon DEF SameLinks
  <2>4. i \in DOMAIN (s \o t)
    BY <2>2, Zenon
  <2>5. \/ i \in 1 .. Len(s) /\ (s \o t)[i] = s[i]
        \/ i - Len(s) \in 1 .. Len(t) /\ (s \o t)[i] = t[i - Len(s)]
    BY <2>4
  <2>6. CASE i \in 1 .. Len(s) /\ (s \o t)[i] = s[i]
    <3>1. Live(s[i])
      BY <2>0, <2>3, <2>6, PeersLive, Zenon
    <3> QED BY <2>2, <2>6, <3>1, Zenon
  <2>7. CASE i - Len(s) \in 1 .. Len(t) /\ (s \o t)[i] = t[i - Len(s)]
    <3>1. Live(t[i - Len(s)])
      BY <2>0, <2>3, <2>7, PeersLive, Zenon
    <3> QED BY <2>2, <2>7, <3>1, Zenon
  <2> QED BY <2>5, <2>6, <2>7, Zenon
<1> QED BY <1>1, Invariant, PTL

LEMMA SamePeerNames ==
  ASSUME NEW S, NEW T, NEW ns \in Seq(S), NEW os \in Seq(T), Peers(ns, os, KnownNames, m_map)
  PROVE  PeerNames(ns, os)
<1>1. DOMAIN os = 1 .. Len(ns) /\ DOMAIN ns = 1 .. Len(ns)
  BY DEF Peers
<1>2. \A i \in 1 .. Len(ns) : os[i] = m_map[ns[i]]
  BY DEF Peers
<1> QED BY <1>1, <1>2 DEF PeerNames

LEMMA HeldTimes ==
  ASSUME NEW S, NEW s \in Seq(S), NEW names, NEW R, Hold(names, s, R, m_map),
         NEW n, \A k \in R : m_map[k] = m_map[n] => k = n
  PROVE  /\ n \in R => Times(s, m_map[n]) = 1
         /\ n \notin R => Times(s, m_map[n]) = 0
<1>1. ASSUME n \in R PROVE Times(s, m_map[n]) = 1
  <2>1. PICK k \in 1 .. Len(s) : s[k] = m_map[n]
    BY <1>1, Zenon DEF Hold
  <2>3. \A i, j \in 1 .. Len(s) : s[i] = s[j] => i = j
    BY Zenon DEF Hold, Distinct
  <2>2. \A i \in 1 .. Len(s) : s[i] = m_map[n] <=> i = k
    BY <2>1, <2>3
  <2> QED BY <2>2, TimesOne, Zenon
<1>2. ASSUME n \notin R PROVE Times(s, m_map[n]) = 0
  <2>1. ASSUME NEW i \in 1 .. Len(s) PROVE s[i] # m_map[n]
    <3>1. PICK k \in R : s[i] = m_map[k]
      BY Zenon DEF Hold
    <3> QED BY <1>2, <3>1, Zenon
  <2> QED BY <2>1, TimesZero, Zenon
<1> QED BY <1>1, <1>2, Zenon

\* CompositionManager, Block and ThreadPool keep tables of their own, and yet
\* they say the same as the C++ side, wherever a request breaks off, if the
\* requests keep the rules: the same blocks with the same invocation and the
\* same links, and an indirect block listed once, by its own pool.
THEOREM BothSidesAgree == Spec => []TablesAgree
<1>1. IInv => TablesAgree
  <2> SUFFICES ASSUME IInv, tidy, NEW n \in Names
               PROVE  /\ Known(n) <=> Has(n)
                      /\ Known(n) =>
                           /\ invocation[n] = blocks[n].inv
                           /\ PeerNames(blocks[n].out, outPeers[m_map[n]])
                           /\ PeerNames(blocks[n].in, inPeers[m_map[n]])
                           /\ \A q \in DOMAIN m_list :
                                Times(m_list[q], m_map[n]) = IF blocks[n].tp = q THEN 1 ELSE 0
    BY Zenon DEF TablesAgree
  <2>0. LinkInv /\ SameBlocks /\ SameLinks /\ SamePools /\ SameTasks
    BY TidyTables, Zenon
  <2>1. (Known(n) <=> Has(n)) /\ (Known(n) => invocation[n] = blocks[n].inv)
    BY <2>0, Zenon DEF SameBlocks
  <2>2. ASSUME Known(n)
        PROVE  /\ PeerNames(blocks[n].out, outPeers[m_map[n]])
               /\ PeerNames(blocks[n].in, inPeers[m_map[n]])
    <3>1. n \in KnownNames
      BY <2>2, Zenon DEF KnownNames
    <3>2. /\ Peers(blocks[n].out, outPeers[m_map[n]], KnownNames, m_map)
          /\ Peers(blocks[n].in, inPeers[m_map[n]], KnownNames, m_map)
      BY <2>0, <3>1, Zenon DEF SameLinks
    <3>3. /\ blocks[n].out \in Seq(Names) /\ blocks[n].in \in Seq(Names)
          /\ outPeers[m_map[n]] \in Seq(1 .. born) /\ inPeers[m_map[n]] \in Seq(1 .. born)
      BY <2>0, <3>1, KnownTypes, Zenon
    <3> QED BY <3>2, <3>3, SamePeerNames, Zenon
  <2>3. ASSUME Known(n), NEW q \in DOMAIN m_list
        PROVE  Times(m_list[q], m_map[n]) = IF blocks[n].tp = q THEN 1 ELSE 0
    <3>1. Hold(tpBlocks[q], m_list[q], BlocksOf(q), m_map)
      BY <2>0, Zenon DEF SamePools, SameTasks
    <3>2. m_list[q] \in Seq(1 .. born)
      BY <2>0, Zenon DEF LinkInv, Addresses
    <3>3. \A k \in BlocksOf(q) : m_map[k] = m_map[n] => k = n
      <4>1. \A k \in BlocksOf(q) : k \in Names
        BY Zenon DEF BlocksOf, KnownNames
      <4>2. Has(n)
        BY <2>1, <2>3, Zenon
      <4> QED BY <2>0, <4>1, <4>2, Zenon DEF SameBlocks
    <3>4. n \in BlocksOf(q) <=> blocks[n].tp = q
      BY <2>3, Zenon DEF BlocksOf, KnownNames
    <3>5. /\ n \in BlocksOf(q) => Times(m_list[q], m_map[n]) = 1
          /\ n \notin BlocksOf(q) => Times(m_list[q], m_map[n]) = 0
      BY <3>1, <3>2, <3>3, HeldTimes, Zenon
    <3> QED BY <3>4, <3>5, Zenon
  <2> QED BY <2>1, <2>2, <2>3, Zenon
<1> QED BY <1>1, Invariant, PTL

\* CompositionManager.remove takes the blocks and the pools out one by one; if
\* the requests kept the rules nothing is alive afterwards, on either side.
THEOREM NothingStays == Spec => []StopLeavesNothing
<1>1. IInv => StopLeavesNothing
  <2> SUFFICES ASSUME IInv, tidy, phase = "none"
               PROVE  (\A o \in Objs : ~Live(o)) /\ DOMAIN m_list = {}
    BY Zenon DEF StopLeavesNothing
  <2>1. thread_pools = {} /\ KnownNames = {} /\ DOMAIN m_list = thread_pools
    BY DEF IInv, Tables, NothingLeft, SamePools
  <2>2. ASSUME NEW o \in Objs, Live(o) PROVE FALSE
    <3>1. \E n \in KnownNames : m_map[n] = o
      BY <2>2, LiveKnown, Zenon
    <3> QED BY <2>1, <3>1, Zenon
  <2> QED BY <2>1, <2>2, Zenon
<1> QED BY <1>1, Invariant, PTL
=============================================================================
