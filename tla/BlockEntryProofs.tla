-------------------------- MODULE BlockEntryProofs ---------------------------
(***************************************************************************)
(* Proofs about the entry points of the blocks, for any blocks, links,     *)
(* threads and gates.                                                      *)
(***************************************************************************)
EXTENDS BlockEntry, WellFoundedInduction, TLAPS

Frames == [b : Blocks, pc : {"in", "lock"}, locked : BOOLEAN, todo : Seq(Links)]
          \cup [b : Blocks, pc : {"run"}, locked : {FALSE}, todo : Seq(Links), g : Nat,
                took : [Gates -> Int], had : [Gates -> Int]]

(* Frame i of n of thread t: its handler has the mutex of a direct block   *)
(* that wants it; the innermost frame alone may wait for one; run() is the *)
(* outermost frame and the block has queues.                               *)
Right(f, i, n, t, M, Y) ==
  /\ f.locked => is_direct(f.b) /\ f.pc = "in" /\ M[f.b] = t
  /\ f.pc = "in" /\ is_direct(f.b) /\ Y[f.b] => f.locked
  /\ f.pc = "lock" => is_direct(f.b) /\ i = 1
  /\ f.pc = "run" => ~is_direct(f.b) /\ i = n

(* The frames S, the owners M of the mutexes and the flags Y agree: a      *)
(* mutex is taken by one frame of its owner, and a block with queues has   *)
(* the frames of one thread.                                               *)
Agree(S, M, Y) ==
  /\ S \in [Threads -> Seq(Frames)]
  /\ M \in [Blocks -> Threads \cup {"free"}]
  /\ \A t \in Threads : \A i \in 1 .. Len(S[t]) : Right(S[t][i], i, Len(S[t]), t, M, Y)
  /\ \A t \in Threads : \A i, j \in 1 .. Len(S[t]) :
       S[t][i].locked /\ S[t][j].locked /\ S[t][i].b = S[t][j].b => i = j
  /\ \A b \in Blocks : M[b] # "free" =>
       \E i \in 1 .. Len(S[M[b]]) : S[M[b]][i].b = b /\ S[M[b]][i].locked
  /\ \A t, u \in Threads : \A i \in 1 .. Len(S[t]), j \in 1 .. Len(S[u]) :
       ~is_direct(S[t][i].b) /\ S[t][i].b = S[u][j].b => t = u

(* A run() has not taken less of a gate it has passed than was there or    *)
(* than the limit, and what it has not taken is still there.               *)
Serving(S, Q) ==
  \A t \in Threads : \A i \in 1 .. Len(S[t]) : S[t][i].pc = "run" =>
    \A h \in Gates :
      /\ Q[S[t][i].b][h] + S[t][i].took[h] >= S[t][i].had[h]
      /\ h < S[t][i].g => S[t][i].took[h] >= MAX_MSG_DEQUEUE \/ S[t][i].took[h] >= S[t][i].had[h]

Settings ==
  /\ links \in Topologies
  /\ node \in [Blocks -> [mode : STRING, sync : BOOLEAN]]
  /\ m_issynchronized \in [Blocks -> BOOLEAN]
  /\ queue \in [Blocks -> [Gates -> Nat]]
  /\ configured \in 0 .. Len(Order)
  /\ configured # Len(Order) => \A t \in Threads : stack[t] = <<>>

IInv ==
  /\ Settings
  /\ Agree(stack, mutex, m_issynchronized)
  /\ Serving(stack, queue)

-----------------------------------------------------------------------------
(* Stacks *)

(* A sequence with one more element in front, and without its first one. *)
LEMMA InFront ==
  ASSUME NEW X, NEW s \in Seq(X), NEW x \in X
  PROVE  /\ <<x>> \o s \in Seq(X) /\ Len(<<x>> \o s) = Len(s) + 1
         /\ (<<x>> \o s)[1] = x
         /\ \A i \in 2 .. Len(s) + 1 : (<<x>> \o s)[i] = s[i - 1]
OBVIOUS

LEMMA Behind ==
  ASSUME NEW X, NEW s \in Seq(X), s # <<>>
  PROVE  /\ Len(s) \in Nat /\ Len(s) >= 1 /\ Head(s) = s[1] /\ s[1] \in X
         /\ Tail(s) \in Seq(X) /\ Len(Tail(s)) = Len(s) - 1
         /\ \A i \in 1 .. Len(s) - 1 : Tail(s)[i] = s[i + 1]
OBVIOUS

(* What Agree says of one thread, one frame, two frames, one mutex. *)
LEMMA StackOf ==
  ASSUME NEW S, NEW M, NEW Y, Agree(S, M, Y), NEW t \in Threads
  PROVE  /\ S \in [Threads -> Seq(Frames)] /\ M \in [Blocks -> Threads \cup {"free"}]
         /\ S[t] \in Seq(Frames) /\ Len(S[t]) \in Nat /\ DOMAIN S[t] = 1 .. Len(S[t])
         /\ \A i \in 1 .. Len(S[t]) : S[t][i] \in Frames
         /\ S[t] # <<>> => 1 \in 1 .. Len(S[t])
<1>1. S \in [Threads -> Seq(Frames)] /\ M \in [Blocks -> Threads \cup {"free"}]
  BY Zenon DEF Agree
<1>2. PICK s \in Seq(Frames) : s = S[t]
  BY <1>1, Zenon
<1>3. /\ Len(s) \in Nat /\ DOMAIN s = 1 .. Len(s) /\ \A i \in 1 .. Len(s) : s[i] \in Frames
      /\ s # <<>> => 1 \in 1 .. Len(s)
  OBVIOUS
<1> QED BY <1>1, <1>2, <1>3, Zenon

LEMMA FrameRight ==
  ASSUME NEW S, NEW M, NEW Y, Agree(S, M, Y), NEW t \in Threads, NEW i \in 1 .. Len(S[t])
  PROVE  Right(S[t][i], i, Len(S[t]), t, M, Y) /\ S[t][i] \in Frames
<1>1. Right(S[t][i], i, Len(S[t]), t, M, Y)
  BY Zenon DEF Agree
<1> QED BY <1>1, StackOf, Zenon

LEMMA LockedOnce ==
  ASSUME NEW S, NEW M, NEW Y, Agree(S, M, Y), NEW t \in Threads, NEW i \in 1 .. Len(S[t]),
         NEW j \in 1 .. Len(S[t]), S[t][i].locked, S[t][j].locked, S[t][i].b = S[t][j].b
  PROVE  i = j
BY Zenon DEF Agree

LEMMA QueuedOnce ==
  ASSUME NEW S, NEW M, NEW Y, Agree(S, M, Y), NEW t \in Threads, NEW u \in Threads,
         NEW i \in 1 .. Len(S[t]), NEW j \in 1 .. Len(S[u]),
         ~is_direct(S[t][i].b), S[t][i].b = S[u][j].b
  PROVE  t = u
BY Zenon DEF Agree

LEMMA OwnerOf ==
  ASSUME NEW S, NEW M, NEW Y, Agree(S, M, Y), NEW b \in Blocks, M[b] # "free"
  PROVE  M[b] \in Threads /\ \E i \in 1 .. Len(S[M[b]]) : S[M[b]][i].b = b /\ S[M[b]][i].locked
<1>1. M[b] \in Threads \cup {"free"}
  BY Zenon DEF Agree
<1> QED BY <1>1, Zenon DEF Agree

LEMMA Stacks ==
  ASSUME IInv
  PROVE  /\ Agree(stack, mutex, m_issynchronized) /\ Serving(stack, queue)
         /\ stack \in [Threads -> Seq(Frames)] /\ mutex \in [Blocks -> Threads \cup {"free"}]
         /\ links \in Topologies /\ queue \in [Blocks -> [Gates -> Nat]]
         /\ queue \in [Blocks -> [Gates -> Int]]
<1>1. queue \in [Blocks -> [Gates -> Nat]] /\ links \in Topologies
  BY Zenon DEF IInv, Settings
<1>2. queue \in [Blocks -> [Gates -> Int]]
  BY <1>1
<1> QED BY <1>1, <1>2, Zenon DEF IInv, Agree

(* The frames differ at most in what they have sent and taken. *)
Like(f, h) == f.b = h.b /\ f.pc = h.pc /\ f.locked = h.locked

Alike(U, V) == Len(U) = Len(V) /\ \A i \in 1 .. Len(V) : Like(U[i], V[i])

(* A frame is put on top of a stack whose innermost one does not wait. *)
LEMMA Push ==
  ASSUME NEW S, NEW M, NEW Y, Agree(S, M, Y), NEW t \in Threads, NEW f \in Frames,
         NEW U \in Seq(Frames), Alike(U, S[t]),
         S[t] # <<>> => S[t][1].pc = "in" \/ S[t][1].pc = "run",
         ~f.locked, f.pc = "lock" => is_direct(f.b),
         f.pc = "in" /\ is_direct(f.b) => ~Y[f.b],
         f.pc = "run" => ~is_direct(f.b) /\ U = <<>>,
         is_direct(f.b) \/ (\E i \in 1 .. Len(S[t]) : S[t][i].b = f.b)
           \/ (\A u \in Threads : \A i \in 1 .. Len(S[u]) : S[u][i].b # f.b)
  PROVE  Agree([S EXCEPT ![t] = <<f>> \o U], M, Y)
<1> DEFINE V == <<f>> \o U
           R == [S EXCEPT ![t] = V]
<1>1. /\ V \in Seq(Frames) /\ Len(V) = Len(S[t]) + 1 /\ V[1] = f /\ Len(S[t]) \in Nat
      /\ \A i \in 2 .. Len(V) : i - 1 \in 1 .. Len(S[t]) /\ Like(V[i], S[t][i - 1])
  <2>1. S[t] \in Seq(Frames) /\ Len(S[t]) \in Nat
    BY StackOf, Zenon
  <2>2. Len(U) = Len(S[t]) /\ \A i \in 1 .. Len(S[t]) : Like(U[i], S[t][i])
    BY Zenon DEF Alike
  <2>3. V \in Seq(Frames) /\ Len(V) = Len(U) + 1 /\ V[1] = f /\ \A i \in 2 .. Len(U) + 1 : V[i] = U[i - 1]
    BY InFront
  <2> HIDE DEF V
  <2>4. ASSUME NEW i \in 2 .. Len(V) PROVE i - 1 \in 1 .. Len(S[t]) /\ Like(V[i], S[t][i - 1])
    <3>1. i - 1 \in 1 .. Len(S[t]) /\ i \in 2 .. Len(U) + 1
      BY <2>1, <2>2, <2>3
    <3> QED BY <2>2, <2>3, <3>1, Zenon
  <2> QED BY <2>1, <2>2, <2>3, <2>4
<1>2. R \in [Threads -> Seq(Frames)] /\ R[t] = V /\ \A u \in Threads : u # t => R[u] = S[u]
  BY <1>1, Zenon DEF Agree
<1> HIDE DEF R, V
<1>3. ASSUME NEW u \in Threads, NEW i \in 1 .. Len(R[u])
      PROVE  Right(R[u][i], i, Len(R[u]), u, M, Y)
  <2>1. CASE u # t
    BY <1>2, <1>3, <2>1, Zenon DEF Agree
  <2>2. CASE u = t /\ i = 1
    <3>1. R[u][i] = f /\ Len(R[u]) = Len(S[t]) + 1
      BY <1>1, <1>2, <2>2, Zenon
    <3>2. f.pc = "run" => Len(S[t]) = 0
      BY Zenon DEF Alike
    <3> QED BY <1>1, <2>2, <3>1, <3>2 DEF Right
  <2>3. CASE u = t /\ i # 1
    <3>1. i \in 2 .. Len(V)
      BY <1>1, <1>2, <1>3, <2>3
    <3>2. Right(S[t][i - 1], i - 1, Len(S[t]), t, M, Y) /\ Like(V[i], S[t][i - 1])
      BY <1>1, <3>1, Zenon DEF Agree
    <3>3. S[t][i - 1].pc # "lock"
      BY <1>1, <3>1, <3>2, SMTT(30) DEF Right
    <3> QED BY <1>1, <1>2, <2>3, <3>1, <3>2, <3>3, SMTT(30) DEF Right, Like
  <2> QED BY <2>1, <2>2, <2>3, Zenon
<1>4. ASSUME NEW u \in Threads, NEW i \in 1 .. Len(R[u]), NEW j \in 1 .. Len(R[u]),
             R[u][i].locked, R[u][j].locked, R[u][i].b = R[u][j].b
      PROVE  i = j
  <2>1. CASE u # t
    BY <1>2, <1>4, <2>1, Zenon DEF Agree
  <2>2. CASE u = t
    <3>1. i # 1 /\ j # 1
      BY <1>1, <1>2, <1>4, <2>2, Zenon
    <3>2. i - 1 \in 1 .. Len(S[t]) /\ j - 1 \in 1 .. Len(S[t]) /\ Like(V[i], S[t][i - 1])
          /\ Like(V[j], S[t][j - 1])
      BY <1>1, <1>2, <1>4, <2>2, <3>1
    <3>3. i - 1 = j - 1
      <4>1. PICK k \in 1 .. Len(S[t]), l \in 1 .. Len(S[t]) : k = i - 1 /\ l = j - 1
        BY <3>2, Zenon
      <4>2. S[t][k].locked /\ S[t][l].locked /\ S[t][k].b = S[t][l].b
        BY <1>2, <1>4, <2>2, <3>2, <4>1, Zenon DEF Like
      <4>3. k = l
        BY <4>2, Zenon DEF Agree
      <4> QED BY <4>1, <4>3, Zenon
    <3> QED BY <3>3, <1>1, <1>2, <2>2
  <2> QED BY <2>1, <2>2, Zenon
<1>5. ASSUME NEW b \in Blocks, M[b] # "free"
      PROVE  \E i \in 1 .. Len(R[M[b]]) : R[M[b]][i].b = b /\ R[M[b]][i].locked
  <2>1. PICK i \in 1 .. Len(S[M[b]]) : S[M[b]][i].b = b /\ S[M[b]][i].locked
    BY <1>5, Zenon DEF Agree
  <2>2. CASE M[b] # t
    <3>1. M[b] \in Threads
      BY <1>5, OwnerOf, Zenon
    <3>2. R[M[b]] = S[M[b]]
      BY <1>2, <2>2, <3>1, Zenon
    <3> QED BY <2>1, <3>2, Zenon
  <2>3. CASE M[b] = t
    <3>1. i + 1 \in 2 .. Len(V) /\ (i + 1) - 1 = i
      BY <1>1, <2>1, <2>3
    <3>2. Like(V[i + 1], S[t][i])
      BY <1>1, <3>1, Zenon
    <3> QED BY <1>1, <1>2, <2>1, <2>3, <3>1, <3>2 DEF Like
  <2> QED BY <2>2, <2>3, Zenon
<1>6. ASSUME NEW u \in Threads, NEW i \in 1 .. Len(R[u])
      PROVE  (u = t /\ R[u][i].b = f.b) \/ \E k \in 1 .. Len(S[u]) : S[u][k].b = R[u][i].b
  <2>1. CASE u # t \/ i = 1
    BY <1>1, <1>2, <1>6, <2>1, Zenon
  <2>2. CASE u = t /\ i # 1
    <3>1. i - 1 \in 1 .. Len(S[t]) /\ Like(V[i], S[t][i - 1])
      BY <1>1, <1>2, <1>6, <2>2
    <3> QED BY <1>2, <2>2, <3>1, Zenon DEF Like
  <2> QED BY <2>1, <2>2, Zenon
<1>7. ASSUME NEW u \in Threads, NEW w \in Threads, NEW i \in 1 .. Len(R[u]),
             NEW j \in 1 .. Len(R[w]), ~is_direct(R[u][i].b), R[u][i].b = R[w][j].b
      PROVE  u = w
  <2> DEFINE b == R[u][i].b
  <2>1. \A v1, v2 \in Threads : (\E k \in 1 .. Len(S[v1]) : S[v1][k].b = b)
             /\ (\E k \in 1 .. Len(S[v2]) : S[v2][k].b = b) => v1 = v2
    <3> SUFFICES ASSUME NEW v1 \in Threads, NEW v2 \in Threads, NEW k \in 1 .. Len(S[v1]),
                        S[v1][k].b = b, NEW l \in 1 .. Len(S[v2]), S[v2][l].b = b
                 PROVE  v1 = v2
      BY Zenon
    <3>1. ~is_direct(b)
      BY <1>7, Zenon
    <3> HIDE DEF b
    <3> QED BY <3>1, QueuedOnce, Zenon
  <2>2. (u = t /\ b = f.b) \/ \E k \in 1 .. Len(S[u]) : S[u][k].b = b
    BY <1>6, Zenon
  <2>3. (w = t /\ b = f.b) \/ \E k \in 1 .. Len(S[w]) : S[w][k].b = b
    BY <1>6, <1>7, Zenon
  <2>4. b = f.b => (\E k \in 1 .. Len(S[t]) : S[t][k].b = b)
                   \/ (\A v \in Threads : ~\E k \in 1 .. Len(S[v]) : S[v][k].b = b)
    BY <1>7, Zenon
  <2> HIDE DEF b
  <2> QED BY <2>1, <2>2, <2>3, <2>4, Zenon
<1>8. M \in [Blocks -> Threads \cup {"free"}]
  BY Zenon DEF Agree
<1> QED BY <1>2, <1>3, <1>4, <1>5, <1>7, <1>8, Zenon DEF Agree, R, V

(* The frames stay; what they have sent or taken may change. *)
LEMMA Keep ==
  ASSUME NEW S, NEW M, NEW Y, Agree(S, M, Y), NEW t \in Threads, NEW U \in Seq(Frames),
         Alike(U, S[t])
  PROVE  Agree([S EXCEPT ![t] = U], M, Y)
<1> DEFINE R == [S EXCEPT ![t] = U]
<1>1. /\ R \in [Threads -> Seq(Frames)]
      /\ \A u \in Threads : Len(R[u]) = Len(S[u]) /\ \A i \in 1 .. Len(S[u]) : Like(R[u][i], S[u][i])
  BY ZenonT(40) DEF Agree, Alike, Like
<1> HIDE DEF R
<1>2. ASSUME NEW u \in Threads, NEW i \in 1 .. Len(R[u])
      PROVE  Right(R[u][i], i, Len(R[u]), u, M, Y)
  <2>1. i \in 1 .. Len(S[u]) /\ Len(R[u]) = Len(S[u]) /\ Like(R[u][i], S[u][i])
    BY <1>1, <1>2, Zenon
  <2>2. Right(S[u][i], i, Len(S[u]), u, M, Y)
    BY <2>1, Zenon DEF Agree
  <2> QED BY <2>1, <2>2, Zenon DEF Right, Like
<1>3. ASSUME NEW u \in Threads, NEW i \in 1 .. Len(R[u]), NEW j \in 1 .. Len(R[u]),
             R[u][i].locked, R[u][j].locked, R[u][i].b = R[u][j].b
      PROVE  i = j
  <2>1. i \in 1 .. Len(S[u]) /\ j \in 1 .. Len(S[u]) /\ S[u][i].locked /\ S[u][j].locked
        /\ S[u][i].b = S[u][j].b
    BY <1>1, <1>3, ZenonT(40) DEF Like
  <2> QED BY <2>1, Zenon DEF Agree
<1>4. ASSUME NEW b \in Blocks, M[b] # "free"
      PROVE  \E i \in 1 .. Len(R[M[b]]) : R[M[b]][i].b = b /\ R[M[b]][i].locked
  <2>1. M[b] \in Threads
    BY <1>4, ZenonT(40) DEF Agree
  <2>2. PICK i \in 1 .. Len(S[M[b]]) : S[M[b]][i].b = b /\ S[M[b]][i].locked
    BY <1>4, Zenon DEF Agree
  <2> QED BY <1>1, <2>1, <2>2, Zenon DEF Like
<1>5. ASSUME NEW u \in Threads, NEW w \in Threads, NEW i \in 1 .. Len(R[u]),
             NEW j \in 1 .. Len(R[w]), ~is_direct(R[u][i].b), R[u][i].b = R[w][j].b
      PROVE  u = w
  <2>1. i \in 1 .. Len(S[u]) /\ j \in 1 .. Len(S[w]) /\ ~is_direct(S[u][i].b)
        /\ S[u][i].b = S[w][j].b
    BY <1>1, <1>5, Zenon DEF Like
  <2> QED BY <2>1, Zenon DEF Agree
<1> QED BY <1>1, <1>2, <1>3, <1>4, <1>5, Zenon DEF Agree, R

(* The innermost frame waits for a mutex that is free, and takes it. *)
LEMMA Take ==
  ASSUME NEW S, NEW M, NEW Y, Agree(S, M, Y), NEW t \in Threads, S[t] # <<>>,
         S[t][1].pc = "lock", M[S[t][1].b] = "free", "free" \notin Threads,
         NEW f \in Frames, f.b = S[t][1].b, f.pc = "in", f.locked
  PROVE  Agree([S EXCEPT ![t] = <<f>> \o Tail(S[t])], [M EXCEPT ![S[t][1].b] = t], Y)
<1> DEFINE V == <<f>> \o Tail(S[t])
           R == [S EXCEPT ![t] = V]
           N == [M EXCEPT ![S[t][1].b] = t]
<1>1. /\ V \in Seq(Frames) /\ Len(V) = Len(S[t]) /\ V[1] = f /\ Len(S[t]) \in Nat /\ Len(S[t]) >= 1
      /\ \A i \in 2 .. Len(S[t]) : V[i] = S[t][i]
  <2>1. S[t] \in Seq(Frames)
    BY Zenon DEF Agree
  <2>2. Tail(S[t]) \in Seq(Frames) /\ Len(Tail(S[t])) = Len(S[t]) - 1 /\ Len(S[t]) \in Nat
        /\ Len(S[t]) >= 1 /\ \A i \in 1 .. Len(S[t]) - 1 : Tail(S[t])[i] = S[t][i + 1]
    BY <2>1, Behind, Zenon
  <2>3. V \in Seq(Frames) /\ Len(V) = Len(Tail(S[t])) + 1 /\ V[1] = f
        /\ \A i \in 2 .. Len(Tail(S[t])) + 1 : V[i] = Tail(S[t])[i - 1]
    BY <2>2, InFront
  <2> HIDE DEF V
  <2> QED BY <2>2, <2>3
<1>2. R \in [Threads -> Seq(Frames)] /\ R[t] = V /\ \A u \in Threads : u # t => R[u] = S[u]
  BY <1>1, Zenon DEF Agree
<1>3. f.b \in Blocks /\ is_direct(f.b)
  <2>1. Right(S[t][1], 1, Len(S[t]), t, M, Y)
    BY StackOf, FrameRight, Zenon
  <2> QED BY <2>1, Zenon DEF Right, Frames
<1>4. N \in [Blocks -> Threads \cup {"free"}] /\ N[f.b] = t
      /\ \A b \in Blocks : b # f.b => N[b] = M[b]
  BY <1>3, Zenon DEF Agree
<1> HIDE DEF R, V, N
(* Nobody has locked the block. *)
<1>5. \A u \in Threads : \A i \in 1 .. Len(S[u]) : S[u][i].locked => S[u][i].b # f.b /\ S[u][i].b \in Blocks
  <2> TAKE u \in Threads
  <2> TAKE i \in 1 .. Len(S[u])
  <2>1. Right(S[u][i], i, Len(S[u]), u, M, Y) /\ S[u][i] \in Frames
    BY FrameRight, Zenon
  <2> QED BY <2>1, ZenonT(40) DEF Right, Frames
<1>6. ASSUME NEW u \in Threads, NEW i \in 1 .. Len(R[u])
      PROVE  Right(R[u][i], i, Len(R[u]), u, N, Y)
  <2>1. CASE u = t /\ i = 1
    BY <1>1, <1>2, <1>3, <1>4, <2>1, Zenon DEF Right
  <2>2. CASE ~(u = t /\ i = 1)
    <3>1. R[u][i] = S[u][i] /\ i \in 1 .. Len(S[u]) /\ Len(R[u]) = Len(S[u])
      BY <1>1, <1>2, <1>6, <2>2
    <3>2. Right(S[u][i], i, Len(S[u]), u, M, Y)
      BY <3>1, Zenon DEF Agree
    <3> QED BY <1>4, <1>5, <3>1, <3>2 DEF Right
  <2> QED BY <2>1, <2>2, Zenon
<1>7. ASSUME NEW u \in Threads, NEW i \in 1 .. Len(R[u]), NEW j \in 1 .. Len(R[u]),
             R[u][i].locked, R[u][j].locked, R[u][i].b = R[u][j].b
      PROVE  i = j
  <2>1. CASE u # t \/ (i # 1 /\ j # 1)
    <3>1. R[u][i] = S[u][i] /\ R[u][j] = S[u][j] /\ Len(R[u]) = Len(S[u])
      BY <1>1, <1>2, <1>7, <2>1
    <3> QED BY <1>7, <3>1 DEF Agree
  <2>2. CASE u = t /\ (i = 1 \/ j = 1)
    BY <1>1, <1>2, <1>5, <1>7, <2>2
  <2> QED BY <2>1, <2>2, Zenon
<1>8. ASSUME NEW b \in Blocks, N[b] # "free"
      PROVE  \E i \in 1 .. Len(R[N[b]]) : R[N[b]][i].b = b /\ R[N[b]][i].locked
  <2>1. CASE b = f.b
    BY <1>1, <1>2, <1>4, <2>1
  <2>2. CASE b # f.b
    <3>1. M[b] \in Threads /\ N[b] = M[b]
      <4>1. N[b] = M[b]
        BY <1>4, <2>2, Zenon
      <4>2. M[b] # "free"
        BY <1>8, <4>1, Zenon
      <4> QED BY <4>1, <4>2, OwnerOf, Zenon
    <3>2. PICK i \in 1 .. Len(S[M[b]]) : S[M[b]][i].b = b /\ S[M[b]][i].locked
      BY <1>8, <3>1, Zenon DEF Agree
    <3>3. R[M[b]][i] = S[M[b]][i] /\ Len(R[M[b]]) = Len(S[M[b]])
      <4>1. CASE M[b] # t
        BY <1>2, <3>1, <4>1, Zenon
      <4>2. CASE M[b] = t
        <5>1. i # 1
          BY <2>2, <3>2, <4>2, Zenon
        <5>2. i \in 2 .. Len(S[t])
          BY <1>1, <3>2, <4>2, <5>1
        <5>3. V[i] = S[t][i]
          BY <1>1, <5>2, Zenon
        <5> QED BY <1>1, <1>2, <4>2, <5>3, Zenon
      <4> QED BY <4>1, <4>2, Zenon
    <3> QED BY <3>1, <3>2, <3>3, Zenon
  <2> QED BY <2>1, <2>2, ZenonT(40)
<1>9. ASSUME NEW u \in Threads, NEW w \in Threads, NEW i \in 1 .. Len(R[u]),
             NEW j \in 1 .. Len(R[w]), ~is_direct(R[u][i].b), R[u][i].b = R[w][j].b
      PROVE  u = w
  <2>1. \A v \in Threads : Len(R[v]) = Len(S[v])
    BY <1>1, <1>2, Zenon
  <2>2. ASSUME NEW v \in Threads, NEW k \in 1 .. Len(S[v])
        PROVE  R[v][k].b = S[v][k].b
    <3>1. CASE v = t /\ k = 1
      BY <1>1, <1>2, <3>1, Zenon
    <3>2. CASE ~(v = t /\ k = 1)
      BY <1>1, <1>2, <3>2
    <3> QED BY <3>1, <3>2, Zenon
  <2>3. i \in 1 .. Len(S[u]) /\ j \in 1 .. Len(S[w]) /\ ~is_direct(S[u][i].b)
        /\ S[u][i].b = S[w][j].b
    BY <1>9, <2>1, <2>2, Zenon
  <2> QED BY <2>3, Zenon DEF Agree
<1> QED BY <1>2, <1>4, <1>6, <1>7, <1>8, <1>9, Zenon DEF Agree, R, V, N

(* The innermost frame is left, and gives its mutex back. *)
LEMMA Pop ==
  ASSUME NEW S, NEW M, NEW Y, Agree(S, M, Y), NEW t \in Threads, S[t] # <<>>,
         "free" \notin Threads, NEW N \in [Blocks -> Threads \cup {"free"}],
         \A b \in Blocks : N[b] = IF S[t][1].b = b /\ S[t][1].locked THEN "free" ELSE M[b]
  PROVE  Agree([S EXCEPT ![t] = Tail(S[t])], N, Y)
<1> DEFINE V == Tail(S[t])
           R == [S EXCEPT ![t] = V]
<1>1. /\ V \in Seq(Frames) /\ Len(V) = Len(S[t]) - 1 /\ Len(S[t]) \in Nat /\ Len(S[t]) >= 1
      /\ \A i \in 1 .. Len(S[t]) - 1 : V[i] = S[t][i + 1] /\ i + 1 \in 1 .. Len(S[t])
  <2>1. S[t] \in Seq(Frames)
    BY Zenon DEF Agree
  <2> QED BY <2>1, Behind
<1>2. R \in [Threads -> Seq(Frames)] /\ R[t] = V /\ \A u \in Threads : u # t => R[u] = S[u]
  BY <1>1, Zenon DEF Agree
<1> HIDE DEF R, V
(* A frame of R is one of S. *)
<1>3. ASSUME NEW u \in Threads, NEW i \in 1 .. Len(R[u])
      PROVE  \E k \in 1 .. Len(S[u]) : R[u][i] = S[u][k] /\ k = (IF u = t THEN i + 1 ELSE i)
  BY <1>1, <1>2, <1>3, Zenon
<1>4. ASSUME NEW u \in Threads, NEW i \in 1 .. Len(R[u])
      PROVE  Right(R[u][i], i, Len(R[u]), u, N, Y)
  <2>1. PICK k \in 1 .. Len(S[u]) : R[u][i] = S[u][k] /\ k = (IF u = t THEN i + 1 ELSE i)
    BY <1>3, <1>4, Zenon
  <2>2. Right(S[u][k], k, Len(S[u]), u, M, Y) /\ S[u][k] \in Frames
    BY FrameRight, Zenon
  <2>3. S[u][k].locked => N[S[u][k].b] = u
    <3> SUFFICES ASSUME S[u][k].locked PROVE N[S[u][k].b] = u
      BY Zenon
    <3>1. S[u][k].b \in Blocks /\ M[S[u][k].b] = u
      BY <2>2, Zenon DEF Right, Frames
    <3>2. ~(S[t][1].b = S[u][k].b /\ S[t][1].locked)
      <4> SUFFICES ASSUME S[t][1].b = S[u][k].b, S[t][1].locked PROVE FALSE
        BY Zenon
      <4>1. 1 \in 1 .. Len(S[t]) /\ Right(S[t][1], 1, Len(S[t]), t, M, Y)
        BY StackOf, FrameRight, Zenon
      <4>2. u = t
        BY <3>1, <4>1, Zenon DEF Right
      <4>3. k = 1
        BY <4>1, <4>2, LockedOnce, Zenon
      <4> QED BY <1>4, <2>1, <4>2, <4>3
    <3> QED BY <3>1, <3>2, Zenon
  <2>4. S[u][k].pc = "lock" => u # t
    BY <2>1, <2>2 DEF Right
  <2>5. k = Len(S[u]) => i = Len(R[u])
    BY <1>1, <1>2, <2>1
  <2> QED BY <2>1, <2>2, <2>3, <2>4, <2>5, Zenon DEF Right
<1>5. ASSUME NEW u \in Threads, NEW i \in 1 .. Len(R[u]), NEW j \in 1 .. Len(R[u]),
             R[u][i].locked, R[u][j].locked, R[u][i].b = R[u][j].b
      PROVE  i = j
  <2>1. PICK k \in 1 .. Len(S[u]) : R[u][i] = S[u][k] /\ k = (IF u = t THEN i + 1 ELSE i)
    BY <1>3, <1>5, Zenon
  <2>2. PICK l \in 1 .. Len(S[u]) : R[u][j] = S[u][l] /\ l = (IF u = t THEN j + 1 ELSE j)
    BY <1>3, <1>5, Zenon
  <2>3. k = l
    <3>1. S[u][k].locked /\ S[u][l].locked /\ S[u][k].b = S[u][l].b
      BY <1>5, <2>1, <2>2, Zenon
    <3> QED BY <3>1, LockedOnce, Zenon
  <2>4. Len(R[u]) \in Nat
    BY <1>2
  <2> QED BY <2>1, <2>2, <2>3, <2>4
<1>6. ASSUME NEW b \in Blocks, N[b] # "free"
      PROVE  \E i \in 1 .. Len(R[N[b]]) : R[N[b]][i].b = b /\ R[N[b]][i].locked
  <2>1. M[b] \in Threads /\ N[b] = M[b] /\ ~(S[t][1].b = b /\ S[t][1].locked)
    <3>1. N[b] = M[b] /\ ~(S[t][1].b = b /\ S[t][1].locked)
      BY <1>6, Zenon
    <3> QED BY <1>6, <3>1, OwnerOf, Zenon
  <2>2. PICK i \in 1 .. Len(S[M[b]]) : S[M[b]][i].b = b /\ S[M[b]][i].locked
    BY <2>1, <1>6, Zenon DEF Agree
  <2>3. CASE M[b] # t
    BY <1>2, <2>1, <2>2, <2>3
  <2>4. CASE M[b] = t
    <3>1. i # 1
      BY <2>1, <2>2, <2>4, Zenon
    <3>2. i - 1 \in 1 .. Len(S[t]) - 1 /\ (i - 1) + 1 = i
      BY <1>1, <2>2, <2>4, <3>1
    <3>3. V[i - 1] = S[t][i]
      BY <1>1, <3>2, Zenon
    <3> QED BY <1>1, <1>2, <2>1, <2>2, <2>4, <3>2, <3>3
  <2> QED BY <2>3, <2>4, Zenon
<1>7. ASSUME NEW u \in Threads, NEW w \in Threads, NEW i \in 1 .. Len(R[u]),
             NEW j \in 1 .. Len(R[w]), ~is_direct(R[u][i].b), R[u][i].b = R[w][j].b
      PROVE  u = w
  <2>1. PICK k \in 1 .. Len(S[u]) : R[u][i] = S[u][k]
    BY <1>3, <1>7, Zenon
  <2>2. PICK l \in 1 .. Len(S[w]) : R[w][j] = S[w][l]
    BY <1>3, <1>7, Zenon
  <2>3. ~is_direct(S[u][k].b) /\ S[u][k].b = S[w][l].b
    BY <1>7, <2>1, <2>2, Zenon
  <2> QED BY <2>3, QueuedOnce, Zenon
<1> QED BY <1>2, <1>4, <1>5, <1>6, <1>7, Zenon DEF Agree, R, V

(* All frames are left, and give their mutexes back. *)
LEMMA Leave ==
  ASSUME NEW S, NEW M, NEW Y, Agree(S, M, Y), NEW t \in Threads,
         "free" \notin Threads, NEW N \in [Blocks -> Threads \cup {"free"}],
         \A b \in Blocks : N[b] = IF \E i \in 1 .. Len(S[t]) : S[t][i].b = b /\ S[t][i].locked
                                  THEN "free" ELSE M[b]
  PROVE  Agree([S EXCEPT ![t] = <<>>], N, Y)
<1> DEFINE R == [S EXCEPT ![t] = <<>>]
<1>1. R \in [Threads -> Seq(Frames)] /\ Len(R[t]) = 0 /\ \A u \in Threads : u # t => R[u] = S[u]
  <2>1. S \in [Threads -> Seq(Frames)]
    BY StackOf, Zenon
  <2> QED BY <2>1
<1> HIDE DEF R
<1>2. ASSUME NEW u \in Threads, NEW i \in 1 .. Len(R[u])
      PROVE  u # t /\ i \in 1 .. Len(S[u]) /\ R[u] = S[u]
  BY <1>1, <1>2
<1>3. ASSUME NEW u \in Threads, NEW i \in 1 .. Len(R[u])
      PROVE  Right(R[u][i], i, Len(R[u]), u, N, Y)
  <2>1. u # t /\ i \in 1 .. Len(S[u]) /\ R[u] = S[u]
    BY <1>2, <1>3, Zenon
  <2>2. Right(S[u][i], i, Len(S[u]), u, M, Y) /\ S[u][i] \in Frames
    BY <2>1, FrameRight, Zenon
  <2>3. S[u][i].locked => N[S[u][i].b] = u
    <3> SUFFICES ASSUME S[u][i].locked PROVE N[S[u][i].b] = u
      BY Zenon
    <3>1. S[u][i].b \in Blocks /\ M[S[u][i].b] = u
      BY <2>2, Zenon DEF Right, Frames
    <3>2. ASSUME NEW k \in 1 .. Len(S[t]), S[t][k].b = S[u][i].b, S[t][k].locked PROVE FALSE
      <4>1. Right(S[t][k], k, Len(S[t]), t, M, Y)
        BY <3>2, Zenon DEF Agree
      <4> QED BY <2>1, <3>1, <3>2, <4>1, Zenon DEF Right
    <3> QED BY <3>1, <3>2, Zenon
  <2> QED BY <2>1, <2>2, <2>3, Zenon DEF Right
<1>4. ASSUME NEW u \in Threads, NEW i \in 1 .. Len(R[u]), NEW j \in 1 .. Len(R[u]),
             R[u][i].locked, R[u][j].locked, R[u][i].b = R[u][j].b
      PROVE  i = j
  <2>1. i \in 1 .. Len(S[u]) /\ j \in 1 .. Len(S[u]) /\ R[u] = S[u]
    BY <1>2, <1>4, Zenon
  <2>2. S[u][i].locked /\ S[u][j].locked /\ S[u][i].b = S[u][j].b
    BY <1>4, <2>1, Zenon
  <2> QED BY <2>1, <2>2, LockedOnce, Zenon
<1>5. ASSUME NEW b \in Blocks, N[b] # "free"
      PROVE  \E i \in 1 .. Len(R[N[b]]) : R[N[b]][i].b = b /\ R[N[b]][i].locked
  <2>1. M[b] \in Threads /\ N[b] = M[b] /\ ~\E i \in 1 .. Len(S[t]) : S[t][i].b = b /\ S[t][i].locked
    <3>1. N[b] = M[b] /\ ~\E i \in 1 .. Len(S[t]) : S[t][i].b = b /\ S[t][i].locked
      BY <1>5, Zenon
    <3> QED BY <1>5, <3>1, OwnerOf, Zenon
  <2>2. \E i \in 1 .. Len(S[M[b]]) : S[M[b]][i].b = b /\ S[M[b]][i].locked
    BY <2>1, <1>5, Zenon DEF Agree
  <2>3. M[b] # t
    BY <2>1, <2>2, Zenon
  <2> QED BY <1>1, <2>1, <2>2, <2>3
<1>6. ASSUME NEW u \in Threads, NEW w \in Threads, NEW i \in 1 .. Len(R[u]),
             NEW j \in 1 .. Len(R[w]), ~is_direct(R[u][i].b), R[u][i].b = R[w][j].b
      PROVE  u = w
  <2>1. i \in 1 .. Len(S[u]) /\ R[u] = S[u] /\ j \in 1 .. Len(S[w]) /\ R[w] = S[w]
    BY <1>2, <1>6, Zenon
  <2> QED BY <1>6, <2>1, QueuedOnce, ZenonT(40)
<1> QED BY <1>1, <1>3, <1>4, <1>5, <1>6 DEF Agree, R

-----------------------------------------------------------------------------
(* The messages of the gates *)

(* The frames of run() in R are as they are in S. *)
SameRuns(R, S) ==
  \A u \in Threads : \A i \in 1 .. Len(R[u]) : R[u][i].pc = "run" =>
    \E k \in 1 .. Len(S[u]) : R[u][i] = S[u][k]

NoShorter(P, Q) == \A b \in Blocks, h \in Gates : P[b][h] >= Q[b][h]

(* No run() has moved, and no queue has got shorter. *)
LEMMA Serve ==
  ASSUME NEW S, NEW Q, Serving(S, Q), NEW R, NEW P,
         Q \in [Blocks -> [Gates -> Int]], P \in [Blocks -> [Gates -> Int]],
         S \in [Threads -> Seq(Frames)],
         NoShorter(P, Q), SameRuns(R, S)
  PROVE  Serving(R, P)
<1> SUFFICES ASSUME NEW u \in Threads, NEW i \in 1 .. Len(R[u]), R[u][i].pc = "run", NEW h \in Gates
             PROVE  /\ P[R[u][i].b][h] + R[u][i].took[h] >= R[u][i].had[h]
                    /\ h < R[u][i].g => R[u][i].took[h] >= MAX_MSG_DEQUEUE \/ R[u][i].took[h] >= R[u][i].had[h]
  BY Zenon DEF Serving
<1>1. PICK k \in 1 .. Len(S[u]) : R[u][i] = S[u][k]
  BY Zenon DEF SameRuns
<1>2. PICK f \in Frames : f = R[u][i]
  BY <1>1
<1>3. f.b \in Blocks /\ f.took[h] \in Int /\ f.had[h] \in Int
  BY <1>2, Zenon DEF Frames
<1>4. /\ Q[f.b][h] + f.took[h] >= f.had[h]
      /\ h < f.g => f.took[h] >= MAX_MSG_DEQUEUE \/ f.took[h] >= f.had[h]
  BY <1>1, <1>2, Zenon DEF Serving
<1>5. P[f.b][h] \in Int /\ Q[f.b][h] \in Int /\ P[f.b][h] >= Q[f.b][h]
  BY <1>3, Zenon DEF NoShorter
<1> HIDE DEF Frames
<1> QED BY <1>2, <1>3, <1>4, <1>5, SMTT(30)

-----------------------------------------------------------------------------
(* The steps *)

LEMMA TodosType ==
  ASSUME Composed, links \in Topologies, NEW b \in Blocks
  PROVE  Todos(b) \subseteq Seq(Links)
BY DEF Composed, Todos

LEMMA HandlerType ==
  ASSUME NEW b \in Blocks, NEW todo \in Seq(Links), NEW l \in BOOLEAN
  PROVE  /\ Handler(b, todo, l) \in Frames /\ Handler(b, todo, l).b = b
         /\ Handler(b, todo, l).pc = "in" /\ Handler(b, todo, l).locked = l
<1>1. Handler(b, todo, l) \in [b : Blocks, pc : {"in", "lock"}, locked : BOOLEAN, todo : Seq(Links)]
  BY Zenon DEF Handler
<1> QED BY <1>1, Zenon DEF Handler, Frames

LEMMA WaitingType ==
  ASSUME NEW b \in Blocks
  PROVE  /\ Waiting(b) \in Frames /\ Waiting(b).b = b
         /\ Waiting(b).pc = "lock" /\ Waiting(b).locked = FALSE
<1>1. <<>> \in Seq(Links)
  OBVIOUS
<1>2. Waiting(b) \in [b : Blocks, pc : {"in", "lock"}, locked : BOOLEAN, todo : Seq(Links)]
  BY <1>1, Zenon DEF Waiting
<1> QED BY <1>2, Zenon DEF Waiting, Frames

(* A direct block is entered. *)
LEMMA EnterKeeps ==
  ASSUME Composed, IInv, NEW t \in Threads, NEW b \in Blocks, NEW what, is_direct(b),
         NEW under \in Seq(Frames), Alike(under, stack[t]),
         stack[t] # <<>> => stack[t][1].pc = "in",
         \A i \in 1 .. Len(under) : under[i].pc = "run" => under[i] = stack[t][i],
         Enter(t, b, what, under)
  PROVE  /\ Agree(stack', mutex, m_issynchronized) /\ Serving(stack', queue)
         /\ stack' \in [Threads -> Seq(Frames)]
<1>1. PICK f \in Frames : /\ stack' = [stack EXCEPT ![t] = <<f>> \o under]
                          /\ f.b = b /\ ~f.locked
                          /\ \/ f.pc = "lock"
                             \/ f.pc = "in" /\ ~m_issynchronized[b]
  <2>1. CASE m_issynchronized[b]
    BY <2>1, WaitingType, Zenon DEF Enter, Guarded
  <2>2. CASE ~m_issynchronized[b]
    <3>1. PICK todo \in Todos(b) : stack' = [stack EXCEPT ![t] = <<Handler(b, todo, FALSE)>> \o under]
      BY <2>2, Zenon DEF Enter, Guarded
    <3>2. todo \in Seq(Links)
      BY TodosType, Zenon DEF IInv, Settings
    <3> QED BY <2>2, <3>1, <3>2, HandlerType, ZenonT(40)
  <2> QED BY <2>1, <2>2, Zenon
<1>2. Agree(stack, mutex, m_issynchronized)
  BY Zenon DEF IInv
<1>3. Agree([stack EXCEPT ![t] = <<f>> \o under], mutex, m_issynchronized)
  BY <1>1, <1>2, Push, Zenon
<1>4. /\ stack \in [Threads -> Seq(Frames)] /\ stack' \in [Threads -> Seq(Frames)]
      /\ queue \in [Blocks -> [Gates -> Int]]
  BY <1>1, <1>3, Stacks, Zenon DEF Agree
<1>5. SameRuns(stack', stack)
  <2> SUFFICES ASSUME NEW u \in Threads, NEW i \in 1 .. Len(stack'[u]), stack'[u][i].pc = "run"
               PROVE  \E k \in 1 .. Len(stack[u]) : stack'[u][i] = stack[u][k]
    BY Zenon DEF SameRuns
  <2>1. CASE u # t
    BY <1>1, <1>4, <2>1, Zenon
  <2>2. CASE u = t
    <3>1. stack'[t] = <<f>> \o under
      BY <1>1, <1>4, Zenon
    <3>2. Len(stack'[t]) = Len(under) + 1 /\ stack'[t][1] = f /\ Len(under) \in Nat
          /\ \A j \in 2 .. Len(under) + 1 : stack'[t][j] = under[j - 1]
      BY <3>1, InFront
    <3>3. i - 1 \in 1 .. Len(under) /\ stack'[t][i] = under[i - 1]
      BY <1>1, <2>2, <3>2
    <3>4. PICK k \in 1 .. Len(under) : k = i - 1
      BY <3>3, Zenon
    <3>5. under[k] = stack[t][k]
      BY <2>2, <3>3, <3>4, Zenon
    <3>6. k \in 1 .. Len(stack[t])
      BY Zenon DEF Alike
    <3> QED BY <2>2, <3>3, <3>4, <3>5, <3>6, Zenon
  <2> QED BY <2>1, <2>2
<1>6. Serving(stack', queue)
  <2>1. NoShorter(queue, queue)
    BY <1>4 DEF NoShorter
  <2>2. Serving(stack, queue)
    BY Zenon DEF IInv
  <2> QED BY <1>4, <1>5, <2>1, <2>2, Serve, Zenon
<1> QED BY <1>1, <1>3, <1>4, <1>6, Zenon

LEMMA InitRight == ASSUME Composed, Init PROVE IInv
<1>1. Settings
  <2>1. node \in [Blocks -> [mode : STRING, sync : BOOLEAN]]
    BY Zenon DEF Init, Composed
  <2>2. configured \in 0 .. Len(Order)
    BY DEF Init, Composed
  <2> QED BY <2>1, <2>2, Zenon DEF Init, Settings
<1>2. \A t \in Threads : stack[t] = <<>> /\ Len(stack[t]) = 0
  BY Zenon DEF Init
<1>3. stack \in [Threads -> Seq(Frames)] /\ mutex \in [Blocks -> Threads \cup {"free"}]
  BY DEF Init
<1>4. \A b \in Blocks : mutex[b] = "free"
  BY Zenon DEF Init
<1>5. Agree(stack, mutex, m_issynchronized)
  <2>1. \A t \in Threads : \A i \in 1 .. Len(stack[t]) : FALSE
    BY <1>2
  <2> QED BY <1>3, <1>4, <2>1, Zenon DEF Agree
<1>6. Serving(stack, queue)
  <2>1. \A t \in Threads : \A i \in 1 .. Len(stack[t]) : FALSE
    BY <1>2
  <2> QED BY <2>1, Zenon DEF Serving
<1> QED BY <1>1, <1>5, <1>6, Zenon DEF IInv

LEMMA ConfigureRight == ASSUME Composed, IInv, configure PROVE IInv'
<1> DEFINE c == Order[configured + 1]
<1>1. configured \in 0 .. Len(Order) /\ configured < Len(Order) /\ Len(Order) \in Nat
  BY DEF configure, IInv, Settings, Composed
<1>2. c \in Blocks
  BY <1>1 DEF Composed
<1>3. /\ \A t \in Threads : stack[t] = <<>> /\ Len(stack[t]) = 0
      /\ stack' = stack /\ mutex' = mutex /\ queue' = queue /\ configured' = configured + 1
      /\ m_issynchronized' = [m_issynchronized EXCEPT ![c] = node[c].sync]
      /\ links' = links /\ node' = node
  BY <1>1 DEF configure, IInv, Settings
<1>4. Settings'
  <2>1. node[c].sync \in BOOLEAN
    BY <1>2, Zenon DEF IInv, Settings
  <2>2. m_issynchronized' \in [Blocks -> BOOLEAN]
    BY <1>3, <2>1, Zenon DEF IInv, Settings
  <2>3. configured' \in 0 .. Len(Order)
    BY <1>1, <1>3
  <2> QED BY <1>3, <2>2, <2>3, Zenon DEF IInv, Settings
<1>5. Agree(stack, mutex, m_issynchronized')
  <2>1. \A t \in Threads : \A i \in 1 .. Len(stack[t]) : FALSE
    BY <1>3
  <2>2. \A b \in Blocks : mutex[b] = "free"
    <3> SUFFICES ASSUME NEW b \in Blocks, mutex[b] # "free" PROVE FALSE
      BY Zenon
    <3>1. Agree(stack, mutex, m_issynchronized)
      BY Stacks, Zenon
    <3>2. mutex[b] \in Threads /\ \E i \in 1 .. Len(stack[mutex[b]]) : stack[mutex[b]][i].b = b
      <4>1. mutex[b] \in Threads /\ \E i \in 1 .. Len(stack[mutex[b]]) :
              stack[mutex[b]][i].b = b /\ stack[mutex[b]][i].locked
        BY <3>1, OwnerOf, Zenon
      <4> QED BY <4>1, Zenon
    <3> QED BY <2>1, <3>2, Zenon
  <2> QED BY <2>1, <2>2, Stacks, Zenon DEF Agree
<1> QED BY <1>3, <1>4, <1>5, Zenon DEF IInv

LEMMA TimerRight ==
  ASSUME Composed, IInv, NEW b \in Blocks, handle_timer(b)
  PROVE  IInv'
<1>1. "timer" \in Threads /\ configured = Len(Order) /\ stack["timer"] = <<>>
  BY Zenon DEF Threads, handle_timer, Enters
<1>2. UNCHANGED <<links, node, m_issynchronized, configured, mutex, queue>>
  BY Zenon DEF handle_timer
<1>3. Settings'
  BY <1>1, <1>2, Zenon DEF IInv, Settings
<1>4. CASE is_direct(b)
  <2>1. Enter("timer", b, "timer", <<>>)
    BY <1>4, Zenon DEF handle_timer
  <2>2. <<>> \in Seq(Frames) /\ Alike(<<>>, stack["timer"]) /\ Len(<<>>) = 0
    BY <1>1 DEF Alike
  <2>3. \A i \in 1 .. Len(<<>>) : <<>>[i].pc = "run" => <<>>[i] = stack["timer"][i]
    BY <2>2
  <2>4. Agree(stack', mutex, m_issynchronized) /\ Serving(stack', queue)
    BY <1>1, <1>4, <2>1, <2>2, <2>3, EnterKeeps, Zenon
  <2> QED BY <1>2, <1>3, <2>4, Zenon DEF IInv
<1>5. CASE ~is_direct(b)
  <2>1. stack' = stack
    BY <1>5, Zenon DEF handle_timer
  <2> QED BY <1>2, <1>3, <2>1, Zenon DEF IInv
<1> QED BY <1>4, <1>5, Zenon

LEMMA RunRight ==
  ASSUME Composed, IInv, NEW t \in Threads, NEW b \in Blocks, Run(t, b)
  PROVE  IInv'
<1>1. /\ configured = Len(Order) /\ stack[t] = <<>> /\ ~is_direct(b)
      /\ stack' = [stack EXCEPT ![t] = <<Running(b)>>]
      /\ UNCHANGED <<links, node, m_issynchronized, configured, mutex, queue>>
  BY Zenon DEF Run, Enters
<1>2. Agree(stack, mutex, m_issynchronized)
  BY Zenon DEF IInv
<1>3. \A u \in Threads : \A i \in 1 .. Len(stack[u]) : stack[u][i].b # b
  BY <1>2 DEF Run, Agree
<1>4. PICK f \in Frames : f = Running(b)
  <2>1. <<>> \in Seq(Links) /\ [i \in Gates |-> 0] \in [Gates -> Int] /\ queue[b] \in [Gates -> Int]
    BY DEF IInv, Settings
  <2>2. Running(b) \in [b : Blocks, pc : {"run"}, locked : {FALSE}, todo : Seq(Links), g : Nat,
                        took : [Gates -> Int], had : [Gates -> Int]]
    BY <2>1, Zenon DEF Running
  <2> QED BY <2>2, Zenon DEF Frames
<1>5. /\ f.b = b /\ f.pc = "run" /\ f.locked = FALSE /\ f.g = 0 /\ f.had = queue[b]
      /\ f.took = [i \in Gates |-> 0]
  BY <1>4, Zenon DEF Running
<1>6. <<f>> \o <<>> = <<f>> /\ <<>> \in Seq(Frames) /\ Alike(<<>>, stack[t])
  BY <1>1 DEF Alike
<1>7. Agree([stack EXCEPT ![t] = <<f>> \o <<>>], mutex, m_issynchronized)
  BY <1>1, <1>2, <1>3, <1>5, <1>6, Push, ZenonT(40)
<1>8. stack' = [stack EXCEPT ![t] = <<f>> \o <<>>]
  BY <1>1, <1>4, <1>6, Zenon
<1>9. Serving(stack', queue)
  <2> SUFFICES ASSUME NEW u \in Threads, NEW i \in 1 .. Len(stack'[u]), stack'[u][i].pc = "run",
                      NEW h \in Gates
               PROVE  /\ queue[stack'[u][i].b][h] + stack'[u][i].took[h] >= stack'[u][i].had[h]
                      /\ h < stack'[u][i].g => stack'[u][i].took[h] >= MAX_MSG_DEQUEUE
                                               \/ stack'[u][i].took[h] >= stack'[u][i].had[h]
    BY Zenon DEF Serving
  <2>1. CASE u = t
    <3>1. stack'[u] = <<f>>
      BY <1>2, <1>6, <1>8, <2>1, Zenon DEF Agree
    <3>2. stack'[u][i] = f
      BY <3>1, SMTT(30)
    <3>3. queue[b][h] \in Int /\ f.took[h] = 0 /\ f.had[h] = queue[b][h] /\ ~(h < f.g)
      BY <1>5 DEF IInv, Settings, Gates, Composed
    <3> QED BY <1>5, <3>2, <3>3
  <2>2. CASE u # t
    <3>1. stack'[u] = stack[u]
      BY <1>1, <1>2, <2>2, Zenon DEF Agree
    <3> QED BY <3>1, Zenon DEF IInv, Serving
  <2> QED BY <2>1, <2>2, Zenon
<1>10. Settings'
  BY <1>1, Zenon DEF IInv, Settings
<1> QED BY <1>1, <1>7, <1>8, <1>9, <1>10, Zenon DEF IInv

(* A thread is at work: the configuration is complete. *)
LEMMA AtWork ==
  ASSUME IInv, NEW t \in Threads, stack[t] # <<>>,
         UNCHANGED <<links, node, m_issynchronized, configured>>,
         queue' \in [Blocks -> [Gates -> Nat]]
  PROVE  Settings'
<1>1. configured = Len(Order)
  BY Zenon DEF IInv, Settings
<1> QED BY <1>1, Zenon DEF IInv, Settings

(* The innermost frame. *)
LEMMA TopFrame ==
  ASSUME IInv, NEW t \in Threads, stack[t] # <<>>
  PROVE  /\ stack[t] \in Seq(Frames) /\ Len(stack[t]) \in Nat /\ Len(stack[t]) >= 1
         /\ Top(t) = stack[t][1] /\ Top(t) \in Frames /\ Top(t).b \in Blocks
         /\ Right(Top(t), 1, Len(stack[t]), t, mutex, m_issynchronized)
<1>1. stack[t] \in Seq(Frames)
  BY Zenon DEF IInv, Agree
<1>2. Len(stack[t]) \in Nat /\ Len(stack[t]) >= 1 /\ Top(t) = stack[t][1] /\ Top(t) \in Frames
  BY <1>1, Behind, Zenon DEF Top
<1>3. Right(stack[t][1], 1, Len(stack[t]), t, mutex, m_issynchronized)
  <2>1. 1 \in 1 .. Len(stack[t])
    BY <1>2
  <2> QED BY <2>1, Stacks, FrameRight, Zenon
<1> QED BY <1>1, <1>2, <1>3, Zenon DEF Frames

LEMMA LockRight == ASSUME Composed, IInv, NEW t \in Threads, Lock(t) PROVE IInv'
<1>1. stack[t] # <<>> /\ Top(t).pc = "lock" /\ mutex[Top(t).b] = "free"
      /\ UNCHANGED <<links, node, m_issynchronized, configured, queue>>
      /\ mutex' = [mutex EXCEPT ![Top(t).b] = t]
  BY Zenon DEF Lock
<1>2. /\ Top(t) = stack[t][1] /\ Top(t).b \in Blocks /\ Len(stack[t]) >= 1
      /\ stack[t] \in Seq(Frames) /\ Len(stack[t]) \in Nat
  BY <1>1, TopFrame, Zenon
<1>3. PICK todo \in Todos(Top(t).b) :
        stack' = [stack EXCEPT ![t] = <<Handler(Top(t).b, todo, TRUE)>> \o Tail(stack[t])]
  BY Zenon DEF Lock
<1>4. todo \in Seq(Links)
  BY <1>2, TodosType, Zenon DEF IInv, Settings
<1>5. PICK f \in Frames : f = Handler(Top(t).b, todo, TRUE) /\ f.b = Top(t).b /\ f.pc = "in" /\ f.locked
  BY <1>2, <1>4, HandlerType, Zenon
<1>6. Agree(stack, mutex, m_issynchronized) /\ "free" \notin Threads
  BY Zenon DEF IInv, Composed
<1>7. Agree([stack EXCEPT ![t] = <<f>> \o Tail(stack[t])], [mutex EXCEPT ![stack[t][1].b] = t], m_issynchronized)
  BY <1>1, <1>2, <1>5, <1>6, Take, Zenon
<1>8. Agree(stack', mutex', m_issynchronized')
  BY <1>1, <1>2, <1>3, <1>5, <1>7, Zenon
<1>9. SameRuns(stack', stack)
  <2> SUFFICES ASSUME NEW u \in Threads, NEW i \in 1 .. Len(stack'[u]), stack'[u][i].pc = "run"
               PROVE  \E k \in 1 .. Len(stack[u]) : stack'[u][i] = stack[u][k]
    BY Zenon DEF SameRuns
  <2>1. CASE u # t
    BY <1>3, <1>6, <2>1, Zenon DEF Agree
  <2>2. CASE u = t
    <3>1. stack'[t] = <<f>> \o Tail(stack[t])
      BY <1>3, <1>5, <1>6, ZenonT(40) DEF Agree
    <3>2. Tail(stack[t]) \in Seq(Frames) /\ Len(Tail(stack[t])) = Len(stack[t]) - 1
          /\ \A k \in 1 .. Len(stack[t]) - 1 : Tail(stack[t])[k] = stack[t][k + 1]
      BY <1>1, <1>2, Behind, Zenon
    <3>3. Len(stack'[t]) = Len(stack[t]) /\ stack'[t][1] = f
          /\ \A k \in 2 .. Len(stack[t]) : stack'[t][k] = Tail(stack[t])[k - 1]
      BY <1>2, <3>1, <3>2, InFront
    <3>4. i \in 2 .. Len(stack[t])
      <4>1. i # 1
        BY <1>5, <2>2, <3>3, Zenon
      <4> QED BY <1>2, <2>2, <3>3, <4>1
    <3>5. i - 1 \in 1 .. Len(stack[t]) - 1 /\ (i - 1) + 1 = i
      BY <1>2, <3>4
    <3>6. stack'[t][i] = stack[t][i]
      BY <3>2, <3>3, <3>4, <3>5, Zenon
    <3> QED BY <2>2, <3>4, <3>6, SMTT(30)
  <2> QED BY <2>1, <2>2, Zenon
<1>10. Serving(stack', queue)
  <2>1. queue \in [Blocks -> [Gates -> Int]] /\ stack \in [Threads -> Seq(Frames)] /\ Serving(stack, queue)
    BY Stacks, Zenon
  <2>2. NoShorter(queue, queue)
    BY <2>1 DEF NoShorter
  <2> QED BY <1>9, <2>1, <2>2, Serve, Zenon
<1>11. Settings'
  BY <1>1, AtWork, Zenon DEF IInv, Settings
<1> QED BY <1>1, <1>8, <1>10, <1>11, Zenon DEF IInv

(* The stack of t is a rest of what it was. *)
LEMMA RestServes ==
  ASSUME IInv, NEW t \in Threads, NEW V, stack' = [stack EXCEPT ![t] = V],
         \A i \in 1 .. Len(V) : \E k \in 1 .. Len(stack[t]) : V[i] = stack[t][k]
  PROVE  Serving(stack', queue)
<1>1. queue \in [Blocks -> [Gates -> Int]] /\ stack \in [Threads -> Seq(Frames)] /\ Serving(stack, queue)
  BY Stacks, Zenon
<1>2. NoShorter(queue, queue)
  BY <1>1 DEF NoShorter
<1>3. SameRuns(stack', stack)
  <2> SUFFICES ASSUME NEW u \in Threads, NEW i \in 1 .. Len(stack'[u])
               PROVE  \E k \in 1 .. Len(stack[u]) : stack'[u][i] = stack[u][k]
    BY Zenon DEF SameRuns
  <2>1. CASE u = t
    <3>1. stack'[u] = V
      BY <1>1, <2>1, Zenon
    <3> QED BY <2>1, <3>1, Zenon
  <2>2. CASE u # t
    <3>1. stack'[u] = stack[u]
      BY <1>1, <2>2, Zenon
    <3> QED BY <3>1, Zenon
  <2> QED BY <2>1, <2>2, Zenon
<1> QED BY <1>1, <1>2, <1>3, Serve, Zenon

LEMMA ReturnRight == ASSUME Composed, IInv, NEW t \in Threads, Return(t) PROVE IInv'
<1>1. /\ stack[t] # <<>> /\ mutex' = Unlocked(<<Top(t)>>)
      /\ stack' = [stack EXCEPT ![t] = Tail(stack[t])]
      /\ UNCHANGED <<links, node, m_issynchronized, configured, queue>>
  BY Zenon DEF Return
<1>2. Top(t) = stack[t][1] /\ stack[t] \in Seq(Frames) /\ Len(stack[t]) \in Nat
  BY <1>1, TopFrame, Zenon
<1>3. Agree(stack, mutex, m_issynchronized) /\ "free" \notin Threads
      /\ mutex \in [Blocks -> Threads \cup {"free"}]
  BY Zenon DEF IInv, Composed, Agree
<1>4. \A b \in Blocks : mutex'[b] = IF stack[t][1].b = b /\ stack[t][1].locked THEN "free" ELSE mutex[b]
  <2>1. DOMAIN <<Top(t)>> = {1} /\ <<Top(t)>>[1] = Top(t)
    OBVIOUS
  <2> QED BY <1>1, <1>2, <2>1, Zenon DEF Unlocked
<1>5. mutex' \in [Blocks -> Threads \cup {"free"}]
  BY <1>1, <1>3, Zenon DEF Unlocked
<1>6. PICK N \in [Blocks -> Threads \cup {"free"}] : N = mutex'
  BY <1>5, Zenon
<1>7. Agree([stack EXCEPT ![t] = Tail(stack[t])], N, m_issynchronized)
  BY <1>1, <1>3, <1>4, <1>6, Pop, Zenon
<1>8. Serving(stack', queue)
  <2>1. \A i \in 1 .. Len(Tail(stack[t])) : \E k \in 1 .. Len(stack[t]) : Tail(stack[t])[i] = stack[t][k]
    <3>1. Len(Tail(stack[t])) = Len(stack[t]) - 1
          /\ \A k \in 1 .. Len(stack[t]) - 1 : Tail(stack[t])[k] = stack[t][k + 1]
      BY <1>1, <1>2, Behind, Zenon
    <3> QED BY <1>2, <3>1
  <2> QED BY <1>1, <2>1, RestServes, Zenon
<1>9. Settings'
  BY <1>1, AtWork, Zenon DEF IInv, Settings
<1> QED BY <1>1, <1>6, <1>7, <1>8, <1>9, Zenon DEF IInv

LEMMA ThrowRight == ASSUME Composed, IInv, NEW t \in Threads, Throw(t) PROVE IInv'
<1>1. /\ stack[t] # <<>> /\ mutex' = Unlocked(stack[t])
      /\ stack' = [stack EXCEPT ![t] = <<>>]
      /\ UNCHANGED <<links, node, m_issynchronized, configured, queue>>
  BY Zenon DEF Throw, Thrown
<1>2. stack[t] \in Seq(Frames) /\ DOMAIN stack[t] = 1 .. Len(stack[t])
  BY <1>1, TopFrame
<1>3. Agree(stack, mutex, m_issynchronized) /\ "free" \notin Threads
      /\ mutex \in [Blocks -> Threads \cup {"free"}]
  BY Zenon DEF IInv, Composed, Agree
<1>4. PICK N \in [Blocks -> Threads \cup {"free"}] : N = mutex'
  BY <1>1, <1>3, Zenon DEF Unlocked
<1>5. \A b \in Blocks : N[b] = IF \E i \in 1 .. Len(stack[t]) : stack[t][i].b = b /\ stack[t][i].locked
                               THEN "free" ELSE mutex[b]
  BY <1>1, <1>2, <1>4, Zenon DEF Unlocked
<1>6. Agree([stack EXCEPT ![t] = <<>>], N, m_issynchronized)
  BY <1>3, <1>5, Leave, Zenon
<1>7. Serving(stack', queue)
  <2>1. \A i \in 1 .. Len(<<>>) : \E k \in 1 .. Len(stack[t]) : <<>>[i] = stack[t][k]
    OBVIOUS
  <2> QED BY <1>1, <2>1, RestServes, Zenon
<1>8. Settings'
  BY <1>1, AtWork, Zenon DEF IInv, Settings
<1> QED BY <1>1, <1>4, <1>6, <1>7, <1>8, Zenon DEF IInv

(* The frames below a call: the innermost one has sent a message. *)
LEMMA UnderCall ==
  ASSUME IInv, NEW t \in Threads, stack[t] # <<>>, Top(t).pc = "in", Top(t).todo # <<>>
  PROVE  LET under == <<[Top(t) EXCEPT !.todo = Tail(@)]>> \o Tail(stack[t]) IN
         /\ under \in Seq(Frames) /\ Alike(under, stack[t])
         /\ \A i \in 1 .. Len(under) : under[i].pc = "run" => under[i] = stack[t][i]
         /\ under[1].todo = Tail(Top(t).todo)
         /\ \A i \in 2 .. Len(stack[t]) : under[i] = stack[t][i]
<1> DEFINE g == [Top(t) EXCEPT !.todo = Tail(@)]
<1>1. /\ stack[t] \in Seq(Frames) /\ Len(stack[t]) \in Nat /\ Len(stack[t]) >= 1
      /\ Top(t) = stack[t][1] /\ Top(t) \in Frames
  BY TopFrame, Zenon
<1>2. PICK f \in [b : Blocks, pc : {"in", "lock"}, locked : BOOLEAN, todo : Seq(Links)] : f = Top(t)
  BY <1>1, Zenon DEF Frames
<1>3. Tail(f.todo) \in Seq(Links)
  BY <1>2
<1>4. /\ [f EXCEPT !.todo = Tail(@)] \in [b : Blocks, pc : {"in", "lock"}, locked : BOOLEAN, todo : Seq(Links)]
      /\ Like([f EXCEPT !.todo = Tail(@)], f) /\ [f EXCEPT !.todo = Tail(@)].todo = Tail(f.todo)
  BY <1>3, Zenon DEF Like
<1>5. g \in Frames /\ Like(g, stack[t][1]) /\ g.pc = "in" /\ g.todo = Tail(Top(t).todo)
  BY <1>1, <1>2, <1>4, Zenon DEF Frames, Like
<1> HIDE DEF g
<1>6. /\ Tail(stack[t]) \in Seq(Frames) /\ Len(Tail(stack[t])) = Len(stack[t]) - 1
      /\ \A i \in 1 .. Len(stack[t]) - 1 : Tail(stack[t])[i] = stack[t][i + 1]
  BY <1>1, Behind, Zenon
<1>7. PICK U \in Seq(Frames) : U = <<g>> \o Tail(stack[t])
  BY <1>5, <1>6, InFront, Zenon
<1>8. Len(U) = Len(stack[t]) /\ U[1] = g
      /\ \A i \in 2 .. Len(stack[t]) : U[i] = Tail(stack[t])[i - 1]
  BY <1>1, <1>5, <1>6, <1>7, InFront
<1>9. ASSUME NEW i \in 2 .. Len(stack[t]) PROVE U[i] = stack[t][i]
  <2>1. i - 1 \in 1 .. Len(stack[t]) - 1 /\ (i - 1) + 1 = i
    BY <1>1
  <2> QED BY <1>6, <1>8, <2>1, Zenon
<1>10. ASSUME NEW i \in 1 .. Len(stack[t])
       PROVE  Like(U[i], stack[t][i]) /\ (U[i].pc = "run" => U[i] = stack[t][i])
  <2>1. CASE i = 1
    BY <1>5, <1>8, <2>1, Zenon
  <2>2. CASE i # 1
    <3>1. i \in 2 .. Len(stack[t])
      BY <1>1, <2>2
    <3> QED BY <1>9, <3>1, Zenon DEF Like
  <2> QED BY <2>1, <2>2, Zenon
<1>11. /\ U \in Seq(Frames) /\ Alike(U, stack[t])
       /\ \A i \in 1 .. Len(U) : U[i].pc = "run" => U[i] = stack[t][i]
       /\ U[1].todo = Tail(Top(t).todo)
       /\ \A i \in 2 .. Len(stack[t]) : U[i] = stack[t][i]
  BY <1>5, <1>8, <1>9, <1>10, Zenon DEF Alike
<1> QED BY <1>7, <1>11, Zenon DEF g

LEMMA SendRight == ASSUME Composed, IInv, NEW t \in Threads, Send(t) PROVE IInv'
<1> DEFINE l == Head(Top(t).todo)
           under == <<[Top(t) EXCEPT !.todo = Tail(@)]>> \o Tail(stack[t])
           room == queue[l.to][l.gate] < QueueSize
<1>1. /\ stack[t] # <<>> /\ Top(t).pc = "in" /\ Top(t).todo # <<>>
      /\ UNCHANGED <<links, node, m_issynchronized, configured, mutex>>
  BY Zenon DEF Send
<1>2. Top(t) = stack[t][1] /\ Top(t) \in Frames
  BY <1>1, TopFrame, Zenon
<1>3. l \in Links
  <2>1. Top(t).todo \in Seq(Links)
    BY <1>2, Zenon DEF Frames
  <2> QED BY <1>1, <2>1, Behind, Zenon
<1>4. PICK u \in Seq(Frames) : u = under
  BY <1>1, UnderCall, Zenon
<1>5. /\ Alike(u, stack[t])
      /\ \A i \in 1 .. Len(u) : u[i].pc = "run" => u[i] = stack[t][i]
  BY <1>1, <1>4, UnderCall, Zenon
<1>6. /\ Agree(stack, mutex, m_issynchronized) /\ Serving(stack, queue)
      /\ stack \in [Threads -> Seq(Frames)] /\ queue \in [Blocks -> [Gates -> Nat]]
  BY Zenon DEF IInv, Settings, Agree
<1>7. CASE is_direct(l.to)
  <2>1. Enter(t, l.to, "message", u) /\ queue' = queue
    BY <1>4, <1>7, Zenon DEF Send
  <2>2. l.to \in Blocks
    BY <1>3, Zenon DEF Links
  <2>3. Agree(stack', mutex, m_issynchronized) /\ Serving(stack', queue)
    <3> HIDE DEF l, under
    <3> QED BY <1>1, <1>2, <1>5, <1>7, <2>1, <2>2, EnterKeeps, Zenon
  <2>4. Settings'
    BY <1>1, <1>6, <2>1, AtWork, Zenon
  <2> QED BY <1>1, <2>1, <2>3, <2>4, Zenon DEF IInv
<1>8. CASE ~is_direct(l.to)
  <2>1. /\ stack' = [stack EXCEPT ![t] = u]
        /\ queue' = IF room THEN [queue EXCEPT ![l.to][l.gate] = @ + 1] ELSE queue
    BY <1>4, <1>8, Zenon DEF Send
  <2>2. l.to \in Blocks /\ l.gate \in Gates
    BY <1>3, Zenon DEF Links
  <2>3. queue' \in [Blocks -> [Gates -> Nat]] /\ NoShorter(queue', queue)
    <3> HIDE DEF l
    <3>1. CASE room
      <4>1. queue' = [queue EXCEPT ![l.to] = [queue[l.to] EXCEPT ![l.gate] = queue[l.to][l.gate] + 1]]
        BY <2>1, <3>1, Zenon
      <4>2. queue[l.to] \in [Gates -> Nat] /\ queue[l.to][l.gate] + 1 \in Nat
        BY <1>6, <2>2
      <4>3. PICK q \in [Gates -> Nat] : q = [queue[l.to] EXCEPT ![l.gate] = queue[l.to][l.gate] + 1]
        BY <4>2, Zenon
      <4>4. \A h \in Gates : q[h] >= queue[l.to][h]
        BY <1>6, <2>2, <4>2, <4>3
      <4>5. queue' = [queue EXCEPT ![l.to] = q]
        BY <4>1, <4>3, Zenon
      <4> QED BY <1>6, <2>2, <4>4, <4>5 DEF NoShorter
    <3>2. CASE ~room
      BY <1>6, <2>1, <3>2 DEF NoShorter
    <3> QED BY <3>1, <3>2, Zenon
  <2>4. Agree(stack', mutex, m_issynchronized)
    BY <1>5, <1>6, <2>1, Keep, Zenon
  <2>5. SameRuns(stack', stack)
    <3> SUFFICES ASSUME NEW v \in Threads, NEW i \in 1 .. Len(stack'[v]), stack'[v][i].pc = "run"
                 PROVE  \E k \in 1 .. Len(stack[v]) : stack'[v][i] = stack[v][k]
      BY Zenon DEF SameRuns
    <3>1. CASE v = t
      <4>1. stack'[v] = u
        BY <1>6, <2>1, <3>1, Zenon
      <4> QED BY <1>5, <3>1, <4>1, Zenon DEF Alike
    <3>2. CASE v # t
      <4>1. stack'[v] = stack[v]
        BY <1>6, <2>1, <3>2, Zenon
      <4> QED BY <4>1, Zenon
    <3> QED BY <3>1, <3>2, Zenon
  <2>6. Serving(stack', queue')
    <3>1. queue \in [Blocks -> [Gates -> Int]] /\ queue' \in [Blocks -> [Gates -> Int]]
      BY <1>6, <2>3
    <3> QED BY <1>6, <2>3, <2>5, <3>1, Serve, Zenon
  <2>7. Settings'
    BY <1>1, <2>3, AtWork, Zenon
  <2> QED BY <1>1, <2>4, <2>6, <2>7, Zenon DEF IInv
<1> QED BY <1>7, <1>8, Zenon

Runs == [b : Blocks, pc : {"run"}, locked : {FALSE}, todo : Seq(Links), g : Nat,
         took : [Gates -> Int], had : [Gates -> Int]]

(* What Serving says of one run(). *)
Serves(h, Q) ==
  \A i \in Gates : /\ Q[h.b][i] + h.took[i] >= h.had[i]
                   /\ i < h.g => h.took[i] >= MAX_MSG_DEQUEUE \/ h.took[i] >= h.had[i]

(* run() is alone on the stack of its thread. *)
LEMMA RunAlone ==
  ASSUME IInv, NEW t \in Threads, stack[t] # <<>>, Top(t).pc = "run"
  PROVE  /\ Top(t) \in Runs /\ Top(t) = stack[t][1] /\ Len(stack[t]) = 1 /\ ~is_direct(Top(t).b)
         /\ stack[t] \in Seq(Frames) /\ Serves(Top(t), queue)
         /\ \A u \in Threads : u # t => \A i \in 1 .. Len(stack[u]) : stack[u][i].b # Top(t).b
<1>1. /\ stack[t] \in Seq(Frames) /\ Top(t) = stack[t][1] /\ Top(t) \in Frames
      /\ Len(stack[t]) \in Nat /\ Len(stack[t]) >= 1
      /\ Right(Top(t), 1, Len(stack[t]), t, mutex, m_issynchronized)
  BY TopFrame, Zenon
<1>2. Top(t) \in Runs
  BY <1>1, Zenon DEF Frames, Runs
<1>3. Len(stack[t]) = 1 /\ ~is_direct(Top(t).b)
  BY <1>1, Zenon DEF Right
<1>4. Serves(Top(t), queue)
  <2>1. 1 \in 1 .. Len(stack[t])
    BY <1>1
  <2> QED BY <1>1, <2>1, Stacks, Zenon DEF Serving, Serves
<1>5. \A u \in Threads : u # t => \A i \in 1 .. Len(stack[u]) : stack[u][i].b # Top(t).b
  <2>1. 1 \in 1 .. Len(stack[t])
    BY <1>1
  <2>2. Agree(stack, mutex, m_issynchronized)
    BY Stacks, Zenon
  <2>3. ASSUME NEW u \in Threads, NEW i \in 1 .. Len(stack[u]), stack[u][i].b = Top(t).b PROVE u = t
    <3>1. ~is_direct(stack[t][1].b) /\ stack[t][1].b = stack[u][i].b
      BY <1>1, <1>3, <2>3, Zenon
    <3> QED BY <2>1, <2>2, <3>1, QueuedOnce, Zenon
  <2> QED BY <2>3, Zenon
<1> QED BY <1>1, <1>2, <1>3, <1>4, <1>5, Zenon

(* Thread t has moved, and its run() is h now. *)
Moved(t, h, S, R) ==
  /\ \A u \in Threads : u # t => R[u] = S[u]
  /\ \A i \in 1 .. Len(R[t]) : R[t][i].pc = "run" => R[t][i] = h

OtherQueues(c, P, Q) == \A b \in Blocks : b # c => P[b] = Q[b]

(* A run() has moved, and with it at most the queues of its block. *)
LEMMA RunServes ==
  ASSUME IInv, NEW t \in Threads, stack[t] # <<>>, Top(t).pc = "run", NEW h, NEW R, NEW Q,
         h.b = Top(t).b, Serves(h, Q),
         OtherQueues(h.b, Q, queue), Moved(t, h, stack, R)
  PROVE  Serving(R, Q)
<1> SUFFICES ASSUME NEW u \in Threads, NEW i \in 1 .. Len(R[u]), R[u][i].pc = "run", NEW k \in Gates
             PROVE  /\ Q[R[u][i].b][k] + R[u][i].took[k] >= R[u][i].had[k]
                    /\ k < R[u][i].g => R[u][i].took[k] >= MAX_MSG_DEQUEUE \/ R[u][i].took[k] >= R[u][i].had[k]
  BY Zenon DEF Serving
<1>1. CASE u = t
  <2>1. R[u][i] = h
    BY <1>1, Zenon DEF Moved
  <2> QED BY <2>1, Zenon DEF Serves
<1>2. CASE u # t
  <2>1. R[u] = stack[u]
    BY <1>2, Zenon DEF Moved
  <2>2. PICK f \in Frames : f = R[u][i] /\ f = stack[u][i]
    <3>1. i \in 1 .. Len(stack[u])
      BY <2>1, Zenon
    <3>2. stack[u][i] \in Frames
      BY <3>1, Stacks, FrameRight, Zenon
    <3> QED BY <2>1, <3>2, Zenon
  <2>3. f.b \in Blocks /\ f.b # h.b
    <3>1. \A v \in Threads : v # t => \A j \in 1 .. Len(stack[v]) : stack[v][j].b # Top(t).b
      BY RunAlone, Zenon
    <3>2. f.b # Top(t).b
      BY <1>2, <2>1, <2>2, <3>1, Zenon
    <3> QED BY <3>2, Zenon DEF Frames
  <2>4. /\ queue[f.b][k] + f.took[k] >= f.had[k]
        /\ k < f.g => f.took[k] >= MAX_MSG_DEQUEUE \/ f.took[k] >= f.had[k]
    BY <2>1, <2>2, Zenon DEF IInv, Serving
  <2>5. Q[f.b] = queue[f.b]
    BY <2>3, Zenon DEF OtherQueues
  <2> QED BY <2>2, <2>4, <2>5, Zenon
<1> QED BY <1>1, <1>2, Zenon

(* run() calls a handler. *)
LEMMA CallRight ==
  ASSUME Composed, IInv, NEW t \in Threads, stack[t] # <<>>, Top(t).pc = "run",
         NEW h \in Runs, h.b = Top(t).b, Serves(h, queue'),
         queue' \in [Blocks -> [Gates -> Nat]],
         OtherQueues(h.b, queue', queue),
         NEW todo \in Todos(h.b), stack' = [stack EXCEPT ![t] = <<Handler(h.b, todo, FALSE), h>>],
         UNCHANGED <<links, node, m_issynchronized, configured, mutex>>
  PROVE  IInv'
<1>1. /\ Top(t) \in Runs /\ Top(t) = stack[t][1] /\ Len(stack[t]) = 1 /\ ~is_direct(h.b)
      /\ h.b \in Blocks /\ stack[t] \in Seq(Frames)
  BY RunAlone, Zenon DEF Runs
<1>2. todo \in Seq(Links)
  BY <1>1, TodosType, Zenon DEF IInv, Settings
<1>3. PICK f \in Frames : f = Handler(h.b, todo, FALSE) /\ f.b = h.b /\ f.pc = "in" /\ f.locked = FALSE
  BY <1>1, <1>2, HandlerType, ZenonT(40)
<1>4. h \in Frames
  BY Zenon DEF Frames, Runs
<1>5. PICK U \in Seq(Frames) : U = <<h>> /\ Len(U) = 1 /\ U[1] = h
  <2>1. <<h>> \in Seq(Frames)
    BY <1>4
  <2>2. Len(<<h>>) = 1 /\ <<h>>[1] = h
    BY Zenon
  <2> QED BY <2>1, <2>2, Zenon
<1>6. Alike(U, stack[t])
  <2>1. Like(h, Top(t))
    BY <1>1, Zenon DEF Like, Runs
  <2> QED BY <1>1, <1>5, <2>1 DEF Alike
<1>7. <<f, h>> = <<f>> \o U
  BY <1>5
<1>8. Agree(stack, mutex, m_issynchronized) /\ stack \in [Threads -> Seq(Frames)]
  BY Zenon DEF IInv, Agree
<1>9. stack' = [stack EXCEPT ![t] = <<f>> \o U]
  BY <1>3, <1>7, Zenon
<1>10. Agree([stack EXCEPT ![t] = <<f>> \o U], mutex, m_issynchronized)
  <2>1. 1 \in 1 .. Len(stack[t]) /\ stack[t][1].b = f.b /\ stack[t][1].pc = "run"
    <3>1. stack[t][1].b = f.b /\ stack[t][1].pc = "run"
      BY <1>1, <1>3, ZenonT(40)
    <3> QED BY <1>1, <3>1
  <2> QED BY <1>1, <1>3, <1>6, <1>8, <2>1, Push, Zenon
<1>11. Serving(stack', queue')
  <2>1. \A u \in Threads : u # t => stack'[u] = stack[u]
    BY <1>8, Zenon
  <2>2. stack'[t] = <<f, h>>
    BY <1>3, <1>8, ZenonT(40)
  <2>3. Len(<<f, h>>) = 2 /\ <<f, h>>[1] = f /\ <<f, h>>[2] = h
    BY Zenon
  <2>4. \A i \in 1 .. 2 : <<f, h>>[i].pc = "run" => <<f, h>>[i] = h
    <3>1. \A i \in 1 .. 2 : i = 1 \/ i = 2
      OBVIOUS
    <3>2. f.pc # "run"
      BY <1>3, Zenon
    <3> QED BY <2>3, <3>1, <3>2, Zenon
  <2>5. Moved(t, h, stack, stack')
    BY <2>1, <2>2, <2>3, <2>4, Zenon DEF Moved
  <2> QED BY <2>5, RunServes
<1>12. Settings'
  BY AtWork, Zenon
<1> QED BY <1>9, <1>10, <1>11, <1>12, Zenon DEF IInv

(* run() goes on to another gate. *)
LEMMA GoRight ==
  ASSUME Composed, IInv, NEW t \in Threads, stack[t] # <<>>, Top(t).pc = "run",
         NEW h \in Runs, h.b = Top(t).b, Serves(h, queue),
         stack' = [stack EXCEPT ![t][1] = h],
         UNCHANGED <<links, node, m_issynchronized, configured, mutex, queue>>
  PROVE  IInv'
<1>1. /\ Top(t) \in Runs /\ Top(t) = stack[t][1] /\ Len(stack[t]) = 1 /\ stack[t] \in Seq(Frames)
  BY RunAlone, Zenon
<1>2. h \in Frames
  BY Zenon DEF Frames, Runs
<1>3. PICK U \in Seq(Frames) : U = [stack[t] EXCEPT ![1] = h] /\ Len(U) = 1 /\ U[1] = h
  <2>1. [stack[t] EXCEPT ![1] = h] \in Seq(Frames)
    BY <1>1, <1>2
  <2>2. Len([stack[t] EXCEPT ![1] = h]) = 1 /\ [stack[t] EXCEPT ![1] = h][1] = h
    BY <1>1, SMTT(30)
  <2> QED BY <2>1, <2>2, Zenon
<1>4. Agree(stack, mutex, m_issynchronized) /\ stack \in [Threads -> Seq(Frames)]
  BY Zenon DEF IInv, Agree
<1>5. stack' = [stack EXCEPT ![t] = U]
  BY <1>3, Zenon
<1>6. Alike(U, stack[t])
  <2>1. Like(h, Top(t))
    BY <1>1, Zenon DEF Like, Runs
  <2> QED BY <1>1, <1>3, <2>1 DEF Alike
<1>7. Agree([stack EXCEPT ![t] = U], mutex, m_issynchronized)
  BY <1>4, <1>6, Keep, Zenon
<1>8. Serving(stack', queue)
  <2>1. \A u \in Threads : u # t => stack'[u] = stack[u]
    BY <1>4, <1>5, Zenon
  <2>2. stack'[t] = U
    BY <1>4, <1>5, Zenon
  <2>3. Moved(t, h, stack, stack')
    BY <1>3, <2>1, <2>2 DEF Moved
  <2>4. OtherQueues(h.b, queue, queue)
    BY Zenon DEF OtherQueues
  <2> QED BY <2>3, <2>4, RunServes, Zenon
<1>9. Settings'
  BY AtWork, Zenon DEF IInv, Settings
<1> QED BY <1>5, <1>7, <1>8, <1>9, Zenon DEF IInv

LEMMA RunAt ==
  ASSUME NEW f \in Runs, NEW n \in Nat
  PROVE  \E h \in Runs : /\ h = [f EXCEPT !.g = n] /\ h.b = f.b /\ h.g = n
                         /\ h.took = f.took /\ h.had = f.had
<1>1. [f EXCEPT !.g = n] \in Runs
  BY Zenon DEF Runs
<1>2. LET h == [f EXCEPT !.g = n] IN h.b = f.b /\ h.g = n /\ h.took = f.took /\ h.had = f.had
  BY Zenon DEF Runs
<1> QED BY <1>1, <1>2, Zenon

LEMMA RunTook ==
  ASSUME NEW f \in Runs, NEW k \in [Gates -> Int]
  PROVE  \E h \in Runs : /\ h = [f EXCEPT !.took = k] /\ h.b = f.b /\ h.g = f.g
                         /\ h.took = k /\ h.had = f.had
<1>1. [f EXCEPT !.took = k] \in Runs
  BY Zenon DEF Runs
<1>2. LET h == [f EXCEPT !.took = k] IN h.b = f.b /\ h.g = f.g /\ h.took = k /\ h.had = f.had
  BY Zenon DEF Runs
<1> QED BY <1>1, <1>2, Zenon

LEMMA RunStepRight == ASSUME Composed, IInv, NEW t \in Threads, RunStep(t) PROVE IInv'
<1> DEFINE got(x) == queue[x.b][x.g] > 0
<1>1. /\ stack[t] # <<>> /\ Top(t).pc = "run"
      /\ UNCHANGED <<links, node, m_issynchronized, configured, mutex>>
  BY Zenon DEF RunStep
<1>2. /\ Top(t) \in Runs /\ Top(t) = stack[t][1] /\ Len(stack[t]) = 1 /\ ~is_direct(Top(t).b)
      /\ stack[t] \in Seq(Frames) /\ Serves(Top(t), queue)
  BY <1>1, RunAlone, Zenon
<1>3. PICK f \in Runs : f = Top(t)
  BY <1>2, Zenon
<1>4. /\ f.b \in Blocks /\ f.g \in Nat /\ f.took \in [Gates -> Int] /\ f.had \in [Gates -> Int]
      /\ Serves(f, queue) /\ queue \in [Blocks -> [Gates -> Nat]]
      /\ NGates \in Nat /\ MAX_MSG_DEQUEUE \in Nat
  BY <1>2, <1>3, Zenon DEF Runs, IInv, Settings, Composed
<1>5. OtherQueues(f.b, queue, queue)
  BY Zenon DEF OtherQueues
(* A handler of a timer, or _do_async. *)
<1>6. ASSUME NEW h \in Runs, h.b = f.b, Serves(h, queue), queue' = queue,
             \E todo \in Todos(f.b) : stack' = [stack EXCEPT ![t] = <<Handler(f.b, todo, FALSE), h>>]
      PROVE  IInv'
  <2>1. PICK todo \in Todos(h.b) : stack' = [stack EXCEPT ![t] = <<Handler(h.b, todo, FALSE), h>>]
    BY <1>6, Zenon
  <2>2. /\ h.b = Top(t).b /\ Serves(h, queue') /\ queue' \in [Blocks -> [Gates -> Nat]]
        /\ OtherQueues(h.b, queue', queue)
    BY <1>3, <1>4, <1>5, <1>6, Zenon
  <2> QED BY <1>1, <2>1, <2>2, CallRight, Zenon
<1>7. CASE /\ f.g = 0 /\ queue' = queue
           /\ \E todo \in Todos(f.b) : stack' = [stack EXCEPT ![t] = <<Handler(f.b, todo, FALSE), f>>]
  BY <1>4, <1>6, <1>7, Zenon
<1>8. CASE /\ f.g = 0 /\ queue' = queue /\ stack' = [stack EXCEPT ![t][1] = [f EXCEPT !.g = 1]]
  <2>1. PICK h \in Runs : /\ h = [f EXCEPT !.g = 1] /\ h.b = f.b /\ h.g = 1
                          /\ h.took = f.took /\ h.had = f.had
    BY <1>4, RunAt, Zenon
  <2>2. Serves(h, queue)
    BY <1>4, <2>1 DEF Serves, Gates
  <2> QED BY <1>1, <1>3, <1>8, <2>1, <2>2, GoRight, Zenon
<1>9. CASE /\ f.g \in Gates /\ f.took[f.g] < MAX_MSG_DEQUEUE /\ got(f)
           /\ queue' = [queue EXCEPT ![f.b][f.g] = @ - 1]
           /\ \E todo \in Todos(f.b) : stack' =
                [stack EXCEPT ![t] = <<Handler(f.b, todo, FALSE), [f EXCEPT !.took[f.g] = @ + 1]>>]
  <2>0. PICK T \in [Gates -> Int], G \in Gates : T = f.took /\ G = f.g
    BY <1>4, <1>9, Zenon
  <2>1. PICK k \in [Gates -> Int] : k = [f.took EXCEPT ![f.g] = f.took[f.g] + 1]
    <3>1. [T EXCEPT ![G] = T[G] + 1] \in [Gates -> Int]
      OBVIOUS
    <3> QED BY <2>0, <3>1, Zenon
  <2>2. PICK h \in Runs : /\ h = [f EXCEPT !.took[f.g] = @ + 1] /\ h.b = f.b /\ h.g = f.g
                          /\ h.took = k /\ h.had = f.had
    <3>1. [f EXCEPT !.took[f.g] = @ + 1] = [f EXCEPT !.took = k]
      BY <2>1, Zenon
    <3>2. PICK h \in Runs : h = [f EXCEPT !.took = k] /\ h.b = f.b /\ h.g = f.g /\ h.took = k /\ h.had = f.had
      BY RunTook, Zenon
    <3> QED BY <3>1, <3>2, Zenon
  <2>3. PICK q \in [Gates -> Nat] : q = [queue[f.b] EXCEPT ![f.g] = queue[f.b][f.g] - 1]
    <3>1. PICK E \in [Gates -> Nat] : E = queue[f.b]
      <4>1. queue[f.b] \in [Gates -> Nat]
        BY <1>4, Zenon
      <4> QED BY <4>1, Zenon
    <3>2. E[G] > 0 /\ E[G] \in Nat
      BY <1>9, <2>0, <3>1, Zenon
    <3>3. [E EXCEPT ![G] = E[G] - 1] \in [Gates -> Nat]
      BY <3>2
    <3> QED BY <2>0, <3>1, <3>3, Zenon
  <2>4. queue' = [queue EXCEPT ![f.b] = q]
    BY <1>9, <2>3, Zenon
  <2>5. /\ queue' \in [Blocks -> [Gates -> Nat]] /\ OtherQueues(f.b, queue', queue) /\ queue'[f.b] = q
    BY <1>4, <2>4, Zenon DEF OtherQueues
  <2>6. \A i \in Gates : i # f.g => k[i] = f.took[i] /\ q[i] = queue[f.b][i]
    BY <1>4, <2>1, <2>3, Zenon
  <2>7. k[f.g] = f.took[f.g] + 1 /\ q[f.g] = queue[f.b][f.g] - 1
    BY <1>4, <1>9, <2>1, <2>3, Zenon
  <2>8. Serves(h, queue')
    <3> SUFFICES ASSUME NEW i \in Gates
                 PROVE  /\ q[i] + k[i] >= f.had[i]
                        /\ i < f.g => k[i] >= MAX_MSG_DEQUEUE \/ k[i] >= f.had[i]
      BY <2>2, <2>5, Zenon DEF Serves
    <3>1. /\ queue[f.b][i] + f.took[i] >= f.had[i]
          /\ i < f.g => f.took[i] >= MAX_MSG_DEQUEUE \/ f.took[i] >= f.had[i]
      BY <1>4, Zenon DEF Serves
    <3>2. /\ queue[f.b][i] \in Nat /\ f.took[i] \in Int /\ f.had[i] \in Int /\ i \in Int /\ q[i] \in Int
          /\ k[i] \in Int
      <4>1. PICK H \in [Gates -> Int], E \in [Gates -> Nat] : H = f.had /\ E = queue[f.b]
        <5>1. queue[f.b] \in [Gates -> Nat]
          BY <1>4, Zenon
        <5> QED BY <1>4, <5>1, Zenon
      <4>2. H[i] \in Int /\ E[i] \in Nat /\ T[i] \in Int /\ i \in Int /\ q[i] \in Int /\ k[i] \in Int
        BY DEF Gates
      <4> QED BY <2>0, <4>1, <4>2, Zenon
    <3>3. CASE i # f.g
      BY <2>6, <3>1, <3>3, Zenon
    <3>4. CASE i = f.g
      BY <2>7, <3>1, <3>2, <3>4
    <3> QED BY <3>3, <3>4, Zenon
  <2>9. PICK todo \in Todos(h.b) : stack' = [stack EXCEPT ![t] = <<Handler(h.b, todo, FALSE), h>>]
    BY <1>9, <2>2, Zenon
  <2>10. h.b = Top(t).b /\ OtherQueues(h.b, queue', queue)
    BY <1>3, <2>2, <2>5, Zenon
  <2> QED BY <1>1, <2>5, <2>8, <2>9, <2>10, CallRight, Zenon
<1>10. CASE /\ f.g \in Gates /\ ~(f.took[f.g] < MAX_MSG_DEQUEUE /\ got(f)) /\ queue' = queue
            /\ stack' = [stack EXCEPT ![t][1] = [f EXCEPT !.g = f.g + 1]]
  <2>1. PICK h \in Runs : /\ h = [f EXCEPT !.g = f.g + 1] /\ h.b = f.b /\ h.g = f.g + 1
                          /\ h.took = f.took /\ h.had = f.had
    <3>1. f.g + 1 \in Nat
      BY <1>4
    <3> QED BY <3>1, RunAt, Zenon
  <2>2. Serves(h, queue)
    <3> SUFFICES ASSUME NEW i \in Gates
                 PROVE  /\ queue[f.b][i] + f.took[i] >= f.had[i]
                        /\ i < f.g + 1 => f.took[i] >= MAX_MSG_DEQUEUE \/ f.took[i] >= f.had[i]
      BY <2>1, Zenon DEF Serves
    <3>1. /\ queue[f.b][i] + f.took[i] >= f.had[i]
          /\ i < f.g => f.took[i] >= MAX_MSG_DEQUEUE \/ f.took[i] >= f.had[i]
      BY <1>4, Zenon DEF Serves
    <3>2. /\ queue[f.b][i] \in Nat /\ f.took[i] \in Int /\ f.had[i] \in Int /\ i \in Int
      BY <1>4 DEF Gates
    <3>3. CASE i # f.g
      BY <1>4, <3>1, <3>2, <3>3
    <3>4. CASE i = f.g
      BY <1>4, <1>10, <3>1, <3>2, <3>4
    <3> QED BY <3>3, <3>4, Zenon
  <2> QED BY <1>1, <1>3, <1>10, <2>1, <2>2, GoRight, Zenon
<1>11. CASE /\ f.g = NGates + 1 /\ queue' = queue
            /\ \E todo \in Todos(f.b) : stack' =
                 [stack EXCEPT ![t] = <<Handler(f.b, todo, FALSE), [f EXCEPT !.g = NGates + 2]>>]
  <2>1. PICK h \in Runs : /\ h = [f EXCEPT !.g = NGates + 2] /\ h.b = f.b /\ h.g = NGates + 2
                          /\ h.took = f.took /\ h.had = f.had
    <3>1. NGates + 2 \in Nat
      BY <1>4
    <3> QED BY <3>1, RunAt, Zenon
  <2>2. Serves(h, queue)
    BY <1>4, <1>11, <2>1 DEF Serves, Gates
  <2> QED BY <1>6, <1>11, <2>1, <2>2, Zenon
<1>12. CASE queue' = queue /\ stack' = [stack EXCEPT ![t] = <<>>]
  <2>1. Agree(stack, mutex, m_issynchronized) /\ "free" \notin Threads
        /\ mutex \in [Blocks -> Threads \cup {"free"}]
    BY Zenon DEF IInv, Composed, Agree
  <2>2. \A i \in 1 .. Len(stack[t]) : stack[t][i].locked = FALSE
    <3>1. \A i \in 1 .. Len(stack[t]) : stack[t][i] = f
      BY <1>2, <1>3
    <3>2. f.locked = FALSE
      BY Zenon DEF Runs
    <3> QED BY <3>1, <3>2, Zenon
  <2>3. \A b \in Blocks : mutex[b] = IF \E i \in 1 .. Len(stack[t]) : stack[t][i].b = b /\ stack[t][i].locked
                                     THEN "free" ELSE mutex[b]
    BY <2>2, Zenon
  <2>4. Agree([stack EXCEPT ![t] = <<>>], mutex, m_issynchronized)
    BY <2>1, <2>3, Leave, Zenon
  <2>5. \A i \in 1 .. Len(<<>>) : \E k \in 1 .. Len(stack[t]) : <<>>[i] = stack[t][k]
    OBVIOUS
  <2>6. Serving(stack', queue)
    BY <1>12, <2>5, RestServes, Zenon
  <2>7. Settings'
    BY <1>1, <1>4, <1>12, AtWork, Zenon
  <2> QED BY <1>1, <1>12, <2>4, <2>6, <2>7, Zenon DEF IInv
<1> QED BY <1>3, <1>7, <1>8, <1>9, <1>10, <1>11, <1>12, Zenon DEF RunStep, AfterGate

LEMMA StepRight == ASSUME Composed, IInv, [Next]_vars PROVE IInv'
<1>1. CASE UNCHANGED vars
  BY <1>1, Zenon DEF vars, IInv, Settings
<1>2. CASE Next
  <2>1. ASSUME NEW t \in PoolThreads, NEW b \in Blocks, Run(t, b) PROVE IInv'
    BY <2>1, RunRight, Zenon DEF Threads
  <2>2. ASSUME NEW t \in Threads, Lock(t) \/ Return(t) \/ Throw(t) \/ Send(t) \/ RunStep(t) PROVE IInv'
    BY <2>2, LockRight, ReturnRight, ThrowRight, SendRight, RunStepRight, Zenon
  <2> QED BY <1>2, <2>1, <2>2, ConfigureRight, TimerRight, Zenon DEF Next
<1> QED BY <1>1, <1>2, Zenon

LEMMA Invariant == ASSUME Composed PROVE Spec => []IInv
<1>1. Init => IInv
  BY InitRight, Zenon
<1>2. IInv /\ [Next]_vars => IInv'
  BY StepRight, Zenon
<1> QED BY <1>1, <1>2, PTL DEF Spec

(* For any composition, pools and timers: unless it said that it is        *)
(* thread-safe, a block never has two threads in its handlers, whether     *)
(* they come through receive_msg, handle_timer or run().                   *)
THEOREM BlocksAreExclusive == ASSUME Composed PROVE Spec => []OneThreadInside
<1>1. ASSUME IInv PROVE OneThreadInside
  <2> SUFFICES ASSUME NEW b \in Blocks, ~(is_direct(b) /\ ~m_issynchronized[b]),
                      NEW t \in Threads, NEW u \in Threads, Inside(t, b), Inside(u, b)
               PROVE  t = u
    BY Zenon DEF OneThreadInside
  <2>1. \A w \in Threads : DOMAIN stack[w] = 1 .. Len(stack[w])
    BY <1>1, Stacks, StackOf, Zenon
  <2>2. PICK i \in 1 .. Len(stack[t]) : stack[t][i].b = b /\ stack[t][i].pc = "in"
    BY <2>1, Zenon DEF Inside
  <2>3. PICK j \in 1 .. Len(stack[u]) : stack[u][j].b = b /\ stack[u][j].pc = "in"
    BY <2>1, Zenon DEF Inside
  <2>4. CASE is_direct(b)
    <3>1. /\ Right(stack[t][i], i, Len(stack[t]), t, mutex, m_issynchronized)
          /\ Right(stack[u][j], j, Len(stack[u]), u, mutex, m_issynchronized)
      BY <1>1, ZenonT(40) DEF IInv, Agree
    <3> QED BY <2>2, <2>3, <2>4, <3>1 DEF Right
  <2>5. CASE ~is_direct(b)
    <3>1. ~is_direct(stack[t][i].b) /\ stack[t][i].b = stack[u][j].b => t = u
      <4>1. Agree(stack, mutex, m_issynchronized)
        BY <1>1, Zenon DEF IInv
      <4> QED BY <4>1, Zenon DEF Agree
    <3>2. stack[t][i].b = b /\ stack[u][j].b = b
      BY <2>2, <2>3, Zenon
    <3> QED BY <2>5, <3>1, <3>2, Zenon
  <2> QED BY <2>4, <2>5, Zenon
<1>2. Spec => []IInv
  BY Invariant, Zenon
<1> QED BY <1>1, <1>2, PTL

(* For any number of gates and any limit: when run() comes to _do_async,   *)
(* every gate has given what it had at the beginning, or the limit.        *)
THEOREM GatesAreServed == ASSUME Composed PROVE Spec => []EveryGateServed
<1>1. ASSUME IInv PROVE EveryGateServed
  <2> SUFFICES ASSUME NEW t \in Threads, NEW i \in DOMAIN stack[t], stack[t][i].pc = "run",
                      stack[t][i].g > NGates, NEW g \in Gates
               PROVE  stack[t][i].took[g] >= MAX_MSG_DEQUEUE \/ stack[t][i].took[g] >= stack[t][i].had[g]
    BY Zenon DEF EveryGateServed
  <2>1. i \in 1 .. Len(stack[t]) /\ stack[t][i] \in Frames
    BY <1>1, Stacks, StackOf, Zenon
  <2>2. stack[t][i].g \in Nat
    BY <2>1, Zenon DEF Frames
  <2>3. g < stack[t][i].g
    BY <2>2 DEF Gates, Composed
  <2> QED BY <1>1, <2>1, <2>3, Zenon DEF IInv, Serving
<1>2. Spec => []IInv
  BY Invariant, Zenon
<1> QED BY <1>1, <1>2, PTL

-----------------------------------------------------------------------------
(* Who waits for whom *)

(* What a frame still has to send goes through links of its block. *)
Covered(f, L) == \A k \in 1 .. Len(f.todo) : \E m \in 1 .. Len(L[f.b]) : f.todo[k] = L[f.b][m]

Sends(S, L) == \A t \in Threads : \A i \in 1 .. Len(S[t]) : Covered(S[t][i], L)

(* In a stack the direct blocks are above the ones with queues, and their  *)
(* rank grows towards the top.                                             *)
Above(f, h, rank) == is_direct(h.b) => is_direct(f.b) /\ rank[h.b] < rank[f.b]

Climbs(S, rank) ==
  \A t \in Threads : \A i, j \in 1 .. Len(S[t]) : i < j => Above(S[t][i], S[t][j], rank)

RInv(rank) == IInv /\ Sends(stack, links) /\ Climbs(stack, rank)

(* The stack of one thread becomes V. *)
LEMMA RInvStep ==
  ASSUME NEW rank, RInv(rank), IInv', links' = links, NEW t \in Threads, NEW V,
         stack' = [stack EXCEPT ![t] = V],
         \A i \in 1 .. Len(V) : Covered(V[i], links),
         \A i, j \in 1 .. Len(V) : i < j =>
           \/ \E k, l \in 1 .. Len(stack[t]) : /\ k < l /\ V[i].b = stack[t][k].b
                                              /\ V[j].b = stack[t][l].b
           \/ Above(V[i], V[j], rank)
  PROVE  RInv(rank)'
<1>1. stack \in [Threads -> Seq(Frames)] /\ Sends(stack, links) /\ Climbs(stack, rank)
  BY Zenon DEF RInv, IInv, Agree
<1>2. stack'[t] = V /\ \A u \in Threads : u # t => stack'[u] = stack[u]
  BY <1>1, Zenon
<1>3. Sends(stack', links')
  BY <1>1, <1>2, Zenon DEF Sends
<1>4. ASSUME NEW u \in Threads, NEW i \in 1 .. Len(stack'[u]), NEW j \in 1 .. Len(stack'[u]), i < j
      PROVE  Above(stack'[u][i], stack'[u][j], rank)
  <2>1. CASE u # t
    BY <1>1, <1>2, <1>4, <2>1, Zenon DEF Climbs
  <2>2. CASE u = t
    <3>1. i \in 1 .. Len(V) /\ j \in 1 .. Len(V) /\ stack'[u] = V
      BY <1>2, <1>4, <2>2, Zenon
    <3>2. CASE Above(V[i], V[j], rank)
      BY <3>1, <3>2, Zenon
    <3>3. ASSUME NEW k \in 1 .. Len(stack[t]), NEW l \in 1 .. Len(stack[t]), k < l,
                 V[i].b = stack[t][k].b, V[j].b = stack[t][l].b
          PROVE  Above(V[i], V[j], rank)
      <4>1. Above(stack[t][k], stack[t][l], rank)
        BY <1>1, <3>3, Zenon DEF Climbs
      <4> QED BY <3>3, <4>1, Zenon DEF Above
    <3> QED BY <1>4, <3>1, <3>2, <3>3, Zenon
  <2> QED BY <2>1, <2>2, Zenon
<1>5. Climbs(stack', rank)
  BY <1>4, Zenon DEF Climbs
<1> QED BY <1>3, <1>5, Zenon DEF RInv

(* A new frame sends through all links of its block or through none. *)
LEMMA NewCovered ==
  ASSUME links \in Topologies, Composed, NEW b \in Blocks, NEW todo \in Todos(b), NEW l
  PROVE  Covered(Handler(b, todo, l), links)
<1>1. links[b] \in Seq(Links)
  BY Zenon DEF Composed
<1>2. \A k \in 1 .. Len(todo) : todo[k] = links[b][k] /\ k \in 1 .. Len(links[b])
  BY <1>1 DEF Todos
<1>3. Handler(b, todo, l).b = b /\ Handler(b, todo, l).todo = todo
  BY Zenon DEF Handler
<1> QED BY <1>2, <1>3, Zenon DEF Covered

LEMMA WaitingCovered == ASSUME NEW b PROVE Covered(Waiting(b), links)
<1>1. Waiting(b).todo = <<>> /\ Len(<<>>) = 0
  BY Zenon DEF Waiting
<1> QED BY <1>1 DEF Covered

(* A frame f is put on top of the frames U, which are like those of t. *)
LEMMA PushClimbs ==
  ASSUME NEW rank, RInv(rank), IInv', links' = links, NEW t \in Threads, NEW f \in Frames,
         NEW U \in Seq(Frames), Alike(U, stack[t]), stack' = [stack EXCEPT ![t] = <<f>> \o U],
         Covered(f, links), \A i \in 1 .. Len(U) : Covered(U[i], links),
         \A i \in 1 .. Len(stack[t]) : Above(f, stack[t][i], rank)
  PROVE  RInv(rank)'
<1>1. PICK V \in Seq(Frames) : V = <<f>> \o U
  BY InFront, ZenonT(40)
<1>2. Len(U) \in Nat /\ Len(V) = Len(U) + 1 /\ V[1] = f /\ \A i \in 2 .. Len(U) + 1 : V[i] = U[i - 1]
  BY <1>1, InFront
<1>3. \A i \in 2 .. Len(V) : i - 1 \in 1 .. Len(U) /\ V[i] = U[i - 1]
  BY <1>2, SMTT(30)
<1>4. ASSUME NEW i \in 1 .. Len(V) PROVE Covered(V[i], links)
  <2>1. CASE i = 1
    BY <1>2, <2>1, Zenon
  <2>2. CASE i # 1
    <3>1. i \in 2 .. Len(V)
      BY <1>2, <2>2, SMTT(30)
    <3> QED BY <1>3, <3>1, Zenon
  <2> QED BY <2>1, <2>2, Zenon
<1>5. Len(U) = Len(stack[t]) /\ \A i \in 1 .. Len(U) : U[i].b = stack[t][i].b
  BY Zenon DEF Alike, Like
<1>6. ASSUME NEW i \in 1 .. Len(V), NEW j \in 1 .. Len(V), i < j
      PROVE  \/ \E k, l \in 1 .. Len(stack[t]) : /\ k < l /\ V[i].b = stack[t][k].b
                                                 /\ V[j].b = stack[t][l].b
             \/ Above(V[i], V[j], rank)
  <2>1. j \in 2 .. Len(V)
    BY <1>2, <1>6
  <2>2. PICK l \in 1 .. Len(stack[t]) : l = j - 1 /\ V[j].b = stack[t][l].b
    BY <1>3, <1>5, <2>1, Zenon
  <2>3. CASE i = 1
    <3>1. Above(f, stack[t][l], rank)
      BY Zenon
    <3> QED BY <1>2, <2>2, <2>3, <3>1, Zenon DEF Above
  <2>4. CASE i # 1
    <3>1. i \in 2 .. Len(V)
      BY <1>2, <2>4, SMTT(30)
    <3>2. PICK k \in 1 .. Len(stack[t]) : k = i - 1 /\ V[i].b = stack[t][k].b
      BY <1>3, <1>5, <3>1, Zenon
    <3>3. k < l
      BY <1>6, <2>2, <3>2
    <3> QED BY <2>2, <3>2, <3>3, Zenon
  <2> QED BY <2>3, <2>4, Zenon
<1>7. stack' = [stack EXCEPT ![t] = V]
  BY <1>1, Zenon
<1> QED BY <1>4, <1>6, <1>7, RInvStep, Zenon

(* The frames of t stay, with the same blocks. *)
LEMMA KeepClimbs ==
  ASSUME NEW rank, RInv(rank), IInv', links' = links, NEW t \in Threads, NEW V,
         stack' = [stack EXCEPT ![t] = V], Len(V) = Len(stack[t]),
         \A i \in 1 .. Len(V) : Covered(V[i], links) /\ V[i].b = stack[t][i].b
  PROVE  RInv(rank)'
<1>1. ASSUME NEW i \in 1 .. Len(V), NEW j \in 1 .. Len(V), i < j
      PROVE  \E k, l \in 1 .. Len(stack[t]) : /\ k < l /\ V[i].b = stack[t][k].b
                                             /\ V[j].b = stack[t][l].b
  BY <1>1, Zenon
<1> QED BY <1>1, RInvStep, Zenon

LEMMA EnterClimbs ==
  ASSUME Composed, NEW rank, RInv(rank), IInv', links' = links, NEW t \in Threads, NEW b \in Blocks,
         NEW what, is_direct(b), NEW under \in Seq(Frames), Alike(under, stack[t]),
         \A i \in 1 .. Len(under) : Covered(under[i], links),
         \A i \in 1 .. Len(stack[t]) : is_direct(stack[t][i].b) => rank[stack[t][i].b] < rank[b],
         Enter(t, b, what, under)
  PROVE  RInv(rank)'
<1>1. links \in Topologies
  BY Zenon DEF RInv, IInv, Settings
<1>2. PICK f \in Frames : stack' = [stack EXCEPT ![t] = <<f>> \o under] /\ f.b = b /\ Covered(f, links)
  <2>1. CASE m_issynchronized[b]
    BY <2>1, WaitingType, WaitingCovered, Zenon DEF Enter, Guarded
  <2>2. CASE ~m_issynchronized[b]
    <3>1. PICK todo \in Todos(b) : stack' = [stack EXCEPT ![t] = <<Handler(b, todo, FALSE)>> \o under]
      BY <2>2, Zenon DEF Enter, Guarded
    <3>2. todo \in Seq(Links) /\ Covered(Handler(b, todo, FALSE), links)
      BY <1>1, TodosType, NewCovered, ZenonT(40)
    <3> QED BY <3>1, <3>2, HandlerType, Zenon
  <2> QED BY <2>1, <2>2, Zenon
<1>3. \A i \in 1 .. Len(stack[t]) : Above(f, stack[t][i], rank)
  BY <1>2, Zenon DEF Above
<1> QED BY <1>2, <1>3, PushClimbs, Zenon

LEMMA TimerClimbs ==
  ASSUME Composed, NEW rank, RInv(rank), IInv', NEW b \in Blocks, handle_timer(b)
  PROVE  RInv(rank)'
<1>1. "timer" \in Threads /\ stack["timer"] = <<>> /\ links' = links
  BY Zenon DEF Threads, handle_timer
<1>2. CASE is_direct(b)
  <2>1. Enter("timer", b, "timer", <<>>)
    BY <1>2, Zenon DEF handle_timer
  <2>2. <<>> \in Seq(Frames) /\ Alike(<<>>, stack["timer"]) /\ Len(<<>>) = 0
    BY <1>1 DEF Alike
  <2>3. \A i \in 1 .. Len(<<>>) : Covered(<<>>[i], links)
    BY <2>2
  <2>4. \A i \in 1 .. Len(stack["timer"]) : is_direct(stack["timer"][i].b) => rank[stack["timer"][i].b] < rank[b]
    BY <1>1
  <2> QED BY <1>1, <1>2, <2>1, <2>2, <2>3, <2>4, EnterClimbs, Zenon
<1>3. CASE ~is_direct(b)
  <2>1. stack' = stack
    BY <1>3, Zenon DEF handle_timer
  <2> QED BY <1>1, <2>1, Zenon DEF RInv
<1> QED BY <1>2, <1>3, Zenon

LEMMA RunClimbs ==
  ASSUME NEW rank, RInv(rank), IInv', NEW t \in Threads, NEW b \in Blocks, Run(t, b)
  PROVE  RInv(rank)'
<1>1. stack' = [stack EXCEPT ![t] = <<Running(b)>>] /\ links' = links
  BY Zenon DEF Run
<1>2. Len(<<Running(b)>>) = 1 /\ <<Running(b)>>[1] = Running(b)
  BY Zenon
<1>3. Covered(Running(b), links)
  BY DEF Covered, Running
<1>4. \A i \in 1 .. Len(<<Running(b)>>) : Covered(<<Running(b)>>[i], links)
  BY <1>2, <1>3
<1>5. \A i, j \in 1 .. Len(<<Running(b)>>) : ~(i < j)
  BY <1>2
<1> QED BY <1>1, <1>4, <1>5, RInvStep, Zenon

LEMMA LockClimbs ==
  ASSUME Composed, NEW rank, RInv(rank), IInv', NEW t \in Threads, Lock(t)
  PROVE  RInv(rank)'
<1>1. IInv /\ stack[t] # <<>> /\ links' = links /\ links \in Topologies /\ Sends(stack, links)
  BY Zenon DEF Lock, RInv, IInv, Settings
<1>2. /\ Top(t) = stack[t][1] /\ Top(t).b \in Blocks /\ Len(stack[t]) >= 1
      /\ stack[t] \in Seq(Frames) /\ Len(stack[t]) \in Nat
  BY <1>1, TopFrame, Zenon
<1>3. PICK todo \in Todos(Top(t).b) :
        stack' = [stack EXCEPT ![t] = <<Handler(Top(t).b, todo, TRUE)>> \o Tail(stack[t])]
  BY Zenon DEF Lock
<1>4. PICK f \in Frames : f = Handler(Top(t).b, todo, TRUE) /\ f.b = Top(t).b /\ Covered(f, links)
  <2>1. todo \in Seq(Links) /\ Covered(Handler(Top(t).b, todo, TRUE), links)
    BY <1>1, <1>2, TodosType, NewCovered, ZenonT(40)
  <2> QED BY <1>2, <2>1, HandlerType, Zenon
<1>5. /\ Tail(stack[t]) \in Seq(Frames) /\ Len(Tail(stack[t])) = Len(stack[t]) - 1
      /\ \A i \in 1 .. Len(stack[t]) - 1 : Tail(stack[t])[i] = stack[t][i + 1]
  BY <1>1, <1>2, Behind, Zenon
<1>6. PICK V \in Seq(Frames) : V = <<f>> \o Tail(stack[t])
  BY <1>4, <1>5, InFront, ZenonT(40)
<1>7. Len(V) = Len(stack[t]) /\ V[1] = f /\ \A i \in 2 .. Len(stack[t]) : V[i] = Tail(stack[t])[i - 1]
  BY <1>2, <1>4, <1>5, <1>6, InFront, SMTT(30)
<1>8. ASSUME NEW i \in 1 .. Len(V) PROVE Covered(V[i], links) /\ V[i].b = stack[t][i].b
  <2>1. CASE i = 1
    BY <1>2, <1>4, <1>7, <2>1, Zenon
  <2>2. CASE i # 1
    <3>1. i \in 2 .. Len(stack[t]) /\ i - 1 \in 1 .. Len(stack[t]) - 1 /\ (i - 1) + 1 = i
      BY <1>2, <1>7, <2>2
    <3>2. V[i] = stack[t][i]
      BY <1>5, <1>7, <3>1, Zenon
    <3> QED BY <1>1, <1>7, <3>2, Zenon DEF Sends
  <2> QED BY <2>1, <2>2, Zenon
<1>9. stack' = [stack EXCEPT ![t] = V]
  BY <1>3, <1>4, <1>6, Zenon
<1> QED BY <1>1, <1>7, <1>8, <1>9, KeepClimbs, Zenon

LEMMA ReturnClimbs ==
  ASSUME NEW rank, RInv(rank), IInv', NEW t \in Threads, Return(t)
  PROVE  RInv(rank)'
<1>1. /\ IInv /\ stack[t] # <<>> /\ stack' = [stack EXCEPT ![t] = Tail(stack[t])] /\ links' = links
      /\ Sends(stack, links)
  BY Zenon DEF Return, RInv
<1>2. stack[t] \in Seq(Frames) /\ Len(stack[t]) \in Nat
  BY <1>1, TopFrame, Zenon
<1>3. PICK V : V = Tail(stack[t])
  BY Zenon
<1>4. /\ Len(V) = Len(stack[t]) - 1
      /\ \A i \in 1 .. Len(V) : V[i] = stack[t][i + 1] /\ i + 1 \in 1 .. Len(stack[t])
  BY <1>1, <1>2, <1>3, Behind
<1>5. \A i \in 1 .. Len(V) : Covered(V[i], links)
  BY <1>1, <1>4, Zenon DEF Sends
<1>6. ASSUME NEW i \in 1 .. Len(V), NEW j \in 1 .. Len(V), i < j
      PROVE  \E k, l \in 1 .. Len(stack[t]) : /\ k < l /\ V[i].b = stack[t][k].b
                                             /\ V[j].b = stack[t][l].b
  <2>1. PICK k \in 1 .. Len(stack[t]), l \in 1 .. Len(stack[t]) : k = i + 1 /\ l = j + 1
    BY <1>4, Zenon
  <2>2. k < l
    BY <1>2, <1>4, <1>6, <2>1
  <2> QED BY <1>4, <2>1, <2>2, Zenon
<1> QED BY <1>1, <1>3, <1>5, <1>6, RInvStep, ZenonT(40)

LEMMA EmptyClimbs ==
  ASSUME NEW rank, RInv(rank), IInv', NEW t \in Threads, links' = links,
         stack' = [stack EXCEPT ![t] = <<>>]
  PROVE  RInv(rank)'
<1>1. Len(<<>>) = 0
  BY Zenon
<1>2. (\A i \in 1 .. Len(<<>>) : FALSE) /\ (\A i, j \in 1 .. Len(<<>>) : FALSE)
  BY <1>1
<1> QED BY <1>2, RInvStep, Zenon

LEMMA Between ==
  ASSUME NEW x \in Nat, NEW y \in Nat, NEW z \in Nat, x < y, y < z
  PROVE  x < z
OBVIOUS

(* A call to a direct block goes up: the link is one of the innermost      *)
(* frame's block.                                                          *)
LEMMA SendClimbs ==
  ASSUME Composed, NEW rank \in [Blocks -> Nat], Ascends(rank, links), RInv(rank), IInv',
         NEW t \in Threads, Send(t)
  PROVE  RInv(rank)'
<1>1. /\ IInv /\ stack[t] # <<>> /\ Top(t).pc = "in" /\ Top(t).todo # <<>> /\ links' = links
      /\ links \in Topologies /\ Sends(stack, links) /\ Climbs(stack, rank)
  BY Zenon DEF Send, RInv, IInv, Settings
<1>2. /\ Top(t) = stack[t][1] /\ Top(t) \in Frames /\ Top(t).b \in Blocks /\ Len(stack[t]) >= 1
      /\ stack[t] \in Seq(Frames) /\ Len(stack[t]) \in Nat
  BY <1>1, TopFrame, Zenon
<1>3. PICK s \in Seq(Links) : s = Top(t).todo
  BY <1>2, Zenon DEF Frames
<1>4. PICK l \in Links : l = Head(s) /\ l = s[1]
  BY <1>1, <1>3, Behind, Zenon
<1>5. PICK m \in 1 .. Len(links[Top(t).b]) : l = links[Top(t).b][m]
  <2>1. Covered(Top(t), links)
    <3>1. 1 \in 1 .. Len(stack[t])
      BY <1>2
    <3> QED BY <1>1, <1>2, <3>1, Zenon DEF Sends
  <2>2. 1 \in 1 .. Len(s)
    BY <1>1, <1>3, Behind
  <2> QED BY <1>3, <1>4, <2>1, <2>2, Zenon DEF Covered
<1>6. PICK u \in Seq(Frames) : u = <<[Top(t) EXCEPT !.todo = Tail(@)]>> \o Tail(stack[t])
  BY <1>1, UnderCall, Zenon
<1>7. /\ Alike(u, stack[t]) /\ u[1].todo = Tail(s)
      /\ \A i \in 2 .. Len(stack[t]) : u[i] = stack[t][i]
  BY <1>1, <1>3, <1>6, UnderCall, Zenon
<1>8. Len(u) = Len(stack[t]) /\ \A i \in 1 .. Len(u) : u[i].b = stack[t][i].b
  BY <1>7, Zenon DEF Alike, Like
<1>9. ASSUME NEW i \in 1 .. Len(u) PROVE Covered(u[i], links)
  <2>1. CASE i = 1
    <3>1. Covered(stack[t][1], links) /\ stack[t][1].todo = s /\ u[1].b = stack[t][1].b
      <4>1. 1 \in 1 .. Len(stack[t])
        BY <1>2
      <4> QED BY <1>1, <1>2, <1>3, <1>8, <4>1, Zenon DEF Sends
    <3>2. \A k \in 1 .. Len(Tail(s)) : Tail(s)[k] = s[k + 1] /\ k + 1 \in 1 .. Len(s)
      BY <1>1, <1>3, Behind, SMTT(30)
    <3>3. u[i].todo = Tail(s) /\ u[i].b = stack[t][1].b
      BY <1>7, <2>1, <3>1, Zenon
    <3>4. ASSUME NEW k \in 1 .. Len(Tail(s))
          PROVE  \E n \in 1 .. Len(links[stack[t][1].b]) : Tail(s)[k] = links[stack[t][1].b][n]
      BY <3>1, <3>2, Zenon DEF Covered
    <3> QED BY <3>3, <3>4, ZenonT(40) DEF Covered
  <2>2. CASE i # 1
    <3>1. i \in 2 .. Len(stack[t])
      BY <1>2, <1>8, <2>2
    <3>2. u[i] = stack[t][i] /\ i \in 1 .. Len(stack[t])
      BY <1>7, <1>8, <3>1, Zenon
    <3> QED BY <1>1, <3>2, Zenon DEF Sends
  <2> QED BY <2>1, <2>2, Zenon
<1>10. CASE is_direct(l.to)
  <2>1. Enter(t, l.to, "message", u) /\ l.to \in Blocks
    BY <1>3, <1>4, <1>6, <1>10, Zenon DEF Send, Links
  <2>2. is_direct(Top(t).b) => rank[Top(t).b] < rank[l.to]
    <3>1. links[Top(t).b] \in Seq(Links)
      BY <1>1, <1>2, Zenon DEF Composed
    <3>2. m \in DOMAIN links[Top(t).b]
      BY <3>1
    <3> QED BY <1>2, <1>5, <1>10, <3>2, ZenonT(40) DEF Ascends
  <2>3. ASSUME NEW i \in 1 .. Len(stack[t]), is_direct(stack[t][i].b)
        PROVE  rank[stack[t][i].b] < rank[l.to]
    <3>1. CASE i = 1
      BY <1>2, <2>2, <2>3, <3>1, ZenonT(40)
    <3>2. CASE i # 1
      <4>1. 1 < i /\ 1 \in 1 .. Len(stack[t])
        BY <1>2, <3>2, SMTT(30)
      <4>2. Above(stack[t][1], stack[t][i], rank)
        BY <1>1, <4>1, Zenon DEF Climbs
      <4>3. is_direct(Top(t).b) /\ rank[stack[t][i].b] < rank[Top(t).b]
        BY <1>2, <2>3, <4>2, Zenon DEF Above
      <4>4. stack[t][i].b \in Blocks
        <5>1. stack[t][i] \in Frames
          BY <1>2
        <5> QED BY <5>1, Zenon DEF Frames
      <4>5. rank[stack[t][i].b] \in Nat /\ rank[Top(t).b] \in Nat /\ rank[l.to] \in Nat
        BY <1>2, <2>1, <4>4, Zenon
      <4>6. rank[Top(t).b] < rank[l.to]
        BY <2>2, <4>3, Zenon
      <4> QED BY <4>3, <4>5, <4>6, Between, Zenon
    <3> QED BY <3>1, <3>2, Zenon
  <2> QED BY <1>1, <1>7, <1>9, <1>10, <2>1, <2>3, EnterClimbs, ZenonT(40)
<1>11. CASE ~is_direct(l.to)
  <2>1. stack' = [stack EXCEPT ![t] = u]
    BY <1>3, <1>4, <1>6, <1>11, Zenon DEF Send
  <2> QED BY <1>1, <1>8, <1>9, <2>1, KeepClimbs, Zenon
<1> QED BY <1>10, <1>11, Zenon

(* A step of run(): it ends, goes on or calls a handler of its block. *)
LEMMA RunSteps ==
  ASSUME Composed, IInv, NEW t \in Threads, RunStep(t)
  PROVE  \/ stack' = [stack EXCEPT ![t] = <<>>]
         \/ \E h \in Runs :
              /\ h.b = Top(t).b /\ h.todo = Top(t).todo
              /\ \/ stack' = [stack EXCEPT ![t][1] = h]
                 \/ \E todo \in Todos(h.b) : stack' = [stack EXCEPT ![t] = <<Handler(h.b, todo, FALSE), h>>]
<1>1. stack[t] # <<>> /\ Top(t).pc = "run"
  BY Zenon DEF RunStep
<1>2. PICK f \in Runs : f = Top(t)
  BY <1>1, RunAlone, Zenon
<1>3. ASSUME NEW n \in Nat
      PROVE  \E h \in Runs : h = [f EXCEPT !.g = n] /\ h.b = f.b /\ h.todo = f.todo
  <2>1. [f EXCEPT !.g = n] \in Runs /\ [f EXCEPT !.g = n].b = f.b /\ [f EXCEPT !.g = n].todo = f.todo
    BY Zenon DEF Runs
  <2> QED BY <2>1, Zenon
<1>4. ASSUME f.g \in Gates
      PROVE  \E h \in Runs : h = [f EXCEPT !.took[f.g] = @ + 1] /\ h.b = f.b /\ h.todo = f.todo
  <2>1. PICK T \in [Gates -> Int], G \in Gates : T = f.took /\ G = f.g
    BY <1>4, Zenon DEF Runs
  <2>2. PICK k \in [Gates -> Int] : k = [f.took EXCEPT ![f.g] = f.took[f.g] + 1]
    <3>1. [T EXCEPT ![G] = T[G] + 1] \in [Gates -> Int]
      OBVIOUS
    <3> QED BY <2>1, <3>1, Zenon
  <2>3. [f EXCEPT !.took[f.g] = @ + 1] = [f EXCEPT !.took = k]
    BY <2>2, Zenon
  <2>4. [f EXCEPT !.took = k] \in Runs /\ [f EXCEPT !.took = k].b = f.b /\ [f EXCEPT !.took = k].todo = f.todo
    BY Zenon DEF Runs
  <2> QED BY <2>3, <2>4, Zenon
<1> DEFINE Calls(h) == \E todo \in Todos(f.b) : stack' = [stack EXCEPT ![t] = <<Handler(f.b, todo, FALSE), h>>]
           Goes(h) == stack' = [stack EXCEPT ![t][1] = h]
<1>5. \/ Calls(f) \/ Calls([f EXCEPT !.g = NGates + 2])
      \/ f.g \in Gates /\ Calls([f EXCEPT !.took[f.g] = @ + 1])
      \/ Goes([f EXCEPT !.g = 1]) \/ (f.g \in Gates /\ Goes([f EXCEPT !.g = f.g + 1]))
      \/ stack' = [stack EXCEPT ![t] = <<>>]
  BY <1>2, Zenon DEF RunStep, AfterGate
<1> QED
  <2>1. ASSUME NEW h \in Runs, h.b = f.b, h.todo = f.todo, Calls(h) \/ Goes(h)
        PROVE  \E x \in Runs :
                 /\ x.b = Top(t).b /\ x.todo = Top(t).todo
                 /\ \/ stack' = [stack EXCEPT ![t][1] = x]
                    \/ \E todo \in Todos(x.b) : stack' = [stack EXCEPT ![t] = <<Handler(x.b, todo, FALSE), x>>]
    BY <1>2, <2>1, Zenon
  <2>2. 1 \in Nat /\ NGates + 2 \in Nat
    BY DEF Composed
  <2>3. CASE Calls(f)
    BY <2>1, <2>3, Zenon
  <2>4. CASE Calls([f EXCEPT !.g = NGates + 2])
    <3>1. PICK h \in Runs : h = [f EXCEPT !.g = NGates + 2] /\ h.b = f.b /\ h.todo = f.todo
      BY <1>3, <2>2, Zenon
    <3>2. Calls(h)
      BY <2>4, <3>1, Zenon
    <3> QED BY <2>1, <3>1, <3>2, Zenon
  <2>5. CASE f.g \in Gates /\ Calls([f EXCEPT !.took[f.g] = @ + 1])
    BY <1>4, <2>1, <2>5, Zenon
  <2>6. CASE Goes([f EXCEPT !.g = 1])
    BY <1>3, <2>1, <2>2, <2>6, Zenon
  <2>7. CASE f.g \in Gates /\ Goes([f EXCEPT !.g = f.g + 1])
    <3>1. f.g + 1 \in Nat
      BY <2>7 DEF Gates
    <3> QED BY <1>3, <2>1, <2>7, <3>1, Zenon
  <2> QED BY <1>5, <2>3, <2>4, <2>5, <2>6, <2>7, Zenon

LEMMA RunStepClimbs ==
  ASSUME Composed, NEW rank, RInv(rank), IInv', NEW t \in Threads, RunStep(t)
  PROVE  RInv(rank)'
<1>1. /\ IInv /\ stack[t] # <<>> /\ Top(t).pc = "run" /\ links' = links /\ links \in Topologies
      /\ Sends(stack, links)
  BY Zenon DEF RunStep, RInv, IInv, Settings
<1>2. /\ Top(t) \in Runs /\ Top(t) = stack[t][1] /\ Len(stack[t]) = 1 /\ ~is_direct(Top(t).b)
      /\ stack[t] \in Seq(Frames)
  BY <1>1, RunAlone, Zenon
<1>3. ASSUME NEW h \in Runs, h.b = Top(t).b, h.todo = Top(t).todo
      PROVE  Covered(h, links) /\ h \in Frames /\ Like(h, stack[t][1])
  <2>1. Covered(Top(t), links)
    <3>1. 1 \in 1 .. Len(stack[t])
      BY <1>2
    <3> QED BY <1>1, <1>2, <3>1, Zenon DEF Sends
  <2>2. h \in Frames /\ Like(h, Top(t))
    BY <1>2, <1>3, Zenon DEF Frames, Runs, Like
  <2> QED BY <1>2, <1>3, <2>1, <2>2, ZenonT(40) DEF Covered
<1>4. CASE stack' = [stack EXCEPT ![t] = <<>>]
  BY <1>1, <1>4, EmptyClimbs, Zenon
<1>5. ASSUME NEW h \in Runs, h.b = Top(t).b, h.todo = Top(t).todo, stack' = [stack EXCEPT ![t][1] = h]
      PROVE  RInv(rank)'
  <2>1. PICK V : V = [stack[t] EXCEPT ![1] = h]
    BY Zenon
  <2>2. Len(V) = 1 /\ V[1] = h
    BY <1>2, <2>1
  <2>3. \A i \in 1 .. Len(V) : Covered(V[i], links) /\ V[i].b = stack[t][i].b
    BY <1>2, <1>3, <1>5, <2>2
  <2>4. stack' = [stack EXCEPT ![t] = V]
    BY <1>5, <2>1, Zenon
  <2> QED BY <1>1, <1>2, <2>2, <2>3, <2>4, KeepClimbs, Zenon
<1>6. ASSUME NEW h \in Runs, h.b = Top(t).b, h.todo = Top(t).todo, NEW todo \in Todos(h.b),
             stack' = [stack EXCEPT ![t] = <<Handler(h.b, todo, FALSE), h>>]
      PROVE  RInv(rank)'
  <2>1. h.b \in Blocks /\ todo \in Seq(Links)
    BY <1>1, <1>6, TodosType, Zenon DEF Runs
  <2>2. PICK f \in Frames : f = Handler(h.b, todo, FALSE) /\ f.b = h.b /\ Covered(f, links)
    <3>1. Covered(Handler(h.b, todo, FALSE), links)
      BY <1>1, <2>1, NewCovered, ZenonT(40)
    <3> QED BY <2>1, <3>1, HandlerType, Zenon
  <2>3. Covered(h, links) /\ h \in Frames /\ Like(h, stack[t][1])
    BY <1>3, <1>6
  <2>4. PICK U \in Seq(Frames) : U = <<h>> /\ Len(U) = 1 /\ U[1] = h
    <3>1. <<h>> \in Seq(Frames)
      BY <2>3
    <3>2. Len(<<h>>) = 1 /\ <<h>>[1] = h
      BY Zenon
    <3> QED BY <3>1, <3>2, Zenon
  <2>5. Alike(U, stack[t]) /\ \A i \in 1 .. Len(U) : Covered(U[i], links)
    BY <1>2, <2>3, <2>4 DEF Alike
  <2>6. <<f, h>> = <<f>> \o U
    BY <2>4
  <2>7. stack' = [stack EXCEPT ![t] = <<f>> \o U]
    BY <1>6, <2>2, <2>6, Zenon
  <2>8. \A i \in 1 .. Len(stack[t]) : Above(f, stack[t][i], rank)
    BY <1>2 DEF Above
  <2> QED BY <1>1, <2>2, <2>5, <2>7, <2>8, PushClimbs, Zenon
<1> QED BY <1>4, <1>5, <1>6, RunSteps, <1>1, Zenon

(* A non-empty set of natural numbers has a least member. *)
LEMMA Lowest ==
  ASSUME NEW S, S \subseteq Nat, S # {}
  PROVE  \E q \in S : \A r \in S : q <= r
<1> DEFINE R == OpToRel(<, Nat)
<1>1. IsWellFoundedOn(R, Nat)
  BY NatLessThanWellFounded, Zenon
<1>2. \A x, y \in Nat : x < y => <<x, y>> \in R
  BY Zenon DEF OpToRel
<1> HIDE DEF R
<1>3. PICK x \in S : \A y \in S : ~(<<y, x>> \in R)
  BY <1>1, WFMin, Zenon
<1>4. ASSUME NEW y \in S PROVE x <= y
  <2>1. x \in Nat /\ y \in Nat
    BY Zenon
  <2>2. ~(y < x)
    BY <1>2, <1>3, <2>1, Zenon
  <2> QED BY <2>1, <2>2
<1> QED BY <1>4, Zenon

(* The order of the ranks holds for every rank that grows along the links. *)
Climbing == \A rank \in [Blocks -> Nat] : Ascends(rank, links) => Sends(stack, links) /\ Climbs(stack, rank)

LEMMA StepClimbs ==
  ASSUME Composed, IInv, Climbing, [Next]_vars
  PROVE  IInv' /\ Climbing'
<1>1. IInv'
  BY StepRight, Zenon
<1>2. links' = links
  BY Zenon DEF Next, configure, handle_timer, Run, Lock, Return, Throw, Send, RunStep, vars
<1>3. ASSUME NEW rank \in [Blocks -> Nat], Ascends(rank, links)
      PROVE  Sends(stack', links') /\ Climbs(stack', rank)
  <2>1. RInv(rank)
    BY <1>3, Zenon DEF RInv, Climbing
  <2>2. CASE UNCHANGED vars \/ configure
    BY <2>1, <2>2, Zenon DEF vars, configure, RInv
  <2>3. ASSUME NEW b \in Blocks, handle_timer(b) PROVE RInv(rank)'
    BY <1>1, <2>1, <2>3, TimerClimbs, Zenon
  <2>4. ASSUME NEW t \in PoolThreads, NEW b \in Blocks, Run(t, b) PROVE RInv(rank)'
    BY <1>1, <2>1, <2>4, RunClimbs, Zenon DEF Threads
  <2>5. ASSUME NEW t \in Threads, Throw(t) PROVE RInv(rank)'
    BY <1>1, <1>2, <2>1, <2>5, EmptyClimbs, Zenon DEF Throw
  <2>6. ASSUME NEW t \in Threads, Lock(t) \/ Return(t) \/ Send(t) \/ RunStep(t) PROVE RInv(rank)'
    BY <1>1, <1>3, <2>1, <2>6, LockClimbs, ReturnClimbs, SendClimbs, RunStepClimbs, Zenon
  <2>7. RInv(rank)' => Sends(stack', links') /\ Climbs(stack', rank)
    BY Zenon DEF RInv
  <2> QED BY <2>2, <2>3, <2>4, <2>5, <2>6, <2>7, Zenon DEF Next
<1>4. Climbing'
  BY <1>2, <1>3, Zenon DEF Climbing, Ascends
<1> QED BY <1>1, <1>4, Zenon

LEMMA ClimbingInvariant == ASSUME Composed PROVE Spec => [](IInv /\ Climbing)
<1>1. ASSUME Init PROVE IInv /\ Climbing
  <2>1. IInv
    BY <1>1, InitRight, Zenon
  <2>2. \A t \in Threads : Len(stack[t]) = 0
    BY <1>1, Zenon DEF Init
  <2>3. Sends(stack, links)
    BY <2>2 DEF Sends
  <2>4. ASSUME NEW rank PROVE Climbs(stack, rank)
    BY <2>2 DEF Climbs
  <2> QED BY <2>1, <2>3, <2>4, Zenon DEF Climbing
<1>2. IInv /\ Climbing /\ [Next]_vars => IInv' /\ Climbing'
  BY StepClimbs, Zenon
<1> QED BY <1>1, <1>2, PTL DEF Spec

(* The owner u of a mutex has a frame in the handler of its block. *)
LEMMA OwnerInside ==
  ASSUME IInv, NEW t \in Threads, NEW u \in WaitsFor(t)
  PROVE  /\ u \in Threads /\ stack[t] # <<>> /\ Top(t).pc = "lock" /\ Top(t).b \in Blocks
         /\ \E i \in 1 .. Len(stack[u]) : /\ stack[u][i].b = Top(t).b /\ stack[u][i].pc = "in"
                                         /\ is_direct(Top(t).b)
<1>1. stack[t] # <<>> /\ Top(t).pc = "lock" /\ mutex[Top(t).b] # "free" /\ u = mutex[Top(t).b]
  BY Zenon DEF WaitsFor
<1>2. Top(t).b \in Blocks /\ Agree(stack, mutex, m_issynchronized)
  BY <1>1, TopFrame, Zenon DEF IInv
<1>3. u \in Threads
  BY <1>1, <1>2, OwnerOf, Zenon
<1>4. PICK i \in 1 .. Len(stack[u]) : stack[u][i].b = Top(t).b /\ stack[u][i].locked
  BY <1>1, <1>2, Zenon DEF Agree
<1>5. Right(stack[u][i], i, Len(stack[u]), u, mutex, m_issynchronized)
  BY <1>2, <1>3, Zenon DEF Agree
<1>6. stack[u][i].pc = "in" /\ is_direct(Top(t).b)
  BY <1>4, <1>5, Zenon DEF Right
<1> QED BY <1>1, <1>2, <1>3, <1>4, <1>6, Zenon

(* If the owner waits as well, then for a block of higher rank. *)
LEMMA WaitsUpwards ==
  ASSUME IInv, Climbing, NEW rank \in [Blocks -> Nat], Ascends(rank, links),
         NEW t \in Threads, NEW u \in WaitsFor(t), WaitsFor(u) # {}
  PROVE  u \in Threads /\ Top(t).b \in Blocks /\ Top(u).b \in Blocks /\ rank[Top(t).b] < rank[Top(u).b]
<1>1. u \in Threads /\ Top(t).b \in Blocks /\ is_direct(Top(t).b)
  BY OwnerInside, Zenon
<1>2. PICK i \in 1 .. Len(stack[u]) : stack[u][i].b = Top(t).b /\ stack[u][i].pc = "in"
  BY OwnerInside, Zenon
<1>3. stack[u] # <<>> /\ Top(u).pc = "lock"
  BY Zenon DEF WaitsFor
<1>4. Top(u) = stack[u][1] /\ Len(stack[u]) \in Nat /\ Len(stack[u]) >= 1 /\ Top(u).b \in Blocks
  BY <1>1, <1>3, TopFrame, Zenon
<1>5. i # 1
  BY <1>2, <1>3, <1>4, Zenon
<1>6. 1 < i /\ 1 \in 1 .. Len(stack[u])
  BY <1>4, <1>5, SMTT(30)
<1>7. Above(stack[u][1], stack[u][i], rank)
  BY <1>1, <1>6, Zenon DEF Climbing, Climbs
<1>8. rank[Top(t).b] < rank[Top(u).b]
  BY <1>1, <1>2, <1>4, <1>7, Zenon DEF Above
<1> QED BY <1>1, <1>4, <1>8, Zenon

(* A thread waits for a mutex only while another one is inside that block, *)
(* also after exceptions that went through several handlers, and if the    *)
(* direct blocks do not send to each other in a circle, no set of threads  *)
(* waits for mutexes that only its own members hold: neither a thread for  *)
(* itself, nor two or more of them for each other.                         *)
THEOREM NoCircleOfWaits == ASSUME Composed PROVE Spec => []MutexComesFree
<1>1. ASSUME IInv, Climbing PROVE MutexComesFree
  <2>1. ASSUME NEW t \in Threads, NEW u \in WaitsFor(t) PROVE Inside(u, Top(t).b)
    <3>1. PICK i \in 1 .. Len(stack[u]) : stack[u][i].b = Top(t).b /\ stack[u][i].pc = "in"
      BY <1>1, OwnerInside, Zenon
    <3>2. u \in Threads
      BY <1>1, OwnerInside, Zenon
    <3>3. stack[u] \in Seq(Frames)
      BY <1>1, <3>2, Zenon DEF IInv, Agree
    <3>4. i \in DOMAIN stack[u]
      BY <3>3
    <3> QED BY <3>1, <3>4, Zenon DEF Inside
  <2>2. ASSUME NEW rank \in [Blocks -> 1 .. Len(Order)], Ascends(rank, links),
               NEW T \in SUBSET Threads, T # {}, \A t \in T : WaitsFor(t) \cap T # {}
        PROVE  FALSE
    <3>1. Len(Order) \in Nat /\ rank \in [Blocks -> Nat]
      BY DEF Composed
    <3>2. ASSUME NEW t \in T
          PROVE  \E u \in T : /\ Top(t).b \in Blocks /\ Top(u).b \in Blocks
                              /\ rank[Top(t).b] < rank[Top(u).b]
      <4>1. PICK u \in T : u \in WaitsFor(t)
        BY <2>2, Zenon
      <4>2. WaitsFor(u) # {}
        BY <2>2, Zenon
      <4> QED BY <1>1, <2>2, <3>1, <4>1, <4>2, WaitsUpwards, Zenon
    <3> DEFINE left(t) == Len(Order) - rank[Top(t).b]
               D == {left(t) : t \in T}
    <3>3. \A t \in T : left(t) \in Nat
      BY <3>1, <3>2
    <3>4. PICK q \in D : \A r \in D : q <= r
      <4>1. D \subseteq Nat /\ D # {}
        BY <2>2, <3>3, Zenon
      <4> HIDE DEF D
      <4> QED BY <4>1, Lowest, Zenon
    <3>5. PICK t \in T : q = left(t)
      BY Zenon
    <3>6. PICK u \in T : Top(t).b \in Blocks /\ Top(u).b \in Blocks /\ rank[Top(t).b] < rank[Top(u).b]
      BY <3>2, Zenon
    <3>7. left(t) <= left(u)
      BY <3>4, <3>5, Zenon
    <3> QED BY <3>1, <3>6, <3>7
  <2> QED BY <2>1, <2>2, Zenon DEF MutexComesFree, Acyclic
<1> QED BY <1>1, ClimbingInvariant, PTL
=============================================================================
