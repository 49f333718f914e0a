---------------------------- MODULE DaemonProofs -----------------------------
(***************************************************************************)
(* Proofs about the Python side of a node, for any compositions, requests, *)
(* ports and processes: the daemon's table, the registration, the shell.   *)
(***************************************************************************)
EXTENDS Daemon, TLAPS

Process == [st : {"spawned", "installing", "serving", "dead"}, comp : Comps \cup {NoComp},
            file : Nat, port : Ports \cup {0}]
Request == [pc : {"idle", "saving", "port", "spawn", "register"}, comp : Comps \cup {NoComp},
            id : Nat, port : Ports \cup {0}, proc : Nat]
Files   == 1 .. MaxProcs + 1

(* Table bm, counter k, files cf, processes ps and requests rq. *)
Types(bm, k, cf, ps, rq) ==
  /\ DOMAIN bm \subseteq Comps
  /\ k \in Nat /\ cf \in [Files -> Comps \cup {NoComp}]
  /\ ps \in Seq(Process) /\ Len(ps) \in 0 .. MaxProcs
  /\ rq \in [Requests -> Request]

(* The live process f is the one of composition c: it has read c, or will  *)
(* find it in its file.                                                    *)
Serves(f, c, port, cf) ==
  /\ f.st # "dead" /\ f.port = port /\ f.comp \in {NoComp, c} /\ f.file \in Files
  /\ f.st = "spawned" => cf[f.file] = c

Busy(st) == st \in {"spawned", "installing"}

(* The progress of start request f, the only one.  Until it has spawned    *)
(* its process, all others have bound their ports or are dead.             *)
Starting(f, bm, k, cf, ps) ==
  /\ f.id = k /\ f.comp \in Comps /\ f.comp \notin DOMAIN bm
  /\ f.pc \in {"saving", "port", "spawn"} =>
       k = Len(ps) + 1 /\ k <= MaxProcs + 1 /\ \A p \in 1 .. Len(ps) : ~Busy(ps[p].st)
  /\ f.pc \in {"port", "spawn"} => cf[k] = f.comp
  /\ f.pc = "spawn" => \A p \in 1 .. Len(ps) : ps[p].st # "dead" => ps[p].port # f.port
  /\ f.pc = "register" =>
       /\ k = Len(ps) /\ k >= 1 /\ f.proc = k /\ Serves(ps[k], f.comp, f.port, cf)
       /\ \A c \in DOMAIN bm : bm[c].proc # k

Starts(bm, k, cf, ps, rq) ==
  /\ \A r \in Requests : rq[r].pc # "idle" => Starting(rq[r], bm, k, cf, ps)
  /\ \A r, x \in Requests : rq[r].pc # "idle" /\ rq[x].pc # "idle" => r = x
  /\ (\A r \in Requests : rq[r].pc = "idle") => k = Len(ps) + 1

(* A process that has not bound its port is the last one spawned, and no   *)
(* two live ones were given the same port.                                 *)
Bound(ps) ==
  /\ \A p \in 1 .. Len(ps) : Busy(ps[p].st) => p = Len(ps)
  /\ \A p, q \in 1 .. Len(ps) :
       ps[p].st # "dead" /\ ps[q].st # "dead" /\ ps[p].port = ps[q].port => p = q

Entries(bm, cf, ps) ==
  /\ \A c \in DOMAIN bm : /\ bm[c].proc \in 1 .. Len(ps)
                          /\ Serves(ps[bm[c].proc], c, bm[c].port, cf)
  /\ \A c, d \in DOMAIN bm : bm[c].proc = bm[d].proc => c = d

Reached(bm, ps, rq) ==
  \A p \in 1 .. Len(ps) : ps[p].st # "dead" =>
    \/ \E c \in DOMAIN bm : bm[c].proc = p
    \/ \E r \in Requests : rq[r].pc = "register" /\ rq[r].proc = p

Calm(bm, k, cf, ps, rq) ==
  /\ Types(bm, k, cf, ps, rq) /\ Starts(bm, k, cf, ps, rq) /\ Bound(ps)
  /\ Entries(bm, cf, ps) /\ Reached(bm, ps, rq)

IInv == calm \in BOOLEAN
        /\ (calm => Calm(bm_processes, spawn_proc_id, compfile, procs, req))

-----------------------------------------------------------------------------
(* The table of processes *)

(* A file that no process is going to read is written. *)
LEMMA OtherFile ==
  ASSUME NEW f, NEW c, NEW port, NEW cf, NEW cf2, Serves(f, c, port, cf),
         cf2 = cf \/ ~Busy(f.st)
  PROVE  Serves(f, c, port, cf2)
BY DEF Serves, Busy

(* Only the request r goes on, to f. *)
LEMMA RequestMoves ==
  ASSUME NEW bm, NEW k, NEW cf, NEW ps, NEW rq, Calm(bm, k, cf, ps, rq),
         NEW r \in Requests, NEW f \in Request, NEW cf2 \in [Files -> Comps \cup {NoComp}],
         \A x \in Requests : x # r => rq[x].pc = "idle", rq[r].pc # "register",
         f.pc # "register", f.pc # "idle" => Starting(f, bm, k, cf2, ps),
         f.pc = "idle" => k = Len(ps) + 1,
         cf2 = cf \/ \A p \in 1 .. Len(ps) : ~Busy(ps[p].st)
  PROVE  Calm(bm, k, cf2, ps, [rq EXCEPT ![r] = f])
<1>1. PICK nr : nr = [rq EXCEPT ![r] = f]
  BY Zenon
<1>2. nr \in [Requests -> Request] /\ nr[r] = f /\ \A x \in Requests : x # r => nr[x] = rq[x]
  BY <1>1 DEF Calm, Types
<1>3. Types(bm, k, cf2, ps, nr)
  BY <1>2 DEF Calm, Types
<1>4. Starts(bm, k, cf2, ps, nr)
  <2>1. \A x \in Requests : nr[x].pc # "idle" => x = r
    BY <1>2
  <2> QED BY <1>2, <2>1 DEF Starts
<1>5. Entries(bm, cf2, ps)
  <2>1. ASSUME NEW c \in DOMAIN bm PROVE Serves(ps[bm[c].proc], c, bm[c].port, cf2)
    <3>1. Serves(ps[bm[c].proc], c, bm[c].port, cf) /\ bm[c].proc \in 1 .. Len(ps)
      BY DEF Calm, Entries
    <3> QED BY <3>1, OtherFile
  <2> QED BY <2>1 DEF Calm, Entries
<1>6. Reached(bm, ps, nr)
  <2>1. \A x \in Requests : rq[x].pc # "register"
    OBVIOUS
  <2> QED BY <2>1 DEF Calm, Reached
<1> QED BY <1>1, <1>3, <1>4, <1>5, <1>6 DEF Calm

(* Process p becomes g, with the same port and as alive as before. *)
LEMMA ProcessMoves ==
  ASSUME NEW bm, NEW k, NEW cf, NEW ps, NEW rq, Calm(bm, k, cf, ps, rq),
         NEW p \in 1 .. Len(ps), NEW g \in Process, g.port = ps[p].port,
         ps[p].st # "dead", g.st # "dead", Busy(g.st) => Busy(ps[p].st),
         \A c \in DOMAIN bm : bm[c].proc = p => Serves(g, c, bm[c].port, cf),
         \A r \in Requests : rq[r].pc = "register" /\ rq[r].proc = p
                             => Serves(g, rq[r].comp, rq[r].port, cf)
  PROVE  Calm(bm, k, cf, [ps EXCEPT ![p] = g], rq)
<1>1. PICK n : n = [ps EXCEPT ![p] = g]
  BY Zenon
<1>2. /\ n \in Seq(Process) /\ Len(n) = Len(ps) /\ n[p] = g
      /\ \A q \in 1 .. Len(ps) : q # p => n[q] = ps[q]
  BY <1>1 DEF Calm, Types
<1>3. \A q \in 1 .. Len(ps) : /\ n[q].st # "dead" <=> ps[q].st # "dead"
                             /\ n[q].port = ps[q].port
                             /\ Busy(n[q].st) => Busy(ps[q].st)
  BY <1>2
<1>4. Types(bm, k, cf, n, rq)
  BY <1>2 DEF Calm, Types
<1>5. Starts(bm, k, cf, n, rq)
  <2>1. ASSUME NEW r \in Requests, rq[r].pc # "idle" PROVE Starting(rq[r], bm, k, cf, n)
    <3>1. Starting(rq[r], bm, k, cf, ps)
      BY <2>1 DEF Calm, Starts
    <3>2. CASE rq[r].pc # "register"
      BY <1>2, <1>3, <3>1, <3>2 DEF Starting
    <3>3. CASE rq[r].pc = "register"
      <4>1. Serves(n[k], rq[r].comp, rq[r].port, cf)
        <5>1. k \in 1 .. Len(ps) /\ rq[r].proc = k /\ Serves(ps[k], rq[r].comp, rq[r].port, cf)
          BY <3>1, <3>3 DEF Starting, Calm, Types
        <5>2. CASE k = p
          BY <1>2, <3>3, <5>1, <5>2
        <5>3. CASE k # p
          BY <1>2, <5>1, <5>3
        <5> QED BY <5>2, <5>3
      <4> QED BY <1>2, <3>1, <3>3, <4>1 DEF Starting
    <3> QED BY <3>2, <3>3
  <2> QED BY <1>2, <2>1 DEF Calm, Starts
<1>6. Bound(n)
  BY <1>2, <1>3 DEF Calm, Bound
<1>7. Entries(bm, cf, n)
  <2>1. ASSUME NEW c \in DOMAIN bm
        PROVE  bm[c].proc \in 1 .. Len(n) /\ Serves(n[bm[c].proc], c, bm[c].port, cf)
    <3>1. bm[c].proc \in 1 .. Len(ps) /\ Serves(ps[bm[c].proc], c, bm[c].port, cf)
      BY DEF Calm, Entries
    <3>2. CASE bm[c].proc = p
      BY <1>2, <3>2
    <3>3. CASE bm[c].proc # p
      BY <1>2, <3>1, <3>3
    <3> QED BY <3>2, <3>3
  <2> QED BY <2>1 DEF Calm, Entries
<1>8. Reached(bm, n, rq)
  BY <1>2, <1>3 DEF Calm, Reached
<1> QED BY <1>1, <1>4, <1>5, <1>6, <1>7, <1>8 DEF Calm

LEMMA Spawned ==
  ASSUME NEW bm, NEW k, NEW cf, NEW ps, NEW rq, Calm(bm, k, cf, ps, rq), MaxProcs \in Nat,
         NEW r \in Requests, rq[r].pc = "spawn", Len(ps) < MaxProcs,
         NEW g \in Process, g.st = "spawned", g.comp = NoComp, g.file = rq[r].id, g.port = rq[r].port,
         NEW f \in Request, f.pc = "register", f.proc = Len(ps) + 1, f.comp = rq[r].comp,
         f.id = rq[r].id, f.port = rq[r].port
  PROVE  Calm(bm, k, cf, Append(ps, g), [rq EXCEPT ![r] = f])
<1>1. PICK n, nr : n = Append(ps, g) /\ nr = [rq EXCEPT ![r] = f]
  BY Zenon
<1>2. nr \in [Requests -> Request] /\ nr[r] = f /\ \A x \in Requests : x # r => nr[x] = rq[x]
  BY <1>1 DEF Calm, Types
<1>3. /\ n \in Seq(Process) /\ Len(n) = Len(ps) + 1 /\ n[Len(ps) + 1] = g
      /\ \A q \in 1 .. Len(ps) : n[q] = ps[q]
      /\ \A q \in 1 .. Len(n) : q \in 1 .. Len(ps) \/ q = Len(ps) + 1
      /\ Len(ps) \in Nat
  BY <1>1 DEF Calm, Types
<1>4. Starting(rq[r], bm, k, cf, ps) /\ \A x \in Requests : x # r => rq[x].pc = "idle"
  BY DEF Calm, Starts
<1>5. /\ k = Len(ps) + 1 /\ rq[r].id = k /\ cf[k] = rq[r].comp /\ k \in Files
      /\ rq[r].comp \in Comps /\ rq[r].comp \notin DOMAIN bm
      /\ \A p \in 1 .. Len(ps) : ~Busy(ps[p].st) /\ (ps[p].st # "dead" => ps[p].port # rq[r].port)
  BY <1>3, <1>4 DEF Starting, Files
<1>6. Types(bm, k, cf, n, nr)
  BY <1>2, <1>3 DEF Calm, Types
<1>7. Starts(bm, k, cf, n, nr)
  <2>1. Serves(n[k], f.comp, f.port, cf)
    BY <1>3, <1>5 DEF Serves
  <2>2. \A c \in DOMAIN bm : bm[c].proc # k
    <3>1. \A c \in DOMAIN bm : bm[c].proc \in 1 .. Len(ps)
      BY DEF Calm, Entries
    <3> QED BY <1>3, <1>5, <3>1
  <2>3. Starting(f, bm, k, cf, n)
    BY <1>3, <1>5, <2>1, <2>2 DEF Starting
  <2>4. \A x \in Requests : nr[x].pc # "idle" => x = r
    BY <1>2, <1>4
  <2> QED BY <1>2, <2>3, <2>4 DEF Starts
<1>8. Bound(n)
  <2>1. ASSUME NEW p \in 1 .. Len(n), Busy(n[p].st) PROVE p = Len(n)
    BY <1>3, <1>5, <2>1
  <2>2. ASSUME NEW p \in 1 .. Len(n), NEW q \in 1 .. Len(n), n[p].st # "dead", n[q].st # "dead",
               n[p].port = n[q].port
        PROVE  p = q
    <3>1. CASE p \in 1 .. Len(ps) /\ q \in 1 .. Len(ps)
      BY <1>3, <2>2, <3>1 DEF Calm, Bound
    <3>2. CASE p \in 1 .. Len(ps) /\ q = Len(ps) + 1
      BY <1>3, <1>5, <2>2, <3>2
    <3>3. CASE p = Len(ps) + 1 /\ q \in 1 .. Len(ps)
      BY <1>3, <1>5, <2>2, <3>3
    <3> QED BY <1>3, <3>1, <3>2, <3>3
  <2> QED BY <2>1, <2>2 DEF Bound
<1>9. Entries(bm, cf, n)
  BY <1>3 DEF Calm, Entries
<1>10. Reached(bm, n, nr)
  <2>1. ASSUME NEW p \in 1 .. Len(ps), ps[p].st # "dead" PROVE \E c \in DOMAIN bm : bm[c].proc = p
    <3>1. \A x \in Requests : rq[x].pc # "register"
      BY <1>4
    <3> QED BY <2>1, <3>1 DEF Calm, Reached
  <2>2. ASSUME NEW p \in 1 .. Len(n), n[p].st # "dead"
        PROVE  \/ \E c \in DOMAIN bm : bm[c].proc = p
               \/ \E x \in Requests : nr[x].pc = "register" /\ nr[x].proc = p
    <3>1. CASE p \in 1 .. Len(ps)
      BY <1>3, <2>1, <2>2, <3>1
    <3>2. CASE p = Len(ps) + 1
      BY <1>2, <3>2
    <3> QED BY <1>3, <3>1, <3>2
  <2> QED BY <2>2 DEF Reached
<1> QED BY <1>1, <1>6, <1>7, <1>8, <1>9, <1>10 DEF Calm

LEMMA Registered ==
  ASSUME NEW bm, NEW k, NEW cf, NEW ps, NEW rq, Calm(bm, k, cf, ps, rq), MaxProcs \in Nat,
         NEW r \in Requests, rq[r].pc = "register", NEW f \in Request, f.pc = "idle",
         NEW nb, DOMAIN nb = DOMAIN bm \cup {rq[r].comp},
         nb[rq[r].comp].proc = rq[r].proc, nb[rq[r].comp].port = rq[r].port,
         \A c \in DOMAIN bm : c # rq[r].comp => nb[c] = bm[c]
  PROVE  Calm(nb, k + 1, cf, ps, [rq EXCEPT ![r] = f])
<1>1. PICK nr : nr = [rq EXCEPT ![r] = f]
  BY Zenon
<1>2. nr \in [Requests -> Request] /\ nr[r] = f /\ \A x \in Requests : x # r => nr[x] = rq[x]
  BY <1>1 DEF Calm, Types
<1>3. Starting(rq[r], bm, k, cf, ps) /\ \A x \in Requests : x # r => rq[x].pc = "idle"
  BY DEF Calm, Starts
<1>4. PICK c : c = rq[r].comp
  OBVIOUS
<1>5. /\ k = Len(ps) /\ rq[r].proc = k /\ k \in 1 .. Len(ps) /\ Serves(ps[k], c, rq[r].port, cf)
      /\ c \in Comps /\ c \notin DOMAIN bm /\ k + 1 = Len(ps) + 1 /\ k + 1 \in Nat
      /\ \A d \in DOMAIN bm : bm[d].proc # k
  BY <1>3, <1>4 DEF Starting, Calm, Types
<1>6. Types(nb, k + 1, cf, ps, nr)
  BY <1>2, <1>4, <1>5 DEF Calm, Types
<1>7. Starts(nb, k + 1, cf, ps, nr)
  <2>1. \A x \in Requests : nr[x].pc = "idle"
    BY <1>2, <1>3
  <2> QED BY <1>5, <2>1 DEF Starts
<1>8. Entries(nb, cf, ps)
  <2>1. nb[c].proc = k /\ nb[c].port = rq[r].port /\ \A d \in DOMAIN nb : d # c => d \in DOMAIN bm /\ nb[d] = bm[d]
    BY <1>4, <1>5
  <2>2. /\ \A d \in DOMAIN bm : bm[d].proc \in 1 .. Len(ps) /\ Serves(ps[bm[d].proc], d, bm[d].port, cf)
        /\ \A d, e \in DOMAIN bm : bm[d].proc = bm[e].proc => d = e
    BY DEF Calm, Entries
  <2>3. ASSUME NEW d \in DOMAIN nb
        PROVE  nb[d].proc \in 1 .. Len(ps) /\ Serves(ps[nb[d].proc], d, nb[d].port, cf)
    <3>1. CASE d = c
      BY <1>5, <2>1, <3>1
    <3>2. CASE d # c
      BY <2>1, <2>2, <3>2
    <3> QED BY <3>1, <3>2
  <2>4. ASSUME NEW d \in DOMAIN nb, NEW e \in DOMAIN nb, nb[d].proc = nb[e].proc PROVE d = e
    BY <1>5, <2>1, <2>2, <2>4
  <2> QED BY <2>3, <2>4 DEF Entries
<1>9. Reached(nb, ps, nr)
  <2> SUFFICES ASSUME NEW p \in 1 .. Len(ps), ps[p].st # "dead" PROVE \E d \in DOMAIN nb : nb[d].proc = p
    BY DEF Reached
  <2>1. CASE \E d \in DOMAIN bm : bm[d].proc = p
    BY <1>4, <1>5, <2>1
  <2>2. CASE \E x \in Requests : rq[x].pc = "register" /\ rq[x].proc = p
    <3>1. p = rq[r].proc
      BY <1>3, <2>2
    <3> QED BY <3>1
  <2> QED BY <2>1, <2>2 DEF Calm, Reached
<1> QED BY <1>1, <1>6, <1>7, <1>8, <1>9 DEF Calm

(* The process of c is killed; nobody else was on its port. *)
LEMMA Killed ==
  ASSUME NEW bm, NEW k, NEW cf, NEW ps, NEW rq, Calm(bm, k, cf, ps, rq), MaxProcs \in Nat,
         NEW c \in DOMAIN bm, NEW n \in Seq(Process), Len(n) = Len(ps), n[bm[c].proc].st = "dead",
         \A q \in 1 .. Len(ps) : q # bm[c].proc => n[q] = ps[q],
         NEW nb, DOMAIN nb = DOMAIN bm \ {c}, \A d \in DOMAIN nb : nb[d] = bm[d]
  PROVE  Calm(nb, k, cf, n, rq)
<1>1. PICK p \in 1 .. Len(ps) : p = bm[c].proc
  BY DEF Calm, Entries
<1>2. /\ Len(n) = Len(ps) /\ n[p].st = "dead" /\ \A q \in 1 .. Len(ps) : q # p => n[q] = ps[q]
      /\ \A d \in DOMAIN nb : d \in DOMAIN bm /\ nb[d] = bm[d] /\ nb[d].proc # p
  BY <1>1 DEF Calm, Entries
<1>3. Types(nb, k, cf, n, rq)
  BY <1>2 DEF Calm, Types
<1>4. \A q \in 1 .. Len(ps) : /\ n[q].st # "dead" => n[q] = ps[q] /\ q # p
                             /\ Busy(n[q].st) => n[q] = ps[q]
  BY <1>2 DEF Busy
<1>5. Starts(nb, k, cf, n, rq)
  <2>1. ASSUME NEW r \in Requests, rq[r].pc # "idle" PROVE Starting(rq[r], nb, k, cf, n)
    <3>1. Starting(rq[r], bm, k, cf, ps)
      BY <2>1 DEF Calm, Starts
    <3>2. CASE rq[r].pc # "register"
      BY <1>2, <1>4, <3>1, <3>2 DEF Starting
    <3>3. CASE rq[r].pc = "register"
      <4>1. k \in 1 .. Len(ps) /\ k # p
        BY <1>1, <3>1, <3>3 DEF Starting, Calm, Types
      <4>2. n[k] = ps[k]
        BY <1>2, <4>1
      <4> QED BY <1>2, <3>1, <3>3, <4>2 DEF Starting
    <3> QED BY <3>2, <3>3
  <2> QED BY <1>2, <2>1 DEF Calm, Starts
<1>6. Bound(n)
  BY <1>2, <1>4 DEF Calm, Bound
<1>7. Entries(nb, cf, n)
  <2>1. ASSUME NEW d \in DOMAIN nb
        PROVE  nb[d].proc \in 1 .. Len(n) /\ Serves(n[nb[d].proc], d, nb[d].port, cf)
    <3>1. bm[d].proc \in 1 .. Len(ps) /\ Serves(ps[bm[d].proc], d, bm[d].port, cf)
      BY <1>2 DEF Calm, Entries
    <3> QED BY <1>2, <3>1
  <2>2. \A d, e \in DOMAIN nb : nb[d].proc = nb[e].proc => d = e
    BY <1>2 DEF Calm, Entries
  <2> QED BY <2>1, <2>2 DEF Entries
<1>8. Reached(nb, n, rq)
  <2> SUFFICES ASSUME NEW q \in 1 .. Len(n), n[q].st # "dead"
               PROVE  \/ \E d \in DOMAIN nb : nb[d].proc = q
                      \/ \E r \in Requests : rq[r].pc = "register" /\ rq[r].proc = q
    BY DEF Reached
  <2>1. ps[q].st # "dead" /\ q # p /\ q \in 1 .. Len(ps)
    BY <1>2, <1>4
  <2>2. ASSUME NEW d \in DOMAIN bm, bm[d].proc = q PROVE d \in DOMAIN nb /\ nb[d].proc = q
    BY <1>1, <2>1, <2>2, SMTT(30)
  <2> QED BY <2>1, <2>2 DEF Calm, Reached
<1> QED BY <1>3, <1>5, <1>6, <1>7, <1>8 DEF Calm

-----------------------------------------------------------------------------
(* The steps *)

Now == Calm(bm_processes, spawn_proc_id, compfile, procs, req)

(* Who listens on the port of a live process is that process. *)
LEMMA OneServer ==
  ASSUME Now, NEW p \in 1 .. Len(procs), procs[p].st # "dead"
  PROVE  ServerAt(procs[p].port) \subseteq {p}
<1>1. procs \in Seq(Process)
  BY DEF Now, Calm, Types
<1>2. DOMAIN procs = 1 .. Len(procs)
  BY <1>1
<1> QED BY <1>2, Zenon DEF ServerAt, Now, Calm, Bound

LEMMA StartStep ==
  ASSUME MaxProcs \in Nat, Now, NEW r \in Requests, NEW c \in Comps, start_composition(r, c), calm'
  PROVE  Now'
<1>1. /\ \A x \in Requests : req[x].pc = "idle"
      /\ c \notin DOMAIN bm_processes /\ Len(procs) < MaxProcs
      /\ UNCHANGED <<bm_processes, spawn_proc_id, procs>>
  BY Zenon DEF start_composition
<1>2. \A p \in 1 .. Len(procs) : ~Busy(procs[p].st)
  <2>1. Settled
    BY Zenon DEF start_composition
  <2>2. DOMAIN procs = 1 .. Len(procs)
    BY DEF Now, Calm, Types
  <2> QED BY <2>1, <2>2 DEF Settled, Busy
<1>3. /\ spawn_proc_id = Len(procs) + 1 /\ spawn_proc_id \in Files /\ Len(procs) \in Nat
      /\ spawn_proc_id \in Nat /\ compfile \in [Files -> Comps \cup {NoComp}]
  BY <1>1 DEF Now, Calm, Types, Starts, Files
<1>4. ASSUME NEW pc \in {"saving", "port"}
      PROVE  \E f \in Request : /\ f = [Idle EXCEPT !.pc = pc, !.comp = c, !.id = spawn_proc_id]
                               /\ f.pc = pc /\ f.comp = c /\ f.id = spawn_proc_id
  <2>1. PICK i \in Request, n \in Nat : i = Idle /\ n = spawn_proc_id
    <3>1. Idle \in Request
      BY DEF Idle, Request
    <3> QED BY <1>3, <3>1
  <2>2. LET f == [i EXCEPT !.pc = pc, !.comp = c, !.id = n]
        IN  f \in Request /\ f.pc = pc /\ f.comp = c /\ f.id = n
    BY Zenon DEF Request
  <2> QED BY <2>1, <2>2, Zenon
<1>5. CASE /\ req' = [req EXCEPT ![r] = [Idle EXCEPT !.pc = "saving", !.comp = c, !.id = spawn_proc_id]]
           /\ compfile' = compfile
  <2>1. PICK f \in Request : /\ f = [Idle EXCEPT !.pc = "saving", !.comp = c, !.id = spawn_proc_id]
                             /\ f.pc = "saving" /\ f.comp = c /\ f.id = spawn_proc_id
    BY <1>4
  <2>2. Starting(f, bm_processes, spawn_proc_id, compfile, procs)
    BY <1>1, <1>2, <1>3, <2>1 DEF Starting, Files
  <2>3. Calm(bm_processes, spawn_proc_id, compfile, procs, [req EXCEPT ![r] = f])
    BY <1>1, <1>3, <2>1, <2>2, RequestMoves, Zenon DEF Now
  <2> QED BY <1>1, <1>5, <2>1, <2>3 DEF Now
<1>6. CASE /\ req' = [req EXCEPT ![r] = [Idle EXCEPT !.pc = "port", !.comp = c, !.id = spawn_proc_id]]
           /\ compfile' = [compfile EXCEPT ![spawn_proc_id] = c]
  <2>1. PICK f \in Request : /\ f = [Idle EXCEPT !.pc = "port", !.comp = c, !.id = spawn_proc_id]
                             /\ f.pc = "port" /\ f.comp = c /\ f.id = spawn_proc_id
    BY <1>4
  <2>2. PICK cf \in [Files -> Comps \cup {NoComp}] : cf = [compfile EXCEPT ![spawn_proc_id] = c] /\ cf[spawn_proc_id] = c
    <3>1. /\ [compfile EXCEPT ![spawn_proc_id] = c] \in [Files -> Comps \cup {NoComp}]
          /\ [compfile EXCEPT ![spawn_proc_id] = c][spawn_proc_id] = c
      BY <1>3
    <3> QED BY <3>1, Zenon
  <2>3. Starting(f, bm_processes, spawn_proc_id, cf, procs)
    BY <1>1, <1>2, <1>3, <2>1, <2>2 DEF Starting, Files
  <2>4. Calm(bm_processes, spawn_proc_id, cf, procs, [req EXCEPT ![r] = f])
    BY <1>1, <1>2, <1>3, <2>1, <2>3, RequestMoves, Zenon DEF Now
  <2> QED BY <1>1, <1>6, <2>1, <2>2, <2>4 DEF Now
<1> QED BY <1>5, <1>6 DEF start_composition

LEMMA SavedStep ==
  ASSUME MaxProcs \in Nat, Now, NEW r \in Requests, datafiles_saved(r)
  PROVE  Now'
<1>1. /\ req[r].pc = "saving" /\ UNCHANGED <<bm_processes, spawn_proc_id, procs>>
      /\ compfile' = [compfile EXCEPT ![req[r].id] = req[r].comp]
      /\ req' = [req EXCEPT ![r] = [req[r] EXCEPT !.pc = "port"]]
  BY DEF datafiles_saved
<1>2. /\ Starting(req[r], bm_processes, spawn_proc_id, compfile, procs)
      /\ \A x \in Requests : x # r => req[x].pc = "idle"
      /\ req[r] \in Request /\ compfile \in [Files -> Comps \cup {NoComp}] /\ spawn_proc_id \in Nat
      /\ Len(procs) \in Nat
  BY <1>1 DEF Now, Calm, Starts, Types
<1>3. /\ req[r].id = spawn_proc_id /\ spawn_proc_id \in Files /\ req[r].comp \in Comps
      /\ \A p \in 1 .. Len(procs) : ~Busy(procs[p].st)
  BY <1>1, <1>2 DEF Starting, Files
<1>4. PICK f \in Request : /\ f = [req[r] EXCEPT !.pc = "port"]
                           /\ f.pc = "port" /\ f.comp = req[r].comp /\ f.id = req[r].id
  <2>1. /\ [req[r] EXCEPT !.pc = "port"] \in Request /\ [req[r] EXCEPT !.pc = "port"].pc = "port"
        /\ [req[r] EXCEPT !.pc = "port"].comp = req[r].comp /\ [req[r] EXCEPT !.pc = "port"].id = req[r].id
    BY <1>2 DEF Request
  <2> QED BY <2>1, Zenon
<1>5. PICK cf \in [Files -> Comps \cup {NoComp}] :
        cf = [compfile EXCEPT ![req[r].id] = req[r].comp] /\ cf[spawn_proc_id] = req[r].comp
  <2>1. PICK n \in Files, c \in Comps : n = req[r].id /\ c = req[r].comp
    BY <1>3
  <2>2. [compfile EXCEPT ![n] = c] \in [Files -> Comps \cup {NoComp}] /\ [compfile EXCEPT ![n] = c][n] = c
    BY <1>2
  <2> QED BY <1>3, <2>1, <2>2, Zenon
<1>6. Starting(f, bm_processes, spawn_proc_id, cf, procs)
  BY <1>1, <1>2, <1>3, <1>4, <1>5 DEF Starting
<1>7. Calm(bm_processes, spawn_proc_id, cf, procs, [req EXCEPT ![r] = f])
  BY <1>1, <1>2, <1>3, <1>4, <1>6, RequestMoves, Zenon DEF Now
<1> QED BY <1>1, <1>4, <1>5, <1>7 DEF Now

LEMMA PortStep ==
  ASSUME MaxProcs \in Nat, Now, NEW r \in Requests, NEW port \in Ports, find_open_port(r, port)
  PROVE  Now'
<1>1. /\ req[r].pc = "port" /\ UNCHANGED <<bm_processes, spawn_proc_id, procs, compfile>>
      /\ ServerAt(port) = {}
      /\ req' = [req EXCEPT ![r] = [req[r] EXCEPT !.pc = "spawn", !.port = port]]
  BY Zenon DEF find_open_port
<1>2. /\ Starting(req[r], bm_processes, spawn_proc_id, compfile, procs)
      /\ \A x \in Requests : x # r => req[x].pc = "idle"
      /\ req[r] \in Request /\ compfile \in [Files -> Comps \cup {NoComp}]
      /\ procs \in Seq(Process)
  BY <1>1 DEF Now, Calm, Starts, Types
<1>3. PICK f \in Request : /\ f = [req[r] EXCEPT !.pc = "spawn", !.port = port]
                           /\ f.pc = "spawn" /\ f.comp = req[r].comp /\ f.id = req[r].id /\ f.port = port
  <2> DEFINE f == [req[r] EXCEPT !.pc = "spawn", !.port = port]
  <2>1. f \in Request /\ f.pc = "spawn" /\ f.comp = req[r].comp /\ f.id = req[r].id /\ f.port = port
    BY <1>2, Zenon DEF Request
  <2> QED BY <2>1, Zenon
<1>4. ASSUME NEW p \in 1 .. Len(procs), procs[p].st # "dead" PROVE procs[p].port # port
  <2>1. procs[p] \in Process /\ ~Busy(procs[p].st) /\ p \in DOMAIN procs
    BY <1>1, <1>2 DEF Starting
  <2>2. procs[p].st = "serving"
    BY <1>4, <2>1 DEF Process, Busy
  <2> QED BY <1>1, <2>1, <2>2 DEF ServerAt
<1>5. Starting(f, bm_processes, spawn_proc_id, compfile, procs)
  BY <1>1, <1>2, <1>3, <1>4 DEF Starting
<1>6. Calm(bm_processes, spawn_proc_id, compfile, procs, [req EXCEPT ![r] = f])
  BY <1>1, <1>2, <1>3, <1>5, RequestMoves, Zenon DEF Now
<1> QED BY <1>1, <1>3, <1>6 DEF Now

LEMMA SpawnStep ==
  ASSUME MaxProcs \in Nat, Now, NEW r \in Requests, spawn(r)
  PROVE  Now'
<1>1. req[r].pc = "spawn" /\ UNCHANGED <<bm_processes, spawn_proc_id, compfile>>
  BY DEF spawn
<1>2. /\ Starting(req[r], bm_processes, spawn_proc_id, compfile, procs)
      /\ \A x \in Requests : x # r => req[x].pc = "idle"
      /\ req[r] \in Request /\ compfile \in [Files -> Comps \cup {NoComp}] /\ Len(procs) \in Nat
  BY <1>1 DEF Now, Calm, Starts, Types
<1>3. CASE /\ Len(procs) < MaxProcs
           /\ procs' = Append(procs, [st |-> "spawned", comp |-> NoComp,
                                      file |-> req[r].id, port |-> req[r].port])
           /\ req' = [req EXCEPT ![r] = [req[r] EXCEPT !.pc = "register", !.proc = Len(procs) + 1]]
  <2> DEFINE h == [st |-> "spawned", comp |-> NoComp, file |-> req[r].id, port |-> req[r].port]
             q == [req[r] EXCEPT !.pc = "register", !.proc = Len(procs) + 1]
  <2>1. PICK g \in Process : /\ g = h /\ g.st = "spawned" /\ g.comp = NoComp
                             /\ g.file = req[r].id /\ g.port = req[r].port
    <3>1. /\ h \in Process /\ h.st = "spawned" /\ h.comp = NoComp
          /\ h.file = req[r].id /\ h.port = req[r].port
      BY <1>2 DEF Process, Request
    <3> QED BY <3>1, Zenon
  <2>2. PICK f \in Request : /\ f = q /\ f.pc = "register" /\ f.proc = Len(procs) + 1
                             /\ f.comp = req[r].comp /\ f.id = req[r].id /\ f.port = req[r].port
    <3>1. /\ q \in Request /\ q.pc = "register" /\ q.proc = Len(procs) + 1
          /\ q.comp = req[r].comp /\ q.id = req[r].id /\ q.port = req[r].port
      <4>1. PICK i \in Request, n \in Nat : i = req[r] /\ n = Len(procs) + 1
        BY <1>2
      <4>2. LET x == [i EXCEPT !.pc = "register", !.proc = n]
            IN  /\ x \in Request /\ x.pc = "register" /\ x.proc = n
                /\ x.comp = i.comp /\ x.id = i.id /\ x.port = i.port
        BY Zenon DEF Request
      <4> QED BY <4>1, <4>2, Zenon
    <3> QED BY <3>1, Zenon
  <2> HIDE DEF h, q
  <2>3. Calm(bm_processes, spawn_proc_id, compfile, Append(procs, g), [req EXCEPT ![r] = f])
    BY <1>1, <1>3, <2>1, <2>2, Spawned, Zenon DEF Now
  <2> QED BY <1>1, <1>3, <2>1, <2>2, <2>3 DEF Now, h, q
<1>4. CASE req' = [req EXCEPT ![r] = Idle] /\ procs' = procs
  <2>1. Idle \in Request /\ Idle.pc = "idle"
    BY DEF Idle, Request
  <2>2. spawn_proc_id = Len(procs) + 1
    BY <1>1, <1>2 DEF Starting
  <2>3. Calm(bm_processes, spawn_proc_id, compfile, procs, [req EXCEPT ![r] = Idle])
    BY <1>1, <1>2, <2>1, <2>2, RequestMoves DEF Now
  <2> QED BY <1>1, <1>4, <2>3 DEF Now
<1> QED BY <1>3, <1>4, Zenon DEF spawn

LEMMA RegisterStep ==
  ASSUME MaxProcs \in Nat, Now, NEW r \in Requests, register(r)
  PROVE  Now'
<1>1. /\ req[r].pc = "register" /\ spawn_proc_id' = spawn_proc_id + 1
      /\ req' = [req EXCEPT ![r] = Idle] /\ UNCHANGED <<compfile, procs>>
  BY DEF register
<1>2. Idle \in Request /\ Idle.pc = "idle"
  BY DEF Idle, Request
<1>3. PICK nb : nb = [c \in DOMAIN bm_processes \cup {req[r].comp} |->
                        IF c = req[r].comp THEN [proc |-> req[r].proc, port |-> req[r].port]
                        ELSE bm_processes[c]]
  BY Zenon
<1>4. /\ DOMAIN nb = DOMAIN bm_processes \cup {req[r].comp}
      /\ nb[req[r].comp].proc = req[r].proc /\ nb[req[r].comp].port = req[r].port
      /\ \A c \in DOMAIN bm_processes : c # req[r].comp => nb[c] = bm_processes[c]
  BY <1>3
<1>5. Calm(nb, spawn_proc_id + 1, compfile, procs, [req EXCEPT ![r] = Idle])
  BY <1>1, <1>2, <1>4, Registered, Zenon DEF Now
<1>6. bm_processes' = nb
  BY <1>3 DEF register
<1> QED BY <1>1, <1>5, <1>6 DEF Now

(* A process has one composition: that of its entry, or that of the        *)
(* request which is about to register it.                                  *)
LEMMA ReadStep ==
  ASSUME MaxProcs \in Nat, Now, NEW p \in DOMAIN procs, read_composition(p)
  PROVE  Now'
<1>1. /\ procs[p].st = "spawned" /\ UNCHANGED <<bm_processes, spawn_proc_id, compfile, req>>
      /\ procs' = [procs EXCEPT ![p] = [procs[p] EXCEPT !.st = "installing",
                                                        !.comp = compfile[procs[p].file]]]
  BY Zenon DEF read_composition
<1>2. p \in 1 .. Len(procs) /\ procs[p] \in Process /\ compfile \in [Files -> Comps \cup {NoComp}]
  BY DEF Now, Calm, Types
<1>3. procs[p].file \in Files
  <2>1. \/ \E c \in DOMAIN bm_processes : bm_processes[c].proc = p
        \/ \E r \in Requests : req[r].pc = "register" /\ req[r].proc = p
    BY <1>1, <1>2 DEF Now, Calm, Reached
  <2>2. \A r \in Requests : req[r].pc = "register" /\ req[r].proc = p => procs[p].file \in Files
    BY DEF Now, Calm, Starts, Starting, Serves
  <2>3. \A c \in DOMAIN bm_processes : bm_processes[c].proc = p => procs[p].file \in Files
    BY DEF Now, Calm, Entries, Serves
  <2> QED BY <2>1, <2>2, <2>3
<1> DEFINE h == [procs[p] EXCEPT !.st = "installing", !.comp = compfile[procs[p].file]]
<1>4. PICK g \in Process : /\ g = h /\ g.st = "installing" /\ g.comp = compfile[procs[p].file]
                           /\ g.file = procs[p].file /\ g.port = procs[p].port
  <2>1. PICK f \in Process, c \in Comps \cup {NoComp} : f = procs[p] /\ c = compfile[procs[p].file]
    BY <1>2, <1>3
  <2>2. LET x == [f EXCEPT !.st = "installing", !.comp = c]
        IN  /\ x \in Process /\ x.st = "installing" /\ x.comp = c /\ x.file = f.file /\ x.port = f.port
    BY Zenon DEF Process
  <2> QED BY <2>1, <2>2, Zenon
<1> HIDE DEF h
<1>5. \A c, port : Serves(procs[p], c, port, compfile) => Serves(g, c, port, compfile)
  BY <1>1, <1>4 DEF Serves
<1>6. \A c \in DOMAIN bm_processes : bm_processes[c].proc = p =>
        Serves(g, c, bm_processes[c].port, compfile)
  BY <1>5 DEF Now, Calm, Entries
<1>7. \A r \in Requests : req[r].pc = "register" /\ req[r].proc = p =>
        Serves(g, req[r].comp, req[r].port, compfile)
  BY <1>5 DEF Now, Calm, Starts, Starting
<1>8. Calm(bm_processes, spawn_proc_id, compfile, [procs EXCEPT ![p] = g], req)
  BY <1>1, <1>2, <1>4, <1>6, <1>7, ProcessMoves, Zenon DEF Now, Busy
<1> QED BY <1>1, <1>4, <1>8 DEF Now, h

LEMMA ServeStep ==
  ASSUME MaxProcs \in Nat, Now, NEW p \in DOMAIN procs, serve(p)
  PROVE  Now'
<1>1. procs[p].st = "installing" /\ UNCHANGED <<bm_processes, spawn_proc_id, compfile, req>>
  BY DEF serve
<1>2. p \in 1 .. Len(procs) /\ procs[p] \in Process
  BY DEF Now, Calm, Types
<1>3. ServerAt(procs[p].port) = {}
  BY <1>1, <1>2, OneServer DEF ServerAt
<1>4. procs' = [procs EXCEPT ![p] = [procs[p] EXCEPT !.st = "serving"]]
  BY <1>3 DEF serve
<1>5. PICK g \in Process : /\ g = [procs[p] EXCEPT !.st = "serving"] /\ g.st = "serving"
                           /\ g.comp = procs[p].comp /\ g.file = procs[p].file /\ g.port = procs[p].port
  <2>1. PICK f \in Process : f = procs[p]
    BY <1>2
  <2>2. LET x == [f EXCEPT !.st = "serving"]
        IN  x \in Process /\ x.st = "serving" /\ x.comp = f.comp /\ x.file = f.file /\ x.port = f.port
    BY DEF Process
  <2> QED BY <2>1, <2>2, Zenon
<1>6. \A c, port : Serves(procs[p], c, port, compfile) => Serves(g, c, port, compfile)
  BY <1>5 DEF Serves
<1>7. \A c \in DOMAIN bm_processes : bm_processes[c].proc = p =>
        Serves(g, c, bm_processes[c].port, compfile)
  BY <1>6 DEF Now, Calm, Entries
<1>8. \A r \in Requests : req[r].pc = "register" /\ req[r].proc = p =>
        Serves(g, req[r].comp, req[r].port, compfile)
  BY <1>6 DEF Now, Calm, Starts, Starting
<1>9. Calm(bm_processes, spawn_proc_id, compfile, [procs EXCEPT ![p] = g], req)
  BY <1>1, <1>2, <1>5, <1>7, <1>8, ProcessMoves, Zenon DEF Now, Busy
<1> QED BY <1>1, <1>4, <1>5, <1>9 DEF Now

LEMMA UpdateStep ==
  ASSUME MaxProcs \in Nat, Now, NEW c \in Comps, update_composition(c)
  PROVE  Now'
<1>1. c \in DOMAIN bm_processes /\ UNCHANGED <<bm_processes, spawn_proc_id, compfile, req>>
  BY DEF update_composition
<1>2. PICK p \in ServerAt(bm_processes[c].port) : procs' = [procs EXCEPT ![p] = [procs[p] EXCEPT !.comp = c]]
  BY Zenon DEF update_composition
<1>3. /\ bm_processes[c].proc \in 1 .. Len(procs)
      /\ Serves(procs[bm_processes[c].proc], c, bm_processes[c].port, compfile)
      /\ \A d \in DOMAIN bm_processes : bm_processes[d].proc = bm_processes[c].proc => d = c
  BY <1>1 DEF Now, Calm, Entries
<1>4. p = bm_processes[c].proc
  BY <1>2, <1>3, OneServer, Zenon DEF Serves
<1>5. p \in 1 .. Len(procs) /\ procs[p] \in Process /\ procs[p].st = "serving"
  BY <1>2, <1>3, <1>4 DEF Now, Calm, Types, ServerAt
<1>6. PICK g \in Process : /\ g = [procs[p] EXCEPT !.comp = c] /\ g.st = procs[p].st
                           /\ g.comp = c /\ g.file = procs[p].file /\ g.port = procs[p].port
  <2>1. PICK f \in Process : f = procs[p]
    BY <1>5
  <2>2. LET x == [f EXCEPT !.comp = c]
        IN  x \in Process /\ x.st = f.st /\ x.comp = c /\ x.file = f.file /\ x.port = f.port
    BY DEF Process
  <2> QED BY <2>1, <2>2, Zenon
<1>7. Serves(g, c, bm_processes[c].port, compfile)
  BY <1>3, <1>4, <1>5, <1>6 DEF Serves
<1>8. \A d \in DOMAIN bm_processes : bm_processes[d].proc = p =>
        Serves(g, d, bm_processes[d].port, compfile)
  BY <1>3, <1>4, <1>7
<1>9. \A r \in Requests : ~(req[r].pc = "register" /\ req[r].proc = p)
  BY <1>1, <1>4 DEF Now, Calm, Starts, Starting
<1>10. Calm(bm_processes, spawn_proc_id, compfile, [procs EXCEPT ![p] = g], req)
  BY <1>1, <1>5, <1>6, <1>8, <1>9, ProcessMoves, Zenon DEF Now, Busy
<1> QED BY <1>1, <1>2, <1>6, <1>10 DEF Now

LEMMA StopStep ==
  ASSUME MaxProcs \in Nat, Now, NEW c \in Comps, stop_composition(c)
  PROVE  Now'
<1>1. c \in DOMAIN bm_processes /\ UNCHANGED <<spawn_proc_id, compfile, req>>
  BY DEF stop_composition
<1>2. PICK p \in 1 .. Len(procs) : /\ p = bm_processes[c].proc
                                   /\ Serves(procs[p], c, bm_processes[c].port, compfile)
  BY <1>1 DEF Now, Calm, Entries
<1>3. ServerAt(bm_processes[c].port) \subseteq {p}
  BY <1>2, OneServer, Zenon DEF Serves
<1>4. procs \in Seq(Process) /\ DOMAIN procs = 1 .. Len(procs) /\ Len(procs) \in Nat
  BY DEF Now, Calm, Types
<1>5. procs' = [q \in 1 .. Len(procs) |-> IF q = p THEN [procs[q] EXCEPT !.st = "dead"] ELSE procs[q]]
  BY <1>2, <1>3, <1>4 DEF stop_composition
<1>6. PICK g \in Process : g = [procs[p] EXCEPT !.st = "dead"] /\ g.st = "dead"
  <2>1. PICK f \in Process : f = procs[p]
    BY <1>4
  <2>2. LET x == [f EXCEPT !.st = "dead"] IN x \in Process /\ x.st = "dead"
    BY DEF Process
  <2> QED BY <2>1, <2>2, Zenon
<1>7. PICK n : n = [q \in 1 .. Len(procs) |-> IF q = p THEN g ELSE procs[q]]
  BY Zenon
<1>8. procs' = n
  BY <1>5, <1>6, <1>7
<1>9. /\ n \in Seq(Process) /\ Len(n) = Len(procs) /\ n[p].st = "dead"
      /\ \A q \in 1 .. Len(procs) : q # p => n[q] = procs[q]
  <2>1. \A q \in 1 .. Len(procs) : procs[q] \in Process
    BY <1>4
  <2>2. n \in [1 .. Len(procs) -> Process]
    BY <1>7, <2>1
  <2>3. n \in Seq(Process) /\ Len(n) = Len(procs)
    BY <1>4, <2>2
  <2> QED BY <1>6, <1>7, <2>3, Zenon
<1>10. PICK nb : nb = [x \in DOMAIN bm_processes \ {c} |-> bm_processes[x]]
  BY Zenon
<1>11. DOMAIN nb = DOMAIN bm_processes \ {c} /\ \A d \in DOMAIN nb : nb[d] = bm_processes[d]
  BY <1>10
<1>12. Calm(nb, spawn_proc_id, compfile, n, req)
  <2>1. /\ n[bm_processes[c].proc].st = "dead"
        /\ \A q \in 1 .. Len(procs) : q # bm_processes[c].proc => n[q] = procs[q]
    BY <1>2, <1>9
  <2> QED BY <1>1, <1>9, <1>11, <2>1, Killed, Zenon DEF Now
<1>13. bm_processes' = nb
  BY <1>10 DEF stop_composition
<1> QED BY <1>1, <1>8, <1>12, <1>13 DEF Now

LEMMA DaemonStep ==
  ASSUME MaxProcs \in Nat, IInv, [DaemonNext]_DaemonVars
  PROVE  IInv'
<1>1. CASE UNCHANGED DaemonVars
  BY <1>1 DEF DaemonVars, IInv, Calm
<1>2. CASE DaemonNext
  <2>1. calm' \in BOOLEAN /\ (calm' => calm)
    <3>1. ASSUME NEW r \in Requests, NEW c \in Comps, start_composition(r, c)
          PROVE  calm' \in BOOLEAN /\ (calm' => calm)
      BY <3>1, Zenon DEF start_composition
    <3>2. ASSUME NEW p, crash(p) PROVE calm' \in BOOLEAN /\ (calm' => calm)
      BY <3>2, Zenon DEF crash
    <3>3. \/ \E r \in Requests, c \in Comps : start_composition(r, c)
          \/ \E p \in DOMAIN procs : crash(p)
          \/ calm' = calm
      BY <1>2, Zenon DEF DaemonNext, datafiles_saved, find_open_port, spawn, register,
         read_composition, serve, update_composition, stop_composition
    <3>4. calm \in BOOLEAN
      BY DEF IInv
    <3>5. ASSUME calm' = calm PROVE calm' \in BOOLEAN /\ (calm' => calm)
      BY <3>4, <3>5
    <3> QED BY <3>1, <3>2, <3>3, <3>5
  <2>2. ASSUME calm' PROVE Now'
    <3>1. Now /\ \A p \in DOMAIN procs : ~crash(p)
      BY <2>1, <2>2 DEF IInv, Now, crash
    <3>2. ASSUME NEW r \in Requests, NEW c \in Comps, start_composition(r, c) PROVE Now'
      BY <2>2, <3>1, <3>2, StartStep
    <3>3. ASSUME NEW r \in Requests, datafiles_saved(r) \/ spawn(r) \/ register(r) PROVE Now'
      BY <3>1, <3>3, SavedStep, SpawnStep, RegisterStep
    <3>4. ASSUME NEW r \in Requests, NEW port \in Ports, find_open_port(r, port) PROVE Now'
      BY <3>1, <3>4, PortStep
    <3>5. ASSUME NEW p \in DOMAIN procs, read_composition(p) \/ serve(p) PROVE Now'
      BY <3>1, <3>5, ReadStep, ServeStep
    <3>6. ASSUME NEW c \in Comps, update_composition(c) \/ stop_composition(c) PROVE Now'
      BY <3>1, <3>6, UpdateStep, StopStep
    <3> QED BY <1>2, <3>1, <3>2, <3>3, <3>4, <3>5, <3>6 DEF DaemonNext
  <2> QED BY <2>1, <2>2 DEF IInv, Now
<1> QED BY <1>1, <1>2

LEMMA DaemonInvariant == ASSUME MaxProcs \in Nat PROVE DaemonSpec => []IInv
<1>1. ASSUME DaemonInit PROVE IInv
  <2> USE <1>1 DEF DaemonInit
  <2>1. /\ DOMAIN bm_processes = {} /\ Len(procs) = 0 /\ procs \in Seq(Process)
        /\ compfile \in [Files -> Comps \cup {NoComp}] /\ spawn_proc_id = 1
    BY DEF Files
  <2>2. Idle \in Request /\ Idle.pc = "idle"
    BY DEF Idle, Request
  <2>3. req \in [Requests -> Request] /\ \A r \in Requests : req[r].pc = "idle"
    BY <2>2
  <2>4. Types(bm_processes, spawn_proc_id, compfile, procs, req)
    BY <2>1, <2>3 DEF Types
  <2>5. Starts(bm_processes, spawn_proc_id, compfile, procs, req) /\ Bound(procs)
    BY <2>1, <2>3 DEF Starts, Bound
  <2>6. Entries(bm_processes, compfile, procs) /\ Reached(bm_processes, procs, req)
    BY <2>1 DEF Entries, Reached
  <2>7. calm \in BOOLEAN
    BY Zenon
  <2> QED BY <2>4, <2>5, <2>6, <2>7 DEF IInv, Calm
<1>2. IInv /\ [DaemonNext]_DaemonVars => IInv'
  BY DaemonStep
<1> QED BY <1>1, <1>2, PTL DEF DaemonSpec

(* bmdaemon.py: what the table says is running is what runs.  As long as   *)
(* no start overlaps with another one or with a process that has not bound *)
(* its port, and no process died by itself, the process of an entry holds  *)
(* the entry's composition and nobody else answers on its port, for any    *)
(* sequence of starts, updates and stops.                                  *)
THEOREM TableIsTrue == ASSUME MaxProcs \in Nat PROVE DaemonSpec => []RunsWhatItSays
<1>1. ASSUME IInv PROVE RunsWhatItSays
  <2> SUFFICES ASSUME calm, NEW c \in DOMAIN bm_processes
               PROVE  /\ procs[bm_processes[c].proc].comp \in {NoComp, c}
                      /\ ServerAt(bm_processes[c].port) \subseteq {bm_processes[c].proc}
    BY DEF RunsWhatItSays
  <2>1. Now
    BY <1>1 DEF IInv, Now
  <2>2. PICK p \in 1 .. Len(procs) : /\ p = bm_processes[c].proc
                                     /\ Serves(procs[p], c, bm_processes[c].port, compfile)
    BY <2>1 DEF Now, Calm, Entries
  <2> QED BY <2>1, <2>2, OneServer, Zenon DEF Serves
<1> QED BY <1>1, DaemonInvariant, PTL

(* bmdaemon.py: under the same condition no process is lost: each live one *)
(* is in the table, or the request that spawned it will put it there.      *)
THEOREM NoProcessLost == ASSUME MaxProcs \in Nat PROVE DaemonSpec => []NoOrphanProcess
<1>1. ASSUME IInv PROVE NoOrphanProcess
  <2> SUFFICES ASSUME calm, NEW p \in DOMAIN procs, procs[p].st # "dead"
               PROVE  \/ \E c \in DOMAIN bm_processes : bm_processes[c].proc = p
                      \/ \E r \in Requests : req[r].pc = "register" /\ req[r].proc = p
    BY DEF NoOrphanProcess, Alive
  <2>1. Now
    BY <1>1 DEF IInv, Now
  <2>2. p \in 1 .. Len(procs)
    BY <2>1 DEF Now, Calm, Types
  <2> QED BY <2>1, <2>2 DEF Now, Calm, Reached
<1> QED BY <1>1, DaemonInvariant, PTL

-----------------------------------------------------------------------------
(* The registration and the shell *)

(* While calls are answered in time, one is under way at most, and none is *)
(* left when the loop has stopped.                                         *)
Answered ==
  /\ bc_connected \in BOOLEAN /\ looping \in BOOLEAN /\ prompt \in BOOLEAN /\ outstanding \in Nat
  /\ prompt => outstanding <= 1
  /\ prompt /\ ~looping => outstanding = 0 /\ ~bc_connected

(* bmdaemon.py: a daemon that believes it is registered goes on sending    *)
(* keepalives, for any number of attempts and any answers, provided that   *)
(* each call is answered before the next one.                              *)
THEOREM KeepsAlive == RegistrationSpec => []ConnectedIsKeptAlive
<1>1. ASSUME RegistrationInit PROVE Answered
  <2>1. bc_connected \in BOOLEAN /\ looping \in BOOLEAN /\ prompt \in BOOLEAN /\ ~bc_connected
    BY <1>1, Zenon DEF RegistrationInit
  <2>2. outstanding = 0
    BY <1>1 DEF RegistrationInit
  <2> QED BY <2>1, <2>2 DEF Answered
<1>2. ASSUME Answered, [RegistrationNext]_RegistrationVars PROVE Answered'
  <2>1. CASE registration
    <3>1. prompt' \in BOOLEAN /\ (prompt' => prompt /\ outstanding = 0)
      BY <2>1, Zenon DEF registration
    <3>2. /\ bc_connected' \in BOOLEAN /\ looping' \in BOOLEAN /\ looping'
          /\ outstanding' = outstanding + 1 /\ outstanding \in Nat
      BY <1>2, <2>1 DEF Answered, registration
    <3> QED BY <3>1, <3>2 DEF Answered
  <2>2. CASE registration_error
    <3>1. bc_connected' \in BOOLEAN /\ looping' \in BOOLEAN /\ ~bc_connected' /\ prompt' = prompt
      BY <2>2, Zenon DEF registration_error
    <3>2. /\ prompt \in BOOLEAN /\ outstanding' = outstanding - 1 /\ outstanding > 0 /\ outstanding \in Nat
          /\ prompt => outstanding <= 1
      BY <1>2, <2>2 DEF Answered, registration_error
    <3> QED BY <3>1, <3>2 DEF Answered
  <2>3. ASSUME NEW success \in BOOLEAN, registration_results(success) PROVE Answered'
    BY <1>2, <2>3 DEF Answered, registration_results
  <2>4. CASE UNCHANGED RegistrationVars
    BY <1>2, <2>4 DEF Answered, RegistrationVars
  <2> QED BY <1>2, <2>1, <2>2, <2>3, <2>4 DEF RegistrationNext
<1>3. Answered => ConnectedIsKeptAlive
  BY DEF Answered, ConnectedIsKeptAlive
<1> QED BY <1>1, <1>2, <1>3, PTL DEF RegistrationSpec

(* cli.py: the shell's flag and the manager's never part at the prompt, so *)
(* that 'start' never installs over a composition, and the shell does not  *)
(* exit with one.                                                          *)
THEOREM ShellAgrees == CliSpec => []FlagsAgree
<1> DEFINE I == /\ is_running \in BOOLEAN /\ bm_running \in BOOLEAN /\ installed \in BOOLEAN
                /\ FlagsAgree
<1>1. CliInit => I
  BY Zenon DEF CliInit, FlagsAgree
<1>2. ASSUME I, [CliNext]_CliVars PROVE I'
  <2>1. CASE start
    BY <1>2, <2>1, Zenon DEF FlagsAgree, start
  <2>2. CASE stop
    BY <1>2, <2>2, Zenon DEF FlagsAgree, stop
  <2>3. CASE update
    BY <1>2, <2>3, Zenon DEF FlagsAgree, update
  <2>4. CASE variable
    BY <1>2, <2>4, Zenon DEF FlagsAgree, variable
  <2>5. CASE exit
    BY <1>2, <2>5, Zenon DEF FlagsAgree, exit
  <2>6. CASE UNCHANGED CliVars
    BY <1>2, <2>6 DEF FlagsAgree, CliVars
  <2> QED BY <1>2, <2>1, <2>2, <2>3, <2>4, <2>5, <2>6 DEF CliNext
<1> QED BY <1>1, <1>2, PTL DEF CliSpec
=============================================================================
