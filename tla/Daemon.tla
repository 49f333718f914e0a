------------------------------- MODULE Daemon -------------------------------
(***************************************************************************)
(* The Python side of a node, three machines: the daemon with its table of *)
(* processes, its registration with a controller, and the shell.           *)
(***************************************************************************)
EXTENDS Naturals, Sequences, FiniteSets

-----------------------------------------------------------------------------
(***************************************************************************)
(* The Blockmon daemon (daemon/bmdaemon.py): its table of processes and    *)
(* the requests that start, update and stop compositions.  A start gives   *)
(* up the reactor thread at every yield, so starts interleave with each    *)
(* other and with the other requests; update and stop block the reactor.   *)
(* A spawned process (daemon/core/bmprocess.py) reads its composition from *)
(* the file it was given, installs it and only then binds its port.        *)
(***************************************************************************)
CONSTANTS Comps,      \* composition ids
          Requests,   \* start requests that may be in progress together
          Ports,      \* port numbers that find_open_port draws from
          MaxProcs    \* bound on the processes ever spawned

VARIABLES
  bm_processes,   \* table: id -> [proc, port] of the composition
  spawn_proc_id,
  compfile,       \* content of /tmp/bmprocess<n>.xml
  procs,          \* the spawned processes, in order
  req,            \* progress of each start request
  calm            \* starts waited for the one before, no process died alone

DaemonVars == <<bm_processes, spawn_proc_id, compfile, procs, req, calm>>

NoComp == "none"
Idle   == [pc |-> "idle", comp |-> NoComp, id |-> 0, port |-> 0, proc |-> 0]
Alive(p) == procs[p].st # "dead"
ServerAt(port) == {p \in DOMAIN procs : procs[p].st = "serving" /\ procs[p].port = port}

Settled == \A p \in DOMAIN procs : procs[p].st \notin {"spawned", "installing"}

DaemonInit ==
  /\ bm_processes = [c \in {} |-> 0]
  /\ spawn_proc_id = 1
  /\ compfile = [n \in 1..MaxProcs + 1 |-> NoComp]
  /\ procs = <<>>
  /\ req = [r \in Requests |-> Idle]
  /\ calm = TRUE
-----------------------------------------------------------------------------
(* jsonrpc_start_composition up to its first yield: the file name is       *)
(* chosen here, the counter advances only after the process was spawned.   *)
start_composition(r, c) ==
  /\ req[r].pc = "idle" /\ Len(procs) < MaxProcs
  /\ c \notin DOMAIN bm_processes
  /\ calm' = (calm /\ (\A x \in Requests : req[x].pc = "idle") /\ Settled)
  /\ \/ /\ req' = [req EXCEPT ![r] = [Idle EXCEPT !.pc = "saving", !.comp = c, !.id = spawn_proc_id]]
        /\ UNCHANGED compfile
     \/ /\ req' = [req EXCEPT ![r] = [Idle EXCEPT !.pc = "port", !.comp = c, !.id = spawn_proc_id]]
        /\ compfile' = [compfile EXCEPT ![spawn_proc_id] = c]
  /\ UNCHANGED <<bm_processes, spawn_proc_id, procs>>

(* The data files are saved; the composition is written. *)
datafiles_saved(r) ==
  /\ req[r].pc = "saving"
  /\ compfile' = [compfile EXCEPT ![req[r].id] = req[r].comp]
  /\ req' = [req EXCEPT ![r].pc = "port"]
  /\ UNCHANGED <<bm_processes, spawn_proc_id, procs, calm>>

find_any_port(r, port) ==        \* mutant: nobody tries to bind the port
  /\ req[r].pc = "port"
  /\ req' = [req EXCEPT ![r].pc = "spawn", ![r].port = port]
  /\ UNCHANGED <<bm_processes, spawn_proc_id, compfile, procs, calm>>

(* __find_open_port: a port nobody listens on now. *)
find_open_port(r, port) ==
  /\ req[r].pc = "port" /\ ServerAt(port) = {}
  /\ req' = [req EXCEPT ![r].pc = "spawn", ![r].port = port]
  /\ UNCHANGED <<bm_processes, spawn_proc_id, compfile, procs, calm>>

spawn(r) ==
  /\ req[r].pc = "spawn"
  /\ \/ /\ Len(procs) < MaxProcs
        /\ procs' = Append(procs, [st |-> "spawned", comp |-> NoComp,
                                   file |-> req[r].id, port |-> req[r].port])
        /\ req' = [req EXCEPT ![r].pc = "register", ![r].proc = Len(procs) + 1]
     \/ /\ req' = [req EXCEPT ![r] = Idle]                           \* OSError
        /\ UNCHANGED procs
  /\ UNCHANGED <<bm_processes, spawn_proc_id, compfile, calm>>

register(r) ==
  /\ req[r].pc = "register"
  /\ bm_processes' = [c \in DOMAIN bm_processes \cup {req[r].comp} |->
       IF c = req[r].comp THEN [proc |-> req[r].proc, port |-> req[r].port] ELSE bm_processes[c]]
  /\ spawn_proc_id' = spawn_proc_id + 1
  /\ req' = [req EXCEPT ![r] = Idle]
  /\ UNCHANGED <<compfile, procs, calm>>
-----------------------------------------------------------------------------
(* BMProcessManager.__init__ and serve: installation or bind may fail. *)
read_composition(p) ==
  /\ procs[p].st = "spawned"
  /\ procs' = [procs EXCEPT ![p].st = "installing", ![p].comp = compfile[procs[p].file]]
  /\ UNCHANGED <<bm_processes, spawn_proc_id, compfile, req, calm>>

serve(p) ==
  /\ procs[p].st = "installing"
  /\ procs' = [procs EXCEPT ![p].st = IF ServerAt(procs[p].port) = {} THEN "serving" ELSE "dead"]
  /\ UNCHANGED <<bm_processes, spawn_proc_id, compfile, req, calm>>

crash(p) ==
  /\ procs[p].st \in {"installing", "serving"}
  /\ procs' = [procs EXCEPT ![p].st = "dead"]
  /\ calm' = FALSE
  /\ UNCHANGED <<bm_processes, spawn_proc_id, compfile, req>>

(* The process on the port of the entry runs the composition it is sent. *)
update_composition(c) ==
  /\ c \in DOMAIN bm_processes
  /\ \E p \in ServerAt(bm_processes[c].port) : procs' = [procs EXCEPT ![p].comp = c]
  /\ UNCHANGED <<bm_processes, spawn_proc_id, compfile, req, calm>>

stop_unkilled(c) ==        \* mutant: the process is left running
  /\ c \in DOMAIN bm_processes
  /\ ServerAt(bm_processes[c].port) # {}
  /\ bm_processes' = [x \in DOMAIN bm_processes \ {c} |-> bm_processes[x]]
  /\ UNCHANGED <<spawn_proc_id, compfile, procs, req, calm>>

(* The process on the port of the entry removes its composition, the       *)
(* process of the entry is killed.  When nobody listens on the port, or    *)
(* the removal faults, the request fails and the entry stays.              *)
stop_composition(c) ==
  /\ c \in DOMAIN bm_processes
  /\ ServerAt(bm_processes[c].port) # {}
  /\ procs' = [p \in DOMAIN procs |->
       IF p = bm_processes[c].proc THEN [procs[p] EXCEPT !.st = "dead"]
       ELSE IF p \in ServerAt(bm_processes[c].port) THEN [procs[p] EXCEPT !.comp = NoComp]
       ELSE procs[p]]
  /\ bm_processes' = [x \in DOMAIN bm_processes \ {c} |-> bm_processes[x]]
  /\ UNCHANGED <<spawn_proc_id, compfile, req, calm>>

DaemonNext ==
  \/ \E r \in Requests :
       \/ \E c \in Comps : start_composition(r, c)
       \/ datafiles_saved(r) \/ spawn(r) \/ register(r)
       \/ \E port \in Ports : find_open_port(r, port)
  \/ \E p \in DOMAIN procs : read_composition(p) \/ serve(p) \/ crash(p)
  \/ \E c \in Comps : update_composition(c) \/ stop_composition(c)

DaemonSpec == DaemonInit /\ [][DaemonNext]_DaemonVars
-----------------------------------------------------------------------------
(* What the table says is running is what runs: while no start overlaps    *)
(* with another one or with a process that has not bound its port yet, and *)
(* no process died without being stopped, the process of an entry holds    *)
(* the composition of that id, and nobody else answers on its port.        *)
RunsWhatItSays == calm => \A c \in DOMAIN bm_processes :
  /\ procs[bm_processes[c].proc].comp \in {NoComp, c}
  /\ ServerAt(bm_processes[c].port) \subseteq {bm_processes[c].proc}

(* Under the same condition every live process can be reached: it is in    *)
(* the table, or the request that spawned it is about to put it there.     *)
NoOrphanProcess == calm => \A p \in DOMAIN procs : Alive(p) =>
  \/ \E c \in DOMAIN bm_processes : bm_processes[c].proc = p
  \/ \E r \in Requests : req[r].pc = "register" /\ req[r].proc = p

-----------------------------------------------------------------------------
(***************************************************************************)
(* How the daemon registers with a Blockmon controller and keeps the       *)
(* registration alive: a looping call every three seconds, which does not  *)
(* wait for the calls before it, so answers and errors come back late, in  *)
(* any order, and even after the loop was stopped.                         *)
(***************************************************************************)
CONSTANTS MAX_ATTEMPTS,
          MaxCalls       \* bound on the calls that are under way together

VARIABLES bc_connected, attempts, looping, outstanding,
          prompt         \* no call was made before the one before was answered

RegistrationVars == <<bc_connected, attempts, looping, outstanding, prompt>>

(* Without the address of a controller the loop stops in its first round. *)
RegistrationInit ==
  /\ bc_connected = FALSE /\ attempts = 0 /\ outstanding = 0 /\ prompt = TRUE
  /\ looping \in BOOLEAN

(* __registration: keepalive when connected, register otherwise. *)
registration ==
  /\ looping /\ outstanding < MaxCalls
  /\ outstanding' = outstanding + 1
  /\ prompt' = (prompt /\ outstanding = 0)
  /\ UNCHANGED <<bc_connected, attempts, looping>>

registration_results(success) ==
  /\ outstanding > 0 /\ outstanding' = outstanding - 1
  /\ bc_connected' = success
  /\ attempts' = 0
  /\ UNCHANGED <<looping, prompt>>

registration_error_silent ==      \* mutant: the connection is not marked as lost
  /\ outstanding > 0 /\ outstanding' = outstanding - 1
  /\ attempts' = (attempts + 1) % (MAX_ATTEMPTS + 1)
  /\ looping' = (looping /\ attempts + 1 # MAX_ATTEMPTS)
  /\ UNCHANGED <<bc_connected, prompt>>

registration_error ==
  /\ outstanding > 0 /\ outstanding' = outstanding - 1
  /\ bc_connected' = FALSE
  /\ attempts' = attempts + 1
  /\ looping' = (looping /\ attempts + 1 # MAX_ATTEMPTS)
  /\ UNCHANGED prompt

RegistrationNext == \/ registration \/ registration_error
                    \/ \E success \in BOOLEAN : registration_results(success)

RegistrationSpec == RegistrationInit /\ [][RegistrationNext]_RegistrationVars
-----------------------------------------------------------------------------
(* A daemon that believes it is registered goes on sending keepalives:     *)
(* when every call is answered before the next one is due, giving up after *)
(* MAX_ATTEMPTS errors never leaves a connection behind that nobody keeps  *)
(* alive.  (A late answer can, after the loop has stopped.)                *)
ConnectedIsKeptAlive == prompt /\ bc_connected => looping

-----------------------------------------------------------------------------
(***************************************************************************)
(* The Blockmon shell (daemon/cli.py) drives a BMProcessManager of its own *)
(* and keeps a flag is_running beside the manager's bm_running.  'start'   *)
(* looks at the manager's flag, every other command at the shell's own;    *)
(* an exception of the manager ends the shell.                             *)
(***************************************************************************)
VARIABLES is_running, bm_running,
          installed,     \* the composition exists in the C++ library
          at             \* "prompt", or how the shell ended

CliVars == <<is_running, bm_running, installed, at>>

CliInit == is_running = FALSE /\ bm_running = FALSE /\ installed = FALSE /\ at = "prompt"

(* start_composition installs, then starts; it may throw in between. *)
start ==
  /\ at = "prompt" /\ ~bm_running
  /\ installed' = TRUE
  /\ \/ bm_running' = TRUE /\ is_running' = TRUE /\ UNCHANGED at
     \/ at' = "traceback" /\ UNCHANGED <<is_running, bm_running>>

stop_forgets ==      \* mutant: only the manager notices that it stopped
  /\ at = "prompt" /\ is_running
  /\ bm_running' = FALSE
  /\ \/ installed' = FALSE /\ UNCHANGED <<is_running, at>>
     \/ at' = "traceback" /\ UNCHANGED <<is_running, installed>>

(* stop_composition stops the schedulers, then removes the blocks. *)
stop ==
  /\ at = "prompt" /\ is_running
  /\ bm_running' = FALSE
  /\ \/ installed' = FALSE /\ is_running' = FALSE /\ UNCHANGED at
     \/ at' = "traceback" /\ UNCHANGED <<is_running, installed>>

(* update_composition stops the schedulers, reconfigures, starts them. *)
update ==
  /\ at = "prompt" /\ is_running
  /\ UNCHANGED <<is_running, installed>>
  /\ \/ bm_running' = TRUE /\ UNCHANGED at
     \/ bm_running' = FALSE /\ at' = "traceback"

(* read, write and selectclock answer, or end the shell. *)
variable ==
  /\ at = "prompt" /\ is_running
  /\ at' \in {"prompt", "traceback"}
  /\ UNCHANGED <<is_running, bm_running, installed>>

exit ==
  /\ at = "prompt" /\ at' = "exit"
  /\ IF is_running THEN bm_running' = FALSE /\ installed' = FALSE
                   ELSE UNCHANGED <<bm_running, installed>>
  /\ UNCHANGED is_running

CliNext == start \/ stop \/ update \/ variable \/ exit

CliSpec == CliInit /\ [][CliNext]_CliVars
-----------------------------------------------------------------------------
(* The two flags never part at the prompt, and there is a composition      *)
(* exactly when they say so: 'start' never installs over an old one, and   *)
(* the shell never exits with a composition still running.                 *)
FlagsAgree ==
  /\ at = "prompt" => is_running = bm_running /\ is_running = installed
  /\ at = "exit" => ~installed
=============================================================================
