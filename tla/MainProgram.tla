---------------------------- MODULE MainProgram -----------------------------
(***************************************************************************)
(* The stand-alone program: main installs the quit handler, loads one      *)
(* composition from a file (pools, blocks, connections, initialisation),   *)
(* starts the pools and the timer thread, sleeps until a quit signal was   *)
(* counted, and stops what it started.  An exception on the way ends the   *)
(* process.  Signals arrive at any time.                                   *)
(*                                                                         *)
(* The file is a clock type, the ids of its pools, a sequence of block     *)
(* nodes and a sequence of connections.  Blocks are objects: a second node *)
(* with the same name replaces the first one in the directory.             *)
(***************************************************************************)
EXTENDS Integers, Sequences, FiniteSets, SequencesExt

CONSTANTS
  Files,      \* the composition files
  MaxSignals  \* bound on the signals that arrive

VARIABLES
  pc,           \* where main is
  file,         \* the composition file
  handled,      \* the signals do_quit is installed for
  didQuit,      \* signals counted
  signals,      \* signals that arrived
  clock,        \* the selected clock
  objects,      \* the blocks that were created: node and invocation, by number
  m_map,        \* the directory: number of the block of each name
  tasks,        \* the blocks of each pool
  linked,       \* connections made: pairs of block numbers
  initialized,  \* blocks initialised
  poolsRun, timerRuns,  \* threads of the pools, timer thread
  links_left    \* connections still to be made

vars == <<pc, file, handled, didQuit, signals, clock, objects, m_map, tasks, linked,
          initialized, poolsRun, timerRuns, links_left>>
installVars == <<file, clock, objects, m_map, tasks, linked, initialized, links_left>>

Names == DOMAIN m_map
Exception == pc' = "exception"

\* init_quit_signal: three turns, each for SIGINT
QuitSignals == {"SIGINT"}

init_quit_signal ==
  /\ pc = "main"
  /\ handled' = QuitSignals
  /\ pc' = "load"
  /\ UNCHANGED <<didQuit, signals, poolsRun, timerRuns>> /\ UNCHANGED installVars

\* add_config_from_file up to the blocks: clock and pools
add_config_from_file(f) ==
  /\ pc = "load"
  /\ file' = f
  /\ IF f.clock \in {"wall", "packet"}
     THEN /\ clock' = f.clock
          /\ tasks' = [p \in f.pools |-> <<>>]
          /\ pc' = "blocks"
     ELSE Exception /\ UNCHANGED <<clock, tasks>>
  /\ links_left' = f.connections
  /\ UNCHANGED <<handled, didQuit, signals, objects, m_map, linked, initialized, poolsRun, timerRuns>>

\* The invocation of a block node: sched_type, overruled by invocation; a
\* value that is not known leaves it as it is
InvocationOf(n) ==
  LET old == IF n.sched_type = "active" THEN "indirect" ELSE "direct"
  IN  IF n.invocation \in {"direct", "indirect", "async"} THEN n.invocation ELSE old

NodesDone == Len(objects)

\* Blocks that must be in a pool
NeedsPool(invocation) == invocation \in {"indirect", "async"}

\* Mutant: only indirect blocks are scheduled.
NeedsPoolIndirect(invocation) == invocation = "indirect"

Scheduled(invocation) == NeedsPool(invocation)

\* Composition::install, one block node: the block is created and
\* configured, and added to its pool
InstallBlock ==
  /\ pc = "blocks" /\ NodesDone < Len(file.blocks)
  /\ LET n == file.blocks[NodesDone + 1]
         id == NodesDone + 1
         inv == InvocationOf(n)
     IN  \/ /\ ~n.known \/ n.name = ""
            /\ Exception
            /\ UNCHANGED <<objects, m_map, tasks>>
         \/ /\ n.known /\ n.name # ""
            /\ objects' = Append(objects, [node |-> n, invocation |-> inv])
            /\ m_map' = [x \in Names \cup {n.name} |-> IF x = n.name THEN id ELSE m_map[x]]
            /\ IF ~Scheduled(inv) THEN UNCHANGED <<tasks, pc>>
               ELSE IF n.pool \in DOMAIN tasks
               THEN tasks' = [tasks EXCEPT ![n.pool] = Append(@, id)] /\ UNCHANGED pc
               ELSE Exception /\ UNCHANGED tasks
  /\ UNCHANGED <<file, handled, didQuit, signals, clock, linked, initialized, poolsRun,
                 timerRuns, links_left>>

\* Connections come after all blocks
BlocksDone == NodesDone = Len(file.blocks)

\* Mutant: connections are made as soon as there is a block.
SomeBlock == NodesDone > 0

MayLink == BlocksDone

\* find_output_gate and find_input_gate throw for a name that is not in the map
Found(c) == c.from \in Names /\ c.to \in Names

\* One connection node: both gates are looked up, create_link joins them
InstallLink ==
  /\ pc = "blocks" /\ MayLink /\ links_left # <<>>
  /\ LET c == Head(links_left)
     IN  IF Found(c)
         THEN linked' = linked \cup {<<m_map[c.from], m_map[c.to]>>} /\ UNCHANGED pc
         ELSE Exception /\ UNCHANGED linked
  /\ links_left' = Tail(links_left)
  /\ UNCHANGED <<file, handled, didQuit, signals, clock, objects, m_map, tasks, initialized,
                 poolsRun, timerRuns>>

\* Composition::initialize: all blocks of the directory, in one call
initialize ==
  /\ pc = "blocks" /\ BlocksDone /\ links_left = <<>>
  /\ initialized' = {m_map[x] : x \in Names}
  /\ pc' = "start"
  /\ UNCHANGED <<file, handled, didQuit, signals, clock, objects, m_map, tasks, linked,
                 poolsRun, timerRuns, links_left>>

StartPools ==
  /\ pc = "start"
  /\ poolsRun' = TRUE /\ pc' = "timer"
  /\ UNCHANGED <<handled, didQuit, signals, timerRuns>> /\ UNCHANGED installVars

StartTimer ==
  /\ pc = "timer"
  /\ timerRuns' = TRUE /\ pc' = "wait"
  /\ UNCHANGED <<handled, didQuit, signals, poolsRun>> /\ UNCHANGED installVars

\* The loop of main ends once a quit signal was counted
WaitForQuit ==
  /\ pc = "wait" /\ didQuit > 0
  /\ pc' = "stop"
  /\ UNCHANGED <<handled, didQuit, signals, poolsRun, timerRuns>> /\ UNCHANGED installVars

\* The timer is told to stop, the pools are stopped and joined, the timer
\* is joined
StopInOrder ==
  \/ pc = "stop" /\ poolsRun' = FALSE /\ pc' = "join" /\ UNCHANGED timerRuns
  \/ pc = "join" /\ timerRuns' = FALSE /\ pc' = "returned" /\ UNCHANGED poolsRun

\* Mutant: main returns without waiting for the timer thread.
StopNoJoin ==
  \/ pc = "stop" /\ poolsRun' = FALSE /\ pc' = "join" /\ UNCHANGED timerRuns
  \/ pc = "join" /\ pc' = "returned" /\ UNCHANGED <<poolsRun, timerRuns>>

StopStep == StopInOrder

Stop ==
  /\ StopStep
  /\ UNCHANGED <<handled, didQuit, signals>> /\ UNCHANGED installVars

\* do_quit counts a signal it is installed for; any other ends the process
Signal(s) ==
  /\ pc \notin {"returned", "exception", "killed"}
  /\ signals < MaxSignals
  /\ signals' = signals + 1
  /\ IF s \in handled
     THEN didQuit' = didQuit + 1 /\ UNCHANGED <<pc, poolsRun, timerRuns>>
     ELSE /\ pc' = "killed"
          /\ poolsRun' = FALSE /\ timerRuns' = FALSE
          /\ UNCHANGED didQuit
  /\ UNCHANGED handled /\ UNCHANGED installVars

Init ==
  /\ pc = "main" /\ handled = {} /\ didQuit = 0 /\ signals = 0
  /\ file = [clock |-> "", pools |-> {}, blocks |-> <<>>, connections |-> <<>>]
  /\ clock = "" /\ objects = <<>> /\ m_map = [x \in {} |-> 0]
  /\ tasks = [p \in {} |-> <<>>]
  /\ linked = {} /\ initialized = {} /\ poolsRun = FALSE /\ timerRuns = FALSE
  /\ links_left = <<>>

Next ==
  \/ init_quit_signal
  \/ \E f \in Files : add_config_from_file(f)
  \/ InstallBlock \/ InstallLink \/ initialize
  \/ StartPools \/ StartTimer \/ WaitForQuit \/ Stop
  \/ \E s \in {"SIGINT", "SIGTERM"} : Signal(s)

Spec == Init /\ [][Next]_vars
-----------------------------------------------------------------------------
InPools(id) == Cardinality({<<p, i>> \in (DOMAIN tasks) \X (1..Len(objects)) :
                              i \in DOMAIN tasks[p] /\ tasks[p][i] = id})

(***************************************************************************)
(* When the threads of the pools start, every block of the directory is    *)
(* initialised, and is a task of one pool if its node asks for indirect or *)
(* asynchronous invocation, of none otherwise.                             *)
(***************************************************************************)
InstalledBeforeRun ==
  poolsRun =>
    \A x \in Names :
      /\ m_map[x] \in initialized
      /\ InPools(m_map[x]) =
           (IF objects[m_map[x]].invocation = "direct" THEN 0 ELSE 1)

(***************************************************************************)
(* Connections join blocks of the directory, also when a later node has    *)
(* replaced the block of an earlier one: no link leads to a block nobody   *)
(* can reach any more.                                                     *)
(***************************************************************************)
LinksJoinTheDirectory ==
  \A l \in linked : {l[1], l[2]} \subseteq {m_map[x] : x \in Names}

(***************************************************************************)
(* main returns only after a quit signal, and then no thread it started    *)
(* runs any more: statics are not destroyed under a running block or timer.*)
(***************************************************************************)
ReturnsQuietly ==
  pc = "returned" => didQuit > 0 /\ ~poolsRun /\ ~timerRuns
=============================================================================
