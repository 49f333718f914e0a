---------------------------- MODULE BlockVariable ----------------------------
(***************************************************************************)
(* The variables a block shows to the daemon (BlockVariable.hpp and the    *)
(* variable methods of Block.hpp).  The block's thread updates the C++     *)
(* object while the daemon's thread reads or writes it as text; a value is *)
(* two words that are stored one after the other, so that a reader without *)
(* the right lock can see half an update.                                  *)
(***************************************************************************)
EXTENDS Integers, Sequences, FiniteSets

CONSTANTS Names, MaxUpdates, MaxCalls

VARIABLES m_variables,  \* the registered variables: the class of each
          value, m_dirty,
          held,         \* the holder of each mutex, "none" if free
          block, client,
          torn,         \* the variables somebody saw half updated
          updates, calls
vars == <<m_variables, value, m_dirty, held, block, client, torn, updates, calls>>

Unset == [tw |-> FALSE, tr |-> FALSE, lock |-> "unset"]
RdNoMutex == [tw |-> FALSE, tr |-> TRUE, lock |-> "no"]
WrNoMutex == [tw |-> TRUE, tr |-> FALSE, lock |-> "no"]
WrExtMutex == [tw |-> TRUE, tr |-> FALSE, lock |-> "ext"]
RdExtMutex == [tw |-> FALSE, tr |-> TRUE, lock |-> "ext"]
WrOwnMutex == [tw |-> TRUE, tr |-> FALSE, lock |-> "own"]
RdOwnMutex == [tw |-> FALSE, tr |-> TRUE, lock |-> "own"]
make_rd_var == {RdNoMutex, RdExtMutex, RdOwnMutex}
make_wr_var == {WrNoMutex, WrExtMutex, WrOwnMutex}

Idle == [op |-> "idle", n |-> "none", lo |-> 0]
Zero == <<0, 0>>
Texts == {"number", "garbage", "empty"}
ClientWord == 100                       \* the word a client's number is stored as

(* The mutex that guards variable n: the block's, the variable's own, or none. *)
MutexOf(n) == IF m_variables[n].lock = "ext" THEN {"ext"}
              ELSE IF m_variables[n].lock = "own" THEN {n} ELSE {}
(* The block can only take the mutex it handed out. *)
BlockMutex(n) == MutexOf(n) \cap {"ext"}
(* Mutant of ClientMutex: the daemon reads without the mutex it was given. *)
ClientMutexNone(n) == {}
ClientMutex(n) == MutexOf(n)
Free(M) == \A m \in M : held[m] = "none"
Take(M, who) == held' = [m \in DOMAIN held |-> IF m \in M THEN who ELSE held[m]]
Release(who) == held' = [m \in DOMAIN held |-> IF held[m] = who THEN "none" ELSE held[m]]

Init ==
  /\ m_variables = [n \in Names |-> Unset]
  /\ value = [n \in Names |-> Zero]
  /\ m_dirty = [n \in Names |-> FALSE]
  /\ held = [m \in Names \cup {"ext"} |-> "none"]
  /\ block = Idle /\ client = Idle
  /\ torn = {} /\ updates = 0 /\ calls = 0

(* The constructor of the block; a second variable of the same name is refused. *)
register_variable(n, v) ==
  /\ updates = 0 /\ calls = 0 /\ block = Idle
  /\ m_variables[n] = Unset
  /\ m_variables' = [m_variables EXCEPT ![n] = v]
  /\ UNCHANGED <<value, m_dirty, held, block, client, torn, updates, calls>>

(* The block stores the first word of a new value, under the lock it shares. *)
BlockStore(n) ==
  /\ block = Idle /\ updates < MaxUpdates /\ m_variables[n] # Unset
  /\ Free(BlockMutex(n)) /\ Take(BlockMutex(n), "block")
  /\ updates' = updates + 1
  /\ LET w == IF m_variables[n].tw THEN 0 ELSE updates + 1
     IN  /\ value' = [value EXCEPT ![n][1] = w]
         /\ block' = [op |-> "store", n |-> n, lo |-> w]
  /\ UNCHANGED <<m_variables, m_dirty, client, torn, calls>>

BlockStored ==
  /\ block.op = "store"
  /\ value' = [value EXCEPT ![block.n][2] = block.lo]
  /\ block' = Idle /\ Release("block")
  /\ UNCHANGED <<m_variables, m_dirty, client, torn, updates, calls>>

(* The block looks at a variable the client may write. *)
BlockLook(n) ==
  /\ block = Idle /\ m_variables[n].tw /\ Free(BlockMutex(n))
  /\ torn' = IF value[n][1] # value[n][2] THEN torn \cup {n} ELSE torn
  /\ UNCHANGED <<m_variables, value, m_dirty, held, block, client, updates, calls>>

(* read_variable: an unknown or write-only variable is refused. *)
read_variable(n) ==
  /\ client = Idle /\ calls < MaxCalls /\ calls' = calls + 1
  /\ \/ ~m_variables[n].tr /\ UNCHANGED <<held, client>>
     \/ /\ m_variables[n].tr
        /\ Free(ClientMutex(n)) /\ Take(ClientMutex(n), "client")
        /\ client' = [op |-> "read", n |-> n, lo |-> value[n][1]]
  /\ UNCHANGED <<m_variables, value, m_dirty, block, torn, updates>>

_read ==
  /\ client.op = "read"
  /\ torn' = IF client.lo # value[client.n][2] THEN torn \cup {client.n} ELSE torn
  /\ client' = Idle /\ Release("client")
  /\ UNCHANGED <<m_variables, value, m_dirty, block, updates, calls>>

(* What extraction leaves in the variable: garbage stores zero and fails,  *)
(* an empty text fails before anything is stored.                          *)
Extracted(text, old) == IF text = "number" THEN ClientWord ELSE IF text = "garbage" THEN 0 ELSE old
write_variable(n, text) ==
  /\ client = Idle /\ calls < MaxCalls /\ calls' = calls + 1
  /\ \/ ~m_variables[n].tw /\ UNCHANGED <<value, held, client>>
     \/ /\ m_variables[n].tw
        /\ Free(ClientMutex(n)) /\ Take(ClientMutex(n), "client")
        /\ value' = [value EXCEPT ![n][1] = Extracted(text, @)]
        /\ client' = [op |-> text, n |-> n, lo |-> Extracted(text, value[n][1])]
  /\ UNCHANGED <<m_variables, m_dirty, block, torn, updates>>

(* Mutant of Unlock: a write that throws keeps the mutex. *)
UnlockUnlessFailed == IF client.op = "number" THEN Release("client") ELSE UNCHANGED held
Unlock == Release("client")
(* _write ends: the guard goes out of scope, also when the text is refused. *)
_write ==
  /\ client.op \in Texts
  /\ value' = IF client.op = "empty" THEN value ELSE [value EXCEPT ![client.n][2] = client.lo]
  /\ Unlock
  /\ client' = IF client.op = "number" THEN [client EXCEPT !.op = "written"] ELSE Idle
  /\ UNCHANGED <<m_variables, m_dirty, block, torn, updates, calls>>

(* Mutant of Marked: the flag is toggled. *)
MarkedToggled(n) == [m_dirty EXCEPT ![n] = ~@]
Marked(n) == [m_dirty EXCEPT ![n] = TRUE]
(* write: the flag is set after the mutex was given back. *)
SetDirty ==
  /\ client.op = "written"
  /\ m_dirty' = Marked(client.n)
  /\ client' = Idle
  /\ UNCHANGED <<m_variables, value, held, block, torn, updates, calls>>

Next ==
  \/ \E n \in Names : \/ \E v \in make_rd_var \cup make_wr_var : register_variable(n, v)
                      \/ BlockStore(n) \/ BlockLook(n) \/ read_variable(n)
                      \/ \E text \in Texts : write_variable(n, text)
  \/ BlockStored \/ _read \/ _write \/ SetDirty

(* Nobody sees half an update of a variable with the shared mutex: the     *)
(* block and the daemon lock the same one (BlockVariable.hpp:362, 427).    *)
(* The variable's own mutex does not give this: the block cannot reach it. *)
SharedMutexGuards == \A n \in torn : m_variables[n].lock # "ext"
(* No mutex stays locked behind a finished call, refused texts included.   *)
LocksReleased == (block = Idle /\ client = Idle) => Free(DOMAIN held)
(* A number of the client in a variable is marked dirty once the call has  *)
(* returned; a refused text can change the variable but never mark it.     *)
ClientValueIsDirty ==
  \A n \in Names : (ClientWord \in {value[n][1], value[n][2]} /\ client.n # n) => m_dirty[n]
=============================================================================
