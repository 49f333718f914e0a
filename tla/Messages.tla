------------------------------ MODULE Messages ------------------------------
(***************************************************************************)
(* What every message carries, three machines: the registry and the        *)
(* publication of tags, the ownership of tag buffers, and the identifiers  *)
(* of classes.                                                             *)
(***************************************************************************)
EXTENDS Naturals, Sequences, FiniteSets

-----------------------------------------------------------------------------
(***************************************************************************)
(* Tags of a message: the registry that lays tags out in the tag buffer    *)
(* (core/message/TagRegistry.hpp, Msg.hpp), blocks that write one tag each *)
(* (AppendTag), and the block that waits for all of them (SyncTag).  The   *)
(* same message goes through parallel chains; each chain runs in a thread  *)
(* of its own, writes its tag and then enters SyncTag.                     *)
(***************************************************************************)
CONSTANTS TagNames,   \* tags that blocks register
          Chains,     \* the tags that SyncTag waits for, a sequence; one chain writes each
          Types,      \* type -> [value, object, writes]: sizeof(Tag), sizeof(tag_object<Tag>)
                      \* and the type of the tag that AppendTag emplaces for it
          BufLens,    \* lengths of a tag buffer: TagBuffer's, or 0 for buffer_size()
          Polls       \* how often SyncTag looks (100 in the code)

VARIABLES tag_info,      \* registered tags, in the order of their handles
          next_offset,
          buf_len,       \* length of the tag buffer of the message
          asserts,       \* whether the build has blockmon_assert (the default has not)
          running,       \* FALSE while the composition is configured
          valid,         \* tags whose flag is set in the buffer
          value,         \* tags whose value is completely written
          chain,         \* progress of each chain
          forwarded      \* times SyncTag sent the message on

TagsVars == <<tag_info, next_offset, buf_len, asserts, running, valid, value, chain, forwarded>>

Writers == {Chains[i] : i \in DOMAIN Chains}
Fresh == [pc |-> "emplace", i |-> 1, wait |-> 0, ready |-> {}]

TagsInit ==
  /\ tag_info = <<>> /\ next_offset = 0 /\ buf_len = 0
  /\ running = FALSE /\ asserts \in BOOLEAN
  /\ valid = {} /\ value = {}
  /\ chain = [t \in Writers |-> Fresh]
  /\ forwarded = 0

Handle(t) == {h \in DOMAIN tag_info : tag_info[h].id = t}

(* Aligned offset for an object of that size. *)
Aligned(size) ==
  LET rem == next_offset % size
  IN  IF rem = 0 THEN next_offset ELSE next_offset + size - rem

AlignedShort(size) == next_offset     \* mutant: no alignment

(* Mutant of register_tag: the offset advances by the size of the value. *)
register_value(t, ty) ==
  /\ ~running /\ Handle(t) = {}
  /\ LET offset == Aligned(Types[ty].object)
     IN  /\ tag_info' = Append(tag_info, [id |-> t, type |-> ty, size |-> Types[ty].value,
                                           offset |-> offset])
         /\ next_offset' = offset + Types[ty].value
  /\ UNCHANGED <<buf_len, asserts, running, valid, value, chain, forwarded>>

(* A tag that is known already keeps its place, or the types differ and    *)
(* the registration throws: nothing changes.                               *)
register_tag(t, ty) ==
  /\ ~running /\ Handle(t) = {}
  /\ LET offset == Aligned(Types[ty].object)
     IN  /\ tag_info' = Append(tag_info, [id |-> t, type |-> ty, size |-> Types[ty].value,
                                           offset |-> offset])
         /\ next_offset' = offset + Types[ty].object
  /\ UNCHANGED <<buf_len, asserts, running, valid, value, chain, forwarded>>

(* AppendTag._configure accepts the types it knows. *)
AppendTagConfigure(t, ty) == ty \in DOMAIN Types /\ register_tag(t, ty)

(* SyncTag._configure throws unless every tag it waits for is registered. *)
SyncTagConfigured == \A t \in Writers : Handle(t) # {}

(* The composition runs: a message gets its buffer. *)
start(len) ==
  /\ ~running /\ running' = TRUE
  /\ SyncTagConfigured
  /\ buf_len' = IF len = 0 THEN next_offset ELSE len
  /\ UNCHANGED <<tag_info, next_offset, asserts, valid, value, chain, forwarded>>
-----------------------------------------------------------------------------
Goto(t, pc) == chain' = [chain EXCEPT ![t].pc = pc]

emplace_unchecked(t) ==    \* mutant: only the start of the tag is compared
  /\ running /\ chain[t].pc = "emplace"
  /\ \E h \in Handle(t) :
       IF asserts /\ tag_info[h].offset > buf_len
       THEN Goto(t, "thrown") /\ UNCHANGED <<valid, value>>
       ELSE /\ valid' = valid \ {t} /\ value' = value \ {t}
            /\ Goto(t, "construct")
  /\ UNCHANGED <<tag_info, next_offset, buf_len, asserts, running, forwarded>>

(* emplace_tag: bounds and type are asserted, in builds that assert; the   *)
(* placement new clears the flag, constructs the value and sets the flag   *)
(* with release order.                                                     *)
emplace_begin(t) ==
  /\ running /\ chain[t].pc = "emplace"
  /\ \E h \in Handle(t) :
       IF asserts /\ (\/ tag_info[h].offset + tag_info[h].size > buf_len
                     \/ Types[tag_info[h].type].writes # tag_info[h].type)
       THEN Goto(t, "thrown") /\ UNCHANGED <<valid, value>>
       ELSE /\ valid' = valid \ {t} /\ value' = value \ {t}
            /\ Goto(t, "construct")
  /\ UNCHANGED <<tag_info, next_offset, buf_len, asserts, running, forwarded>>

construct_late(t) ==       \* mutant: the flag is stored before the value
  /\ chain[t].pc = "construct" /\ Goto(t, "publish")
  /\ valid' = valid \cup {t}
  /\ UNCHANGED <<tag_info, next_offset, buf_len, asserts, running, value, forwarded>>

construct(t) ==
  /\ chain[t].pc = "construct" /\ Goto(t, "publish")
  /\ value' = value \cup {t}
  /\ UNCHANGED <<tag_info, next_offset, buf_len, asserts, running, valid, forwarded>>

publish_nothing(t) ==      \* mutant: the flag is not set
  /\ chain[t].pc = "publish" /\ Goto(t, "sync")
  /\ UNCHANGED <<valid, value, tag_info, next_offset, buf_len, asserts, running, forwarded>>

publish(t) ==
  /\ chain[t].pc = "publish" /\ Goto(t, "sync")
  /\ valid' = valid \cup {t} /\ value' = value \cup {t}
  /\ UNCHANGED <<tag_info, next_offset, buf_len, asserts, running, forwarded>>

(* One turn of SyncTag's inner loop: is_available_tag on the next tag. *)
look(t) ==
  /\ chain[t].pc = "sync" /\ chain[t].i <= Len(Chains)
  /\ LET id == Chains[chain[t].i]
     IN  chain' = [chain EXCEPT ![t].i = @ + 1,
                                ![t].ready = IF id \in valid THEN @ \cup {id} ELSE @]
  /\ UNCHANGED <<tag_info, next_offset, buf_len, asserts, running, valid, value, forwarded>>

(* End of a round: forward when every tag was seen, else look again, and   *)
(* discard the message after the last round.                               *)
round(t) ==
  /\ chain[t].pc = "sync" /\ chain[t].i > Len(Chains)
  /\ \/ /\ chain[t].ready = Writers
        /\ forwarded' = forwarded + 1
        /\ Goto(t, "done")
     \/ /\ chain[t].ready # Writers /\ chain[t].wait + 1 < Polls
        /\ chain' = [chain EXCEPT ![t].i = 1, ![t].wait = @ + 1]
        /\ UNCHANGED forwarded
     \/ /\ chain[t].ready # Writers /\ chain[t].wait + 1 = Polls
        /\ Goto(t, "done") /\ UNCHANGED forwarded
  /\ UNCHANGED <<tag_info, next_offset, buf_len, asserts, running, valid, value>>

TagsNext ==
  \/ \E t \in TagNames, ty \in DOMAIN Types : AppendTagConfigure(t, ty)
  \/ \E len \in BufLens : start(len)
  \/ \E t \in Writers : \/ emplace_begin(t) \/ construct(t) \/ publish(t)
                         \/ look(t) \/ round(t)
-----------------------------------------------------------------------------
Extent(h) == tag_info[h].offset..(tag_info[h].offset + Types[tag_info[h].type].object - 1)

(* Whatever tags were registered in whatever order, no two tag objects     *)
(* share a byte, each one is aligned, and the buffer a message allocates   *)
(* for them (buffer_size) holds them all, flag and padding included.       *)
TagsDisjoint ==
  /\ \A g, h \in DOMAIN tag_info : g # h => Extent(g) \cap Extent(h) = {}
  /\ \A h \in DOMAIN tag_info :
       /\ tag_info[h].offset % Types[tag_info[h].type].object = 0
       /\ Extent(h) \subseteq 0..(next_offset - 1)

(* A write stays inside the buffer: in a build that asserts, although the  *)
(* assertion of emplace_tag counts sizeof(Tag) and not the whole object,   *)
(* and in every build when the buffer has the size the registry asked for. *)
(* (The default build writes past a TagBuffer of 16 bytes.)                *)
WritesInBounds == \A t \in Writers :
  (asserts \/ buf_len = next_offset) /\ chain[t].pc \notin {"emplace", "thrown"} =>
    \A h \in Handle(t) : Extent(h) \subseteq 0..(buf_len - 1)

(* SyncTag loses no message: once every chain is through, the message was  *)
(* forwarded at least once, by the chain that wrote last if by no other,   *)
(* however the chains interleave ("it will reach the synchronization block *)
(* several times and eventually all of its tags will be written").         *)
NotLost == (\A t \in Writers : chain[t].pc = "done") => forwarded >= 1

(* A tag that SyncTag has seen is completely written. *)
SeenIsWritten == \A t \in Writers : chain[t].ready \subseteq value

-----------------------------------------------------------------------------
(***************************************************************************)
(* Who owns the tag buffer of a message (core/message/Msg.hpp, with        *)
(* Buffer.hpp and the handles of TagRegistry.hpp).  A message has no       *)
(* buffer, one that lies in its own memory slice (NewPacket), or one on    *)
(* the heap that it must free; a copy always gets one of its own.  A tag   *)
(* is one unit of a buffer; the layout of tags is module Tags.             *)
(***************************************************************************)
CONSTANTS Msgs, MsgTagNames, Values, MaxBufs,
          SliceLen        \* tags that fit the buffer of a slice

VARIABLES msg_tag_info,   \* TagRegistry: names of the registered tags
          handle,         \* the handle a block holds for each name
          msg,            \* message -> [alive, m_tagbuf, m_tagowner]
          heap,           \* buffer -> [live, home, tag], in the order of allocation
          shows           \* message -> the tags its blocks wrote into it

MsgTagsVars == <<msg_tag_info, handle, msg, heap, shows>>

TAG_INVALID == 0

(* A range of memory: address and length; address 0 converts to false. *)
mutable_buffer(addr, len) == [addr |-> addr, len |-> len]

(* The read-only view of it that get_tag and is_available_tag take. *)
const_buffer(b) == [k \in 1..b.len |-> heap[b.addr].tag[k]]

NoTags == [k \in 1..SliceLen |-> "none"]
NoMsg == [alive |-> FALSE, m_tagbuf |-> mutable_buffer(0, 0), m_tagowner |-> FALSE]

MsgTagsInit ==
  /\ msg_tag_info = <<>> /\ heap = <<>>
  /\ handle = [t \in MsgTagNames |-> TAG_INVALID]
  /\ msg = [m \in Msgs |-> NoMsg]
  /\ shows = [m \in Msgs |-> NoTags]
-----------------------------------------------------------------------------
find_tag_(t) ==
  IF \E h \in DOMAIN msg_tag_info : msg_tag_info[h] = t
  THEN CHOOSE h \in DOMAIN msg_tag_info : msg_tag_info[h] = t
  ELSE TAG_INVALID

register_again(t) ==       \* mutant: a known name is not looked for
  /\ Len(msg_tag_info) < SliceLen
  /\ msg_tag_info' = <<t>> \o msg_tag_info
  /\ handle' = [handle EXCEPT ![t] = 1]
  /\ UNCHANGED <<msg, heap, shows>>

msg_register_tag(t) ==
  /\ msg_tag_info' = IF find_tag_(t) = TAG_INVALID THEN Append(msg_tag_info, t) ELSE msg_tag_info
  /\ handle' = [handle EXCEPT ![t] = IF find_tag_(t) = TAG_INVALID THEN Len(msg_tag_info) + 1
                                     ELSE find_tag_(t)]
  /\ UNCHANGED <<msg, heap, shows>>

(* Throws for a name nobody registered: the block is not configured. *)
get_handle_by_name(t) ==
  /\ find_tag_(t) # TAG_INVALID
  /\ handle' = [handle EXCEPT ![t] = find_tag_(t)]
  /\ UNCHANGED <<msg_tag_info, msg, heap, shows>>
-----------------------------------------------------------------------------
(* The constructor: no buffer unless one is given. *)
Make(m) ==
  /\ ~msg[m].alive
  /\ msg' = [msg EXCEPT ![m] = [NoMsg EXCEPT !.alive = TRUE]]
  /\ shows' = [shows EXCEPT ![m] = NoTags]
  /\ UNCHANGED <<msg_tag_info, handle, heap>>

DeleteNot(hp, m) == hp     \* mutant: delete [] is forgotten

(* delete [] of the buffer a message owns. *)
Delete(hp, m) == IF msg[m].m_tagowner THEN [hp EXCEPT ![msg[m].m_tagbuf.addr].live = FALSE]
                 ELSE hp

(* A buffer for the message: in its slice, reset to zero bytes and not     *)
(* owned (alloc_packet), or on the heap and owned; the old one is freed.   *)
set_tagbuf(m, ownership) ==
  /\ msg[m].alive /\ Len(heap) < MaxBufs
  /\ ~ownership => msg[m].m_tagbuf.addr = 0
  /\ heap' = Append(Delete(heap, m), [live |-> TRUE, home |-> IF ownership THEN "heap" ELSE m,
                                       tag |-> NoTags])
  /\ msg' = [msg EXCEPT ![m].m_tagbuf = mutable_buffer(Len(heap) + 1, SliceLen),
                        ![m].m_tagowner = ownership]
  /\ shows' = [shows EXCEPT ![m] = NoTags]
  /\ UNCHANGED <<msg_tag_info, handle>>

copy_uninit(m, other) ==   \* mutant of copy: no memcpy
  /\ ~msg[m].alive /\ msg[other].alive /\ Len(heap) < MaxBufs
  /\ heap' = Append(heap, [live |-> TRUE, home |-> "heap", tag |-> NoTags])
  /\ msg' = [msg EXCEPT ![m] = [alive |-> TRUE, m_tagowner |-> TRUE,
                  m_tagbuf |-> mutable_buffer(Len(heap) + 1, msg[other].m_tagbuf.len)]]
  /\ shows' = [shows EXCEPT ![m] = shows[other]]
  /\ UNCHANGED <<msg_tag_info, handle>>

(* The copy constructor, which every clone() runs: new char[len] and a     *)
(* memcpy.  With no buffer to copy, the copy owns one of no bytes, whose   *)
(* address is not null.                                                    *)
copy(m, other) ==
  /\ ~msg[m].alive /\ msg[other].alive /\ Len(heap) < MaxBufs
  /\ LET b == msg[other].m_tagbuf
     IN  /\ heap' = Append(heap, [live |-> TRUE, home |-> "heap",
                                  tag |-> IF b.len = 0 THEN NoTags ELSE const_buffer(b)])
         /\ msg' = [msg EXCEPT ![m] = [alive |-> TRUE, m_tagowner |-> TRUE,
                                       m_tagbuf |-> mutable_buffer(Len(heap) + 1, b.len)]]
  /\ shows' = [shows EXCEPT ![m] = shows[other]]
  /\ UNCHANGED <<msg_tag_info, handle>>

(* swap exchanges buffer and ownership.  A buffer that lies in a slice     *)
(* would leave its slice: such messages are not swapped.                   *)
swap(m, rhs) ==
  /\ m # rhs /\ msg[m].alive /\ msg[rhs].alive
  /\ \A x \in {m, rhs} : msg[x].m_tagbuf.addr # 0 => msg[x].m_tagowner
  /\ msg' = [msg EXCEPT ![m] = msg[rhs], ![rhs] = msg[m]]
  /\ shows' = [shows EXCEPT ![m] = shows[rhs], ![rhs] = shows[m]]
  /\ UNCHANGED <<msg_tag_info, handle, heap>>

(* The last reference goes: the destructor frees what the message owns,    *)
(* and the buffer in its slice goes with the slice.                        *)
Destroy(m) ==
  /\ msg[m].alive
  /\ LET hp == Delete(heap, m)
     IN  heap' = [b \in DOMAIN hp |-> IF hp[b].home = m THEN [hp[b] EXCEPT !.live = FALSE]
                                      ELSE hp[b]]
  /\ msg' = [msg EXCEPT ![m] = NoMsg]
  /\ UNCHANGED <<msg_tag_info, handle, shows>>

(* emplace_tag throws without a buffer; past the end of it, see Tags. *)
emplace_tag(m, t, v) ==
  /\ msg[m].alive /\ handle[t] # TAG_INVALID
  /\ LET b == msg[m].m_tagbuf
     IN  /\ b.addr # 0 /\ handle[t] <= b.len
         /\ heap' = [heap EXCEPT ![b.addr].tag[handle[t]] = v]
         /\ shows' = [shows EXCEPT ![m] = [@ EXCEPT ![find_tag_(t)] = v]]
  /\ UNCHANGED <<msg_tag_info, handle, msg>>

(* What get_tag returns, "none" for NULL; is_available_tag is its test. *)
get_tag(m, t) == const_buffer(msg[m].m_tagbuf)[handle[t]]
is_available_tag(m, t) == get_tag(m, t) # "none"

MsgTagsNext ==
  \/ \E t \in MsgTagNames : msg_register_tag(t) \/ get_handle_by_name(t)
  \/ \E m \in Msgs :
       \/ Make(m) \/ Destroy(m)
       \/ \E o \in BOOLEAN : set_tagbuf(m, o)
       \/ \E other \in Msgs : copy(m, other) \/ swap(m, other)
       \/ \E t \in MsgTagNames, v \in Values : emplace_tag(m, t, v)
-----------------------------------------------------------------------------
Owners(b) == {m \in Msgs : msg[m].m_tagowner /\ msg[m].m_tagbuf.addr = b}

(* Every live heap buffer has exactly one owner and a freed one has none:  *)
(* through copies, swaps and replaced buffers nothing is freed twice,      *)
(* leaked, or used after it was freed.                                     *)
OwnedOnce ==
  /\ \A b \in DOMAIN heap :
       Cardinality(Owners(b)) = (IF heap[b].live /\ heap[b].home = "heap" THEN 1 ELSE 0)
  /\ \A m \in Msgs : msg[m].alive /\ msg[m].m_tagbuf.addr # 0 => heap[msg[m].m_tagbuf.addr].live

(* A message shows exactly the tags written to it, a copy those its        *)
(* original had when it was copied: what is written later into the one is  *)
(* not seen through the other.                                             *)
TagsArePrivate == \A m \in Msgs, t \in MsgTagNames :
  msg[m].alive /\ handle[t] # TAG_INVALID /\ handle[t] <= msg[m].m_tagbuf.len =>
    /\ get_tag(m, t) = shows[m][find_tag_(t)]
    /\ is_available_tag(m, t) <=> shows[m][find_tag_(t)] # "none"

(* A handle handed out at configuration names its tag for good, however    *)
(* many tags are registered after it and by however many blocks.           *)
HandlesStay == \A t \in MsgTagNames : handle[t] # TAG_INVALID => msg_tag_info[handle[t]] = t

-----------------------------------------------------------------------------
(***************************************************************************)
(* The identifiers of message classes (core/message/ClassId.hpp): MSG_ID   *)
(* of a class is a hash of its name, computed at its first use in a static *)
(* variable and entered in a table that refuses the second of two names    *)
(* with one hash.  Threads make messages, which carry the identifier of    *)
(* their class, and compare it with that of the class they expect.         *)
(***************************************************************************)
CONSTANTS Threads, Classes,
          Hashes,      \* hash functions: class -> identifier
          MaxUses      \* calls of MSG_ID by a thread

VARIABLES hash,        \* the function that hash_ is
          guard,       \* class -> static id: "unset", the thread that sets it, or "set"
          static_id,   \* class -> its value
          m_ids,       \* identifiers in the table, with their class
          m_mutex,
          class_pc, class,   \* thread -> where it is in MSG_ID(class)
          uses,
          msgs,        \* the messages made: class and m_type
          compared     \* classes of a message and of the receiver, and the outcome
ClassIdVars == <<hash, guard, static_id, m_ids, m_mutex, class_pc, class, uses, msgs, compared>>

None == "none"
ClassIdInit ==
  /\ hash \in Hashes
  /\ guard = [c \in Classes |-> "unset"] /\ static_id = [c \in Classes |-> 0]
  /\ m_ids = {} /\ m_mutex = "free"
  /\ class_pc = [t \in Threads |-> "idle"] /\ class = [t \in Threads |-> None]
  /\ uses = [t \in Threads |-> 0] /\ msgs = {} /\ compared = {}

hash_(c) == hash[c]
-----------------------------------------------------------------------------
(* MSG_ID(c): the first call for a class initialises the static variable,  *)
(* others wait for it; after an exception the next call tries again.       *)
class_id(t, c) ==
        /\ class_pc[t] = "idle" /\ uses[t] < MaxUses
        /\ class_pc' = [class_pc EXCEPT ![t] = "guard"] /\ class' = [class EXCEPT ![t] = c]
        /\ uses' = [uses EXCEPT ![t] = @ + 1]
        /\ UNCHANGED <<hash, guard, static_id, m_ids, m_mutex, msgs, compared>>

Guard(t) ==
  /\ class_pc[t] = "guard"
  /\ \/ /\ guard[class[t]] = "unset"
        /\ guard' = [guard EXCEPT ![class[t]] = t] /\ class_pc' = [class_pc EXCEPT ![t] = "lock"]
     \/ /\ guard[class[t]] = "set"
        /\ class_pc' = [class_pc EXCEPT ![t] = "use"] /\ UNCHANGED guard
  /\ UNCHANGED <<hash, static_id, m_ids, m_mutex, class, uses, msgs, compared>>

(* Mutant of Acquire: the table is used without the mutex. *)
AcquireNothing(t) == UNCHANGED m_mutex
Acquire(t) == m_mutex = "free" /\ m_mutex' = t

Lock(t) ==
  /\ class_pc[t] = "lock" /\ Acquire(t)
  /\ class_pc' = [class_pc EXCEPT ![t] = "find"]
  /\ UNCHANGED <<hash, guard, static_id, m_ids, class, uses, msgs, compared>>

(* Mutant of Collides: a hash in the table is taken for the same class. *)
CollidesNever(c) == FALSE
Collides(c) == \E e \in m_ids : e.id = hash_(c)

Find(t) ==
  /\ class_pc[t] = "find"
  /\ LET c == class[t]
     IN  IF Collides(c)
         THEN /\ m_mutex' = "free" /\ guard' = [guard EXCEPT ![c] = "unset"]   \* throws
              /\ class_pc' = [class_pc EXCEPT ![t] = "idle"]
         ELSE class_pc' = [class_pc EXCEPT ![t] = "insert"] /\ UNCHANGED <<m_mutex, guard>>
  /\ UNCHANGED <<hash, static_id, m_ids, class, uses, msgs, compared>>

get_id(t) ==
  /\ class_pc[t] = "insert"
  /\ LET c == class[t]
     IN  /\ m_ids' = m_ids \cup {[id |-> hash_(c), name |-> c]}
         /\ static_id' = [static_id EXCEPT ![c] = hash_(c)]
         /\ guard' = [guard EXCEPT ![c] = "set"]
  /\ m_mutex' = "free" /\ class_pc' = [class_pc EXCEPT ![t] = "use"]
  /\ UNCHANGED <<hash, class, uses, msgs, compared>>

(* The identifier is what the call was for: the type of a new message, or  *)
(* the type a message is compared with.                                    *)
ClassMake(t) ==
  /\ class_pc[t] = "use" /\ class_pc' = [class_pc EXCEPT ![t] = "idle"]
  /\ msgs' = msgs \cup {[class |-> class[t], m_type |-> static_id[class[t]]]}
  /\ UNCHANGED <<hash, guard, static_id, m_ids, m_mutex, class, uses, compared>>

Compare(t, m) ==
  /\ class_pc[t] = "use" /\ class_pc' = [class_pc EXCEPT ![t] = "idle"]
  /\ compared' = compared \cup {[is |-> m.class, expected |-> class[t], same |-> m.m_type = static_id[class[t]]]}
  /\ UNCHANGED <<hash, guard, static_id, m_ids, m_mutex, class, uses, msgs>>

ClassIdNext == \E t \in Threads :
  \/ \E c \in Classes : class_id(t, c)
  \/ Guard(t) \/ Lock(t) \/ Find(t) \/ get_id(t) \/ ClassMake(t)
  \/ \E m \in msgs : Compare(t, m)
-----------------------------------------------------------------------------
(* A receiver never takes a message for one of another class, nor its own  *)
(* for a foreign one: if two names have the same hash, the class that is   *)
(* used second throws at each use.                                         *)
ClassesToldApart == \A r \in compared : r.same = (r.is = r.expected)

(* The table names one class for an identifier, however many threads use   *)
(* classes for the first time at once.                                     *)
OneNamePerId == \A e, f \in m_ids : e.id = f.id => e.name = f.name
=============================================================================
