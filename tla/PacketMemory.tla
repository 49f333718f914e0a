----------------------------- MODULE PacketMemory -----------------------------
(***************************************************************************)
(* The memory of captured packets.  With sliced packets a source has a     *)
(* slice_allocator (core/SliceAllocator.hpp) whose payload slots have the  *)
(* size that the global net::payload::size_of had when the memory was      *)
(* taken; without them it has a MemoryBatch.  A packet is a shared pointer *)
(* into a region that keeps the whole region alive.  Sizes are in units.   *)
(***************************************************************************)
EXTENDS Integers, Sequences, FiniteSets

CONSTANTS Sources,      \* the capture blocks
          Caplen,       \* source -> its caplen (BUFSIZ for a PcapSource)
          IsPcap,       \* source -> it is a PcapSource
          RawLens,      \* lengths of captured packets
          NSlots,       \* slots of a slice_manager
          BatchSize,    \* <<first, later>> sizes of a MemoryBatch
          MaxPackets

VARIABLES sliced,        \* the build has USE_SIMPLE_PACKET or USE_SLICED_PACKET
          size_of,       \* net::payload::size_of, 0 until it is set
          max_caplen,    \* PFQSource::m_max_caplen
          region,        \* [at: payload size it was made for, index, size], never reused
          configured,    \* the sources that are configured
          holds,         \* source -> the region of its allocator or batch, 0 for none
          packets        \* the packets made, those still alive and the others
vars == <<sliced, size_of, max_caplen, region, configured, holds, packets>>

NoRegion == 0
Fresh(at, size) == [at |-> at, index |-> 0, size |-> size]

(* A constructor of a source makes a first batch, and no allocator. *)
Init ==
  /\ sliced \in BOOLEAN
  /\ size_of = 0 /\ max_caplen = 0 /\ configured = {} /\ packets = <<>>
  /\ \E order \in [1..Cardinality(Sources) -> Sources] :
       /\ \A s \in Sources : \E i \in DOMAIN order : order[i] = s
       /\ region = IF sliced THEN <<>> ELSE [i \in DOMAIN order |-> Fresh(1, BatchSize[1])]
       /\ holds = [s \in Sources |->
                    IF sliced THEN NoRegion ELSE CHOOSE i \in DOMAIN order : order[i] = s]

(* new slice_manager: M slots of the given size. *)
NewManager(slot, at) == Append(region, Fresh(at, slot * NSlots))

(* The allocator of a sliced build is made once the size is set. *)
Allocator(s, size) ==
  IF sliced THEN region' = NewManager(size, size) /\ holds' = [holds EXCEPT ![s] = Len(region) + 1]
            ELSE UNCHANGED <<region, holds>>

Configure(s, size) ==
  /\ s \notin configured
  /\ configured' = configured \cup {s}
  /\ size_of' = size
  /\ UNCHANGED <<sliced, packets>>

PcapSource_configure(s) ==
  /\ IsPcap[s] /\ Configure(s, Caplen[s]) /\ Allocator(s, Caplen[s])
  /\ UNCHANGED max_caplen

MaxCaplen(s) == IF Caplen[s] > max_caplen THEN Caplen[s] ELSE max_caplen

(* Mutant of PFQSource_configure: the allocator is made before the size is set. *)
PFQSource_configure_early(s) ==
  /\ ~IsPcap[s] /\ Configure(s, MaxCaplen(s))
  /\ IF sliced /\ size_of # 0
     THEN region' = NewManager(size_of, MaxCaplen(s)) /\ holds' = [holds EXCEPT ![s] = Len(region) + 1]
     ELSE Allocator(s, MaxCaplen(s))
  /\ max_caplen' = MaxCaplen(s)

PFQSource_configure(s) ==
  /\ ~IsPcap[s] /\ Configure(s, MaxCaplen(s)) /\ Allocator(s, MaxCaplen(s))
  /\ max_caplen' = MaxCaplen(s)
-----------------------------------------------------------------------------
Packet(r, bound, off, len, size) ==
  [region |-> r, bound |-> bound, off |-> off, len |-> len, size |-> size, alive |-> TRUE]

(* Mutant of Bound: the packet is bound before a full manager is replaced. *)
BoundBefore(s, r) == holds[s]

(* bind_shared: the manager that is current after the allocation. *)
Bound(s, r) == r

(* new_slice, and the copy of the packet into its payload slot. *)
SlicedPacket(s, raw) ==
  LET full == region[holds[s]].index = NSlots
      r    == IF full THEN Len(region) + 1 ELSE holds[s]
      reg  == IF full THEN NewManager(size_of, size_of) ELSE region
      len  == IF raw < size_of THEN raw ELSE size_of
      p    == Packet(r, Bound(s, r), reg[r].index * size_of, len, size_of)
  IN  /\ sliced
      /\ region' = [reg EXCEPT ![r].index = @ + 1]
      /\ holds' = [holds EXCEPT ![s] = r]
      /\ packets' = Append(packets, p)

(* MemoryBatch::reserve *)
Fits(reg, n) == reg.index + n <= reg.size

(* alloc_msg_from_buffer: a second reserve that fails would be a null      *)
(* pointer that is written to; it is recorded as a packet outside.         *)
BatchPacket(s, raw) ==
  LET fits == Fits(region[holds[s]], raw + 1)
      r    == IF fits THEN holds[s] ELSE Len(region) + 1
      reg  == IF fits THEN region ELSE Append(region, Fresh(1, BatchSize[2]))
      p    == Packet(r, r, reg[r].index, raw + 1, 1)
  IN  /\ ~sliced
      /\ region' = [reg EXCEPT ![r].index = @ + raw + 1]
      /\ holds' = [holds EXCEPT ![s] = r]
      /\ packets' = Append(packets, p)

Receive(s, raw) ==
  /\ Len(packets) < MaxPackets /\ s \in configured
  /\ SlicedPacket(s, raw) \/ BatchPacket(s, raw)
  /\ UNCHANGED <<sliced, size_of, max_caplen, configured>>

(* A trace may hold packets longer than the payload slot. *)
PcapSource_do_async(s, raw) == IsPcap[s] /\ Receive(s, raw)
PFQSource_do_async(s, raw)  == ~IsPcap[s] /\ raw <= Caplen[s] /\ Receive(s, raw)

release(i) ==
  /\ packets[i].alive
  /\ packets' = [packets EXCEPT ![i].alive = FALSE]
  /\ UNCHANGED <<sliced, size_of, max_caplen, region, holds, configured>>

Next ==
  \/ \E s \in Sources : PcapSource_configure(s) \/ PFQSource_configure(s)
  \/ \E s \in Sources, raw \in RawLens : PcapSource_do_async(s, raw) \/ PFQSource_do_async(s, raw)
  \/ \E i \in 1..Len(packets) : release(i)
-----------------------------------------------------------------------------
Alive == {i \in 1..Len(packets) : packets[i].alive}

(* A region is freed when its source and its packets have let go of it. *)
Allocated(r) == \/ \E s \in Sources : holds[s] = r
                \/ \E i \in Alive : packets[i].bound = r

(* The payload size has not changed since the region was taken. *)
Steady(r) == ~sliced \/ \A i \in 1..Len(packets) : packets[i].region = r => packets[i].size = region[r].at

(* The memory of a packet stays allocated as long as the packet is alive,  *)
(* also when the source has moved on to a new region.                      *)
NoDanglingPacket == \A i \in Alive : Allocated(packets[i].region)

(* Two live packets never share memory, and none reaches out of its        *)
(* region, as long as no source was configured with another payload size   *)
(* after the region was taken.                                             *)
PacketsApart ==
  \A i \in Alive : Steady(packets[i].region) =>
    LET p == packets[i] IN
    /\ p.off + p.len <= region[p.region].size
    /\ \A j \in Alive \ {i} : packets[j].region = p.region =>
         \/ p.off + p.len <= packets[j].off
         \/ packets[j].off + packets[j].len <= p.off
=============================================================================
