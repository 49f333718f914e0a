------------------------------- MODULE Flows --------------------------------
(***************************************************************************)
(* Flows, three machines: the payload put together from segments, the      *)
(* table of a meter with its hash and equality of keys, and the times and  *)
(* addresses of a flow in their other forms.                               *)
(***************************************************************************)
EXTENDS Integers, Sequences, FiniteSets, SequencesExt, FiniteSetsExt

-----------------------------------------------------------------------------
(***************************************************************************)
(* The packets that a Flow keeps and Flow::get_payload (messages/Flow.cpp).*)
(* A TCP stream starts at any sequence number, modulo SeqModulus for 2^32,     *)
(* with a SYN and goes on with segments; its packets are added in any      *)
(* order, and some never.  Bytes are numbered from the first of the stream.*)
(***************************************************************************)
CONSTANTS SeqModulus, Lengths,    \* the segments: sequences of payload lengths
          Udp,                \* payload lengths of UDP packets
          Requests            \* <<offset, nbytes>>

VARIABLES start, segments,    \* the stream
          pending,            \* packets not added yet, 0 is the SYN
          m_flow_packets, m_list_sorted,
          late,               \* a packet was added after the list was sorted
          got                 \* what the last get_payload copied, and for which request
FlowPayloadVars == <<start, segments, pending, m_flow_packets, m_list_sorted, late, got>>

IsUdp == start < 0
Before(k) == FoldLeft(LAMBDA a, b : a + b, 0, SubSeq(segments, 1, k - 1))
Seq_(k) == IF k = 0 THEN start ELSE (start + 1 + Before(k)) % SeqModulus
Length(k) == IF k = 0 THEN 0 ELSE segments[k]

FlowPayloadInit ==
  /\ \/ start \in 0..(SeqModulus - 1) /\ segments \in Lengths /\ pending = 0..Len(segments)
     \/ start = -1 /\ segments \in Udp /\ pending = 1..Len(segments)
  /\ m_flow_packets = <<>> /\ m_list_sorted = FALSE /\ late = FALSE /\ got = <<>>

add_packet(k) ==
  /\ k \in pending /\ pending' = pending \ {k}
  /\ m_flow_packets' = Append(m_flow_packets, k)
  /\ late' = m_list_sorted   \* one late packet is enough
  /\ ~late
  /\ UNCHANGED <<start, segments, m_list_sorted, got>>

(* Packets by sequence number, and then the part from the SYN on first.    *)
(* Sequence numbers of a flow are distinct, apart from those of segments   *)
(* without payload, which are in the order they were added.                *)
BySeq(list) ==
  LET less(i, j) == Seq_(list[i]) < Seq_(list[j]) \/ (Seq_(list[i]) = Seq_(list[j]) /\ i < j)
      rank(i) == Cardinality({j \in DOMAIN list : less(j, i)}) + 1
  IN  [r \in DOMAIN list |-> list[CHOOSE i \in DOMAIN list : rank(i) = r]]
(* Mutant of Sorted: the part before the SYN stays where it is. *)
SortedOnly(list) == IF IsUdp THEN list ELSE BySeq(list)
Sorted(list) ==
  LET s == BySeq(list)
      syn == {i \in DOMAIN s : s[i] = 0}
      at == IF syn = {} THEN Len(s) + 1 ELSE Min(syn)
  IN  IF IsUdp THEN list ELSE SubSeq(s, at, Len(s)) \o SubSeq(s, 1, at - 1)
TooManyUdp == IsUdp /\ Len(m_flow_packets) > 1

(* Mutant of Expect: the SYN has no sequence number of its own. *)
ExpectNext(expected, length) == (expected + length) % SeqModulus
(* Every packet is taken to use up one sequence number more than bytes. *)
Expect(expected, length) == (expected + length + 1) % SeqModulus

(* One turn of the copying loop. *)
Copy(st, k, offset) ==
  LET length == Length(k)
      take == Min({st.remaining, length})
      from == IF st.skipped + st.copied = 0 THEN offset ELSE 0
      copy == st.skipped + st.copied + length > offset
      hole == IsUdp \/ Seq_(k) # st.expected
  IN  IF ~st.more \/ st.remaining = 0 THEN st
      ELSE [copied |-> IF copy THEN st.copied + take ELSE st.copied,
            remaining |-> IF copy THEN st.remaining - take ELSE st.remaining,
            skipped |-> IF copy THEN st.asked ELSE st.skipped + length,
            buffer |-> IF copy THEN st.buffer \o [i \in 1..take |-> Before(k) + from + i] ELSE st.buffer,
            expected |-> Expect(st.expected, length),
            more |-> ~hole, asked |-> st.asked]

(* Mutant of Payload: a flow without its SYN is copied from its first packet. *)
PayloadAnyway(list, offset, n) ==
  LET first == [copied |-> 0, remaining |-> n, skipped |-> 0, buffer |-> <<>>, asked |-> offset,
                expected |-> IF IsUdp THEN 0 ELSE Seq_(list[1]), more |-> TRUE]
  IN  FoldLeft(LAMBDA st, k : Copy(st, k, IF IsUdp THEN 0 ELSE offset), first, list).buffer
Payload(list, offset, n) ==
  LET first == [copied |-> 0, remaining |-> n, skipped |-> 0, buffer |-> <<>>, asked |-> offset,
                expected |-> IF IsUdp THEN 0 ELSE start, more |-> IsUdp \/ list[1] = 0]
  IN  FoldLeft(LAMBDA st, k : Copy(st, k, IF IsUdp THEN 0 ELSE offset), first, list).buffer

get_payload(offset, n) ==
  /\ m_flow_packets # <<>>
  /\ IF ~m_list_sorted /\ TooManyUdp
     THEN UNCHANGED <<m_flow_packets, m_list_sorted>> /\ got' = <<>>
     ELSE /\ m_flow_packets' = IF m_list_sorted THEN m_flow_packets ELSE Sorted(m_flow_packets)
          /\ m_list_sorted' = TRUE
          /\ got' = <<offset, n, Payload(m_flow_packets', offset, n)>>
  /\ UNCHANGED <<start, segments, pending, late>>

reset ==
  /\ m_flow_packets # <<>> /\ m_list_sorted
  /\ m_flow_packets' = <<>> /\ m_list_sorted' = FALSE /\ late' = FALSE /\ got' = <<>>
  /\ pending' = IF IsUdp THEN 1..Len(segments) ELSE 0..Len(segments)
  /\ UNCHANGED <<start, segments>>

FlowPayloadNext == (\E k \in 0..3 : add_packet(k)) \/ (\E r \in Requests : get_payload(r[1], r[2])) \/ reset
-----------------------------------------------------------------------------
(* After sorting, the packets of a TCP flow are in the order of the stream *)
(* also when its sequence numbers wrap around, unless one was added later. *)
InStreamOrder ==
  m_list_sorted /\ ~late /\ ~IsUdp /\ 0 \in ToSet(m_flow_packets) =>
     \A i, j \in DOMAIN m_flow_packets : i < j => Before(m_flow_packets[i]) <= Before(m_flow_packets[j])

(* A flow that has its SYN and all segments, at most two of them, is given *)
(* byte for byte from offset zero; with more than two the code takes the   *)
(* third for one behind a hole.                                            *)
Total == Before(Len(segments) + 1)
ShortFlowsAreWhole ==
  got # <<>> /\ ~late /\ ~IsUdp /\ ToSet(m_flow_packets) = 0..Len(segments) /\ Len(segments) <= 2 /\ got[1] = 0 =>
     got[3] = [i \in 1..Min({got[2], Total}) |-> i]

(* A flow that begins with a hole gives nothing, and no more is copied     *)
(* than was asked for.                                                     *)
NothingWithoutSyn ==
  got # <<>> => /\ Len(got[3]) <= got[2]
                /\ ~late /\ ~IsUdp /\ 0 \notin ToSet(m_flow_packets) => got[3] = <<>>

-----------------------------------------------------------------------------
(***************************************************************************)
(* The flow table of FlowMeter and PeriodFlowMeter as a hash table: a key  *)
(* (messages/NetTypes.hpp) has 13 bytes of fields and 3 bytes of padding,  *)
(* is compared by its fields and hashed by all its bytes.  Whether the     *)
(* defaulted copies of FlowKey move the padding is up to the compiler.     *)
(***************************************************************************)
CONSTANTS Flows,       \* the values of the five fields
          Paddings,    \* contents of the padding bytes; 0 is one of them
          HashRange,   \* number of hash values
          MaxPackets, MaxFlows

VARIABLES build,     \* does the copy constructor, does operator=, copy the padding?
          collide,   \* do all flows have the same hash?
          m_flow_table,
          made,      \* number of Flow objects so far
          exported,  \* the numbers of those that were sent out
          packets    \* packets received since a flow was last exported
FlowHashVars == <<build, collide, m_flow_table, made, exported, packets>>

(* FlowKey(): the constructors set the fields; the padding is what the     *)
(* memory held.                                                            *)
FlowKey(f, pad) == [fields |-> f, pad |-> pad]
Copied(k, pad) == [k EXCEPT !.pad = IF build.ctor THEN @ ELSE pad]
Assigned(local, k) == [k EXCEPT !.pad = IF build.assign THEN @ ELSE local.pad]

Equal(k, l) == k.fields = l.fields

(* Mutant of my_equal_to: keys with the same hash are taken for equal. *)
my_equal_to_hash(k, l) == TRUE
my_equal_to(k, l) == Equal(k, l)

(* The value simplehash computes from the 16 bytes of a key. *)
simplehash(k) == ((IF collide THEN 0 ELSE k.fields) + k.pad) % HashRange

(* Mutant of my_hash: the local copy is not cleared first. *)
my_hash_garbage(k) == {simplehash(Assigned(FlowKey(k.fields, p), k)) : p \in Paddings}
my_hash(k) == {simplehash(Assigned(FlowKey(k.fields, 0), k))}

Find(k, h) == {e \in m_flow_table : e.hash = h /\ my_equal_to(e.key, k)}
-----------------------------------------------------------------------------
FlowHashInit ==
  /\ build \in [ctor : BOOLEAN, assign : BOOLEAN] /\ collide \in BOOLEAN
  /\ m_flow_table = {} /\ made = 0 /\ exported = {} /\ packets = [f \in Flows |-> 0]

receive_msg(k) ==
  /\ packets[k.fields] < MaxPackets /\ made < MaxFlows
  /\ packets' = [packets EXCEPT ![k.fields] = @ + 1]
  /\ \E h \in my_hash(k), pad \in Paddings :
       IF Find(k, h) = {}
       THEN /\ m_flow_table' = m_flow_table \cup
                 {[hash |-> h, key |-> k, flow |-> Copied(k, pad), id |-> made, n |-> 1]}
            /\ made' = made + 1
       ELSE LET e == CHOOSE x \in Find(k, h) : TRUE
            IN  m_flow_table' = (m_flow_table \ {e}) \cup {[e EXCEPT !.n = @ + 1]} /\ UNCHANGED made
  /\ UNCHANGED <<build, collide, exported>>

(* Mutant of Erased: the entry stays in the table. *)
ErasedNot(k, h) == m_flow_table
Erased(k, h) == m_flow_table \ Find(k, h)

(* The timer of FlowMeter takes the slot of a flow from the queue, exports *)
(* the flow and erases the entry of its key.                               *)
handle_timer(e) ==
  /\ e.id \notin exported
  /\ \E h \in my_hash(e.flow) : m_flow_table' = Erased(e.flow, h)
  /\ exported' = exported \cup {e.id}
  /\ packets' = [packets EXCEPT ![e.flow.fields] = 0]
  /\ UNCHANGED <<build, collide, made>>

FlowHashNext ==
  \/ \E f \in Flows, pad \in Paddings : receive_msg(FlowKey(f, pad))
  \/ \E e \in m_flow_table : handle_timer(e)
-----------------------------------------------------------------------------
Entries(f) == {e \in m_flow_table : e.flow.fields = f}

(* The packets of a flow are counted in one entry, provided that operator= *)
(* does not copy the padding over the cleared bytes.                       *)
OneEntryPerFlow ==
  ~build.assign => \A f \in Flows : Cardinality(Entries(f)) = (IF packets[f] > 0 THEN 1 ELSE 0)

(* Flows are never mixed, also when their hashes are equal. *)
CountsItsOwn == ~build.assign => \A e \in m_flow_table : e.n = packets[e.flow.fields]

(* A flow that was exported is no longer in the table, so the next packet  *)
(* starts a new one, if the padding does not change the hash on the way    *)
(* from the packet to the flow.                                            *)
ExportedIsGone == (build.assign => build.ctor) => \A e \in m_flow_table : e.id \notin exported

-----------------------------------------------------------------------------
(***************************************************************************)
(* The conversions of messages/NetTypes.cpp between microseconds, timespec *)
(* and NTP time, and between addresses and their dotted form.  Seconds     *)
(* have Micro microseconds, Nano nanoseconds and Frac (2^32) NTP units.    *)
(***************************************************************************)
CONSTANTS Micro, Nano, Frac,
          Octet,     \* values of an octet
          Times      \* microseconds to convert

VARIABLES step, us, ts, nt, ip
TimeConvVars == <<step, us, ts, nt, ip>>

(* The factor of the code: 2ULL << 32, twice the units of a second. *)
k2_32 == 2 * Frac

(* A double cast to uint32_t: undefined when it does not fit; builds keep  *)
(* the low 32 bits or take the largest value.                              *)
ToUint32(x) == IF x < Frac THEN {x} ELSE {x % Frac, Frac - 1}

timespec_to_us(t) == t.sec * Micro + t.nsec \div (Nano \div Micro)
(* Mutant of us_to_timespec: the fraction is left in microseconds. *)
us_to_timespec_micro(u) == [sec |-> u \div Micro, nsec |-> u % Micro]
us_to_timespec(u) == [sec |-> u \div Micro, nsec |-> (u % Micro) * (Nano \div Micro)]

(* Mutant of us_to_ntp: the fraction in units of 2^-32, unlike ntp_to_us. *)
us_to_ntp_half(u) == {[sec |-> u \div Micro, frac |-> f] : f \in ToUint32(((u % Micro) * Frac) \div Micro)}
us_to_ntp(u) == {[sec |-> u \div Micro, frac |-> f] : f \in ToUint32(((u % Micro) * k2_32) \div Micro)}
timespec_to_ntp(t) == {[sec |-> t.sec, frac |-> f] : f \in ToUint32((t.nsec * k2_32) \div Nano)}
ntp_to_us(n) == n.sec * Micro + (n.frac * Micro) \div k2_32
ntp_to_timespec(n) == [sec |-> n.sec, nsec |-> (n.frac * Nano) \div k2_32]

ipv4_to_string(a) == <<a \div (Octet ^ 3), (a \div (Octet ^ 2)) % Octet, (a \div Octet) % Octet, a % Octet>>
(* Mutant of string_to_ipv4: the octets in the order of the machine. *)
string_to_ipv4_host(s) == s[4] * Octet ^ 3 + s[3] * Octet ^ 2 + s[2] * Octet + s[1]
string_to_ipv4(s) == s[1] * Octet ^ 3 + s[2] * Octet ^ 2 + s[3] * Octet + s[4]
-----------------------------------------------------------------------------
TimeConvInit ==
  /\ step = "given" /\ us \in Times
  /\ ts = us_to_timespec(us) /\ nt \in us_to_ntp(us)
  /\ ip = ipv4_to_string(us % (Octet ^ 4))

(* What is left of a time after a detour: through NTP time, or through a   *)
(* timespec and NTP time.                                                  *)
TimeConvNext ==
  /\ step = "given" /\ step' = "back"
  /\ \/ us' = ntp_to_us(nt) /\ ts' = ntp_to_timespec(nt) /\ UNCHANGED nt
     \/ /\ nt' \in timespec_to_ntp(ts) /\ ts' = ntp_to_timespec(nt')
        /\ us' = timespec_to_us(ts')
  /\ UNCHANGED ip
-----------------------------------------------------------------------------
(* A timespec holds the microseconds exactly. *)
TimespecExact == step = "given" => timespec_to_us(us_to_timespec(us)) = us

(* In the first half of a second the conversions to NTP time and back lose *)
(* less than a microsecond (the values in nt are twice what NTP defines);  *)
(* in the second half the fraction does not fit.                           *)
NtpReturns ==
  step = "given" /\ 2 * (us % Micro) < Micro =>
    /\ ntp_to_us(nt) \in {us - 1, us}
    /\ \A n \in timespec_to_ntp(ts) : timespec_to_us(ntp_to_timespec(n)) \in {us - 1, us}

(* The dotted form of an address is read back as the address. *)
AddressReturns == step = "given" => string_to_ipv4(ip) = us % (Octet ^ 4)
=============================================================================
