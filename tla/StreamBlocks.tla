---------------------------- MODULE StreamBlocks ----------------------------
(***************************************************************************)
(* Blocks that count, select or forward messages, four machines: the       *)
(* counters, the two filters, the selectors and the demultiplexers.        *)
(***************************************************************************)
EXTENDS Integers, Sequences, FiniteSets, SequencesExt, FiniteSetsExt, Bitwise

-----------------------------------------------------------------------------
(***************************************************************************)
(* Counter and PassthroughPacketCounter: counts and rates of packets, and  *)
(* of flows for the first, that a client reads and resets through block    *)
(* variables without a mutex.  Messages and timers exclude each other (the *)
(* block's mutex or its one thread), the client's write does not.  Counts  *)
(* wrap at Width; a rate is kept as the difference it is computed from.    *)
(***************************************************************************)
CONSTANTS Width, Garbage, MaxMsgs, MaxResets, MaxTimers

VARIABLES passthrough,                 \* which of the two blocks it is
          m_pkt_cnt, m_flow_cnt, m_pkt_cnt_prev, m_flow_cnt_prev, m_pkt_rate, m_flow_rate,
          m_reset, receiving,
          forwarded,                   \* packets sent on
          done, sinceWrite, flowsSinceReset, sinceTimer,  \* history
          resetSinceTimer, resets, timers
CountersVars == <<passthrough, m_pkt_cnt, m_flow_cnt, m_pkt_cnt_prev, m_flow_cnt_prev, m_pkt_rate, m_flow_rate, m_reset,
                  receiving, forwarded, done, sinceWrite, flowsSinceReset, sinceTimer, resetSinceTimer, resets, timers>>

None == [msg |-> "none", clear |-> FALSE]
Never == -1
(* The flow counters of Counter are not initialised by its constructor. *)
CountersInit ==
  /\ passthrough \in BOOLEAN
  /\ m_pkt_cnt = 0 /\ m_pkt_cnt_prev = 0 /\ m_pkt_rate = 0
  /\ m_flow_cnt \in Garbage /\ m_flow_cnt_prev \in Garbage /\ m_flow_rate \in Garbage
  /\ passthrough => m_flow_cnt = 0 /\ m_flow_cnt_prev = 0 /\ m_flow_rate = 0
  /\ m_reset = 0 /\ receiving = None
  /\ forwarded = 0 /\ done = 0 /\ sinceWrite = Never /\ flowsSinceReset = Never
  /\ sinceTimer = 0 /\ resetSinceTimer = FALSE /\ resets = 0 /\ timers = 0

Msgs == IF passthrough THEN {"packet"} ELSE {"packet", "flow"}
PacketsOf(m) == IF m = "flow" THEN 2 ELSE 1

(* _receive_msg up to the reset: the counters are zeroed if it is wanted.  *)
CheckReset(m) ==
  /\ receiving = None /\ done < MaxMsgs
  /\ IF m_reset = 1
     THEN /\ m_pkt_cnt' = 0 /\ m_flow_cnt' = 0 /\ m_pkt_rate' = 0 /\ m_flow_rate' = 0
          /\ receiving' = [msg |-> m, clear |-> TRUE]
          /\ flowsSinceReset' = 0 /\ resetSinceTimer' = TRUE
     ELSE /\ receiving' = [msg |-> m, clear |-> FALSE]
          /\ UNCHANGED <<m_pkt_cnt, m_flow_cnt, m_pkt_rate, m_flow_rate, flowsSinceReset, resetSinceTimer>>
  /\ UNCHANGED <<passthrough, m_pkt_cnt_prev, m_flow_cnt_prev, m_reset, forwarded, done, sinceWrite, sinceTimer, resets, timers>>

(* Mutant of ResetAfter: the request is taken back by every message. *)
ResetAfterAlways(r) == 0
ResetAfter(r) == IF r.clear THEN 0 ELSE m_reset
(* Mutant of CountFlow: a flow counts with its packets. *)
CountFlowPackets(m) == IF m = "flow" THEN PacketsOf(m) ELSE 0
CountFlow(m) == IF m = "flow" THEN 1 ELSE 0
(* The rest: the request is taken back and the message counted, and a      *)
(* packet passed on.                                                       *)
Count ==
  /\ receiving # None
  /\ m_reset' = ResetAfter(receiving)
  /\ m_pkt_cnt' = (m_pkt_cnt + PacketsOf(receiving.msg)) % Width
  /\ m_flow_cnt' = (m_flow_cnt + CountFlow(receiving.msg)) % Width
  /\ forwarded' = IF passthrough THEN forwarded + 1 ELSE forwarded
  /\ done' = done + 1
  /\ sinceWrite' = IF sinceWrite = Never THEN Never ELSE sinceWrite + PacketsOf(receiving.msg)
  /\ flowsSinceReset' = IF flowsSinceReset = Never THEN Never
                        ELSE flowsSinceReset + (IF receiving.msg = "flow" THEN 1 ELSE 0)
  /\ sinceTimer' = sinceTimer + PacketsOf(receiving.msg)
  /\ receiving' = None
  /\ UNCHANGED <<passthrough, m_pkt_cnt_prev, m_flow_cnt_prev, m_pkt_rate, m_flow_rate, resetSinceTimer, resets, timers>>

(* A client writes 1 to the variable reset, at any moment. *)
WriteReset ==
  /\ resets < MaxResets /\ resets' = resets + 1
  /\ m_reset' = 1 /\ sinceWrite' = 0
  /\ UNCHANGED <<passthrough, m_pkt_cnt, m_flow_cnt, m_pkt_cnt_prev, m_flow_cnt_prev, m_pkt_rate, m_flow_rate,
                 receiving, forwarded, done, flowsSinceReset, sinceTimer, resetSinceTimer, timers>>

(* Mutant of PrevAfter: the count at the last timer is kept. *)
PrevAfterStays == m_pkt_cnt_prev
PrevAfter == m_pkt_cnt
_handle_timer ==
  /\ receiving = None /\ timers < MaxTimers /\ timers' = timers + 1
  /\ m_pkt_rate' = (m_pkt_cnt - m_pkt_cnt_prev) % Width
  /\ m_flow_rate' = (m_flow_cnt - m_flow_cnt_prev) % Width
  /\ m_pkt_cnt_prev' = PrevAfter /\ m_flow_cnt_prev' = m_flow_cnt
  /\ sinceTimer' = 0 /\ resetSinceTimer' = FALSE
  /\ UNCHANGED <<passthrough, m_pkt_cnt, m_flow_cnt, m_reset, receiving, forwarded, done, sinceWrite, flowsSinceReset, resets>>

CountersNext == (\E m \in Msgs : CheckReset(m)) \/ Count \/ WriteReset \/ _handle_timer

(* A reset a client asked for is pending or was done: when no message is   *)
(* being received and the request is gone, the count holds at most the     *)
(* packets counted since the client wrote it.                              *)
ResetNotLost == (receiving = None /\ m_reset = 0 /\ sinceWrite # Never) => m_pkt_cnt <= sinceWrite
(* Between two timers without a reset the difference the rate is computed  *)
(* from is the number of packets since the last timer.  After a reset it   *)
(* is not: the previous count is not reset and the difference wraps.       *)
RateCountsInterval ==
  ~resetSinceTimer => (m_pkt_cnt - m_pkt_cnt_prev) % Width = sinceTimer % Width
(* Once reset, the flow counter, which starts uninitialised, is the number *)
(* of flows received since.                                                *)
FlowCountAfterReset == flowsSinceReset # Never => m_flow_cnt = flowsSinceReset

-----------------------------------------------------------------------------
(***************************************************************************)
(* PacketFilter and FlowFilter on the common Filter, with the way a        *)
(* message leaves through an output gate (OutGate::deliver).  A filter is  *)
(* configured once from the fields of an XML tree and then decides on one  *)
(* message after the other.                                                *)
(***************************************************************************)
CONSTANTS Fields,      \* configured together: a set of sets of fields
          Addresses, Masks, Ports, Protos

VARIABLES filter,      \* "packet" or "flow"
          phase, conf, \* what _configure made of the XML: the active fields
          lastPeer,    \* what the last peer of the gate does with a message
          msg,
          sent         \* what was delivered for msg: the message or an empty pointer
FiltersVars == <<filter, phase, conf, lastPeer, msg, sent>>

IP4 == 2048
L3Protos == {IP4, 2054}
HasPorts(p) == p \in {6, 17}
Messages == [l3 : L3Protos, ip_src : Addresses, ip_dst : Addresses, l4 : Protos, src_port : Ports, dst_port : Ports]
NoMsg == [l3 |-> 0]

(* A field's XML: the behaviour of filter_mode, and its attributes or the  *)
(* lack of them: an address and its mask, or the numbers to compare with.  *)
Behaviours == {"accept", "discard", "unknown", "none"}
Values(f) == IF f \in {"ip_src", "ip_dst"} THEN [address : Addresses, netmask : Masks, numbers : {{}}]
             ELSE [address : {0}, netmask : {0},
                   numbers : CASE f = "l4" -> {{p} : p \in Protos}
                               [] f = "l3" -> {{p} : p \in L3Protos}
                               [] OTHER -> {{p} : p \in Ports} \cup {Ports}]
Node(f) == [behavior : Behaviours, missing : BOOLEAN, value : Values(f)]

parse_filter_mode(x) == x.behavior \in {"accept", "discard"}
signal_error(c) == \E f \in DOMAIN c : ~parse_filter_mode(c[f]) \/ c[f].missing

FiltersInit ==
  /\ filter \in {"packet", "flow"}
  /\ lastPeer \in {"none", "keeps", "takes"}
  /\ phase = "new" /\ conf = << >>
  /\ msg = NoMsg /\ sent = <<>>

(* One tree: fields that are absent stay inactive.  FlowFilter knows no    *)
(* layer 3 field and takes one port instead of a list of them.             *)
_configure(c) ==
  /\ filter = "flow" => "l3" \notin DOMAIN c /\ \A f \in DOMAIN c \cap {"src_port", "dst_port"} :
                                                 Cardinality(c[f].value.numbers) = 1
  /\ phase' = IF signal_error(c) THEN "failed" ELSE "ready"
  /\ conf' = IF signal_error(c) THEN << >> ELSE c
  /\ UNCHANGED <<filter, lastPeer, msg, sent>>

is_indirect(f) == f \in DOMAIN conf
(* Mutant of Matched: the mask is applied to the message only. *)
MatchedUnmasked(f, m) ==
  IF f \in {"ip_src", "ip_dst"} THEN conf[f].value.address = (m[f] & conf[f].value.netmask)
  ELSE m[f] \in conf[f].value.numbers
Matched(f, m) ==
  IF f \in {"ip_src", "ip_dst"} THEN (conf[f].value.address & conf[f].value.netmask) = (m[f] & conf[f].value.netmask)
  ELSE m[f] \in conf[f].value.numbers
go_ahead(f, m) == is_indirect(f) => (Matched(f, m) <=> conf[f].behavior = "accept")
(* PacketFilter's own overload: an inactive field always goes on. *)
go_ahead_ports(f, m) ==
  IF ~is_indirect(f) THEN TRUE
  ELSE IF m[f] \in conf[f].value.numbers THEN conf[f].behavior # "discard" ELSE conf[f].behavior = "discard"

(* deliver: nobody is there, or all peers get the message; the sender's    *)
(* pointer is emptied unless the last peer is a direct block that leaves   *)
(* it alone.                                                               *)
deliver(m) == IF lastPeer = "none" THEN <<>> ELSE <<m>>
Left(m) == IF lastPeer = "takes" THEN "null" ELSE m

PacketGoesOut(m) ==
  /\ go_ahead("l3", m)
  /\ m.l3 = IP4 => /\ \A f \in {"ip_src", "ip_dst", "l4"} : go_ahead(f, m)
                   /\ HasPorts(m.l4) => go_ahead_ports("src_port", m) /\ go_ahead_ports("dst_port", m)
receive_packet(m) ==
  /\ filter = "packet" /\ phase = "ready"
  /\ msg' = m
  /\ sent' = IF PacketGoesOut(m) THEN deliver("msg") ELSE <<>>
  /\ UNCHANGED <<filter, phase, conf, lastPeer>>

FlowPorts(m) == go_ahead("src_port", m) /\ go_ahead("dst_port", m)
(* Mutant of SentFlow: the flow with ports takes the first send as well. *)
SentFlowTwice(m, seen) ==
  deliver("msg") \o (IF FlowPorts(seen) THEN deliver(Left("msg")) ELSE <<>>)
(* A flow without ports is sent and control goes on to the ports, so that  *)
(* it may be sent again, or an empty pointer in its place.  The ports that *)
(* are then read are those of a message that may be gone.                  *)
SentFlow(m, seen) ==
  IF HasPorts(m.l4) THEN (IF FlowPorts(m) THEN deliver("msg") ELSE <<>>)
  ELSE deliver("msg") \o (IF FlowPorts(seen) THEN deliver(Left("msg")) ELSE <<>>)
receive_flow(m, seen) ==
  /\ filter = "flow" /\ phase = "ready" /\ m.l3 = IP4
  /\ seen # m => ~HasPorts(m.l4) /\ lastPeer = "takes"
  /\ msg' = m
  /\ sent' = IF \A f \in {"ip_src", "ip_dst", "l4"} : go_ahead(f, m) THEN SentFlow(m, seen) ELSE <<>>
  /\ UNCHANGED <<filter, phase, conf, lastPeer>>

Configs == {c \in UNION {[F -> UNION {Node(f) : f \in F}] : F \in Fields} : \A f \in DOMAIN c : c[f] \in Node(f)}
FiltersNext ==
  \/ phase = "new" /\ \E c \in Configs : _configure(c)
  \/ /\ msg = NoMsg                     \* no state is kept between two messages
     /\ \E m \in Messages : \/ receive_packet(m)
                            \/ \E p \in Ports, q \in Ports : receive_flow(m, [m EXCEPT !.src_port = p, !.dst_port = q])

(* What the configuration asks for: every field that applies to the        *)
(* message and is configured matches or fails to match as it says.         *)
Applies(f, m) == CASE f = "l3" -> filter = "packet"
                   [] f \in {"src_port", "dst_port"} -> m.l3 = IP4 /\ HasPorts(m.l4)
                   [] OTHER -> m.l3 = IP4
SameNet(a, b, mask) == \A i \in 0..2 : (mask \div 2^i) % 2 = 1 => (a \div 2^i) % 2 = (b \div 2^i) % 2
Hits(f, m) == IF f \in {"ip_src", "ip_dst"} THEN SameNet(m[f], conf[f].value.address, conf[f].value.netmask)
              ELSE m[f] \in conf[f].value.numbers
Wanted(m) == \A f \in DOMAIN conf : Applies(f, m) => (Hits(f, m) <=> conf[f].behavior = "accept")

(* A message the configuration wants is delivered, any other is not, for   *)
(* both filters and for messages that lack the configured fields.          *)
WantedIsDelivered ==
  (msg # NoMsg /\ lastPeer # "none") => (Wanted(msg) <=> Len(sent) > 0)
(* Nothing is delivered twice and no empty pointer is delivered, except by *)
(* FlowFilter for flows without ports (FlowFilter.cpp:230 does not return).*)
DeliveredOnce ==
  (msg # NoMsg /\ (filter = "packet" \/ HasPorts(msg.l4))) => sent \in {<<>>, <<"msg">>}

-----------------------------------------------------------------------------
(***************************************************************************)
(* TopNFlowSelector, which reports the N heaviest flows of a period, and   *)
(* CDFGenerator, which reports the cumulative distribution of the packet   *)
(* sizes of a period.  Both collect on a message and report on a timer;    *)
(* the two never overlap (the block's own mutex, or its one thread).       *)
(***************************************************************************)
CONSTANTS Lens, Weights, Params, Sizes, SelectMaxMsgs

VARIABLES block,                       \* which of the two it is
          m_len, m_heap, heavy,        \* flows kept, and the last report
          m_param, m_histo, m_cdf,     \* [min, max, bin], the bins, the last report
          stray,                       \* packets counted behind the last bin
          received, reported           \* the period's input, and the reported period's
SelectorsVars == <<block, m_len, m_heap, heavy, m_param, m_histo, m_cdf, stray, received, reported>>

Bins(p) == (p.max - p.min) \div p.bin
histoSetZero == [i \in 1..Bins(m_param) |-> 0]
Total(s) == FoldLeft(LAMBDA a, b : a + b, 0, s)

(* _configure of both: the number of flows, and the range and width of the bins. *)
SelectorsInit ==
  /\ block \in {"top", "cdf"}
  /\ m_len \in Lens
  /\ m_heap = <<>> /\ heavy = <<>>
  /\ m_param \in Params
  /\ m_histo = histoSetZero /\ m_cdf = histoSetZero
  /\ stray = 0 /\ received = <<>> /\ reported = <<>>

(* The heap as the sequence its pops give: the lightest first. *)
Insert(heap, w) == LET i == Cardinality({j \in DOMAIN heap : heap[j] < w}) IN InsertAt(heap, i + 1, w)
(* Mutant of Replaces: a flow has to be heavier than all that are kept. *)
ReplacesHeaviest(w) == w > m_heap[Len(m_heap)]
Replaces(w) == w > m_heap[1]
select_receive_flow(w) ==
  /\ block = "top" /\ Len(received) < SelectMaxMsgs
  /\ m_heap' = IF Len(m_heap) < m_len THEN Insert(m_heap, w)
               ELSE IF Replaces(w) THEN Insert(Tail(m_heap), w) ELSE m_heap
  /\ received' = Append(received, w)
  /\ UNCHANGED <<block, m_len, heavy, m_param, m_histo, m_cdf, stray, reported>>

(* The timer pops and sends until the heap is empty. *)
flush_flows ==
  /\ block = "top" /\ received # <<>>
  /\ heavy' = m_heap /\ m_heap' = <<>>
  /\ reported' = received /\ received' = <<>>
  /\ UNCHANGED <<block, m_len, m_param, m_histo, m_cdf, stray>>

InRange(size) == size >= m_param.min /\ size <= m_param.max
(* A size in the part of the range behind the last whole bin is counted    *)
(* behind the end of the vector.                                           *)
select_receive_packet(size) ==
  LET i == (size - m_param.min) \div m_param.bin + 1
  IN  /\ block = "cdf" /\ Len(received) < SelectMaxMsgs
      /\ m_histo' = IF InRange(size) /\ i <= Len(m_histo) THEN [m_histo EXCEPT ![i] = @ + 1] ELSE m_histo
      /\ stray' = IF InRange(size) /\ i > Len(m_histo) THEN stray + 1 ELSE stray
      /\ received' = Append(received, size)
      /\ UNCHANGED <<block, m_len, m_heap, heavy, m_param, m_cdf, reported>>

(* Mutant of cdf_computation: each bin is added to the one before it only. *)
cdf_of_pairs == [i \in DOMAIN m_histo |-> IF i = 1 THEN m_histo[1] ELSE m_histo[i - 1] + m_histo[i]]
(* Without noise (epsilon 0). *)
cdf_computation == [i \in DOMAIN m_histo |-> Total(SubSeq(m_histo, 1, i))]
report_cdf ==
  /\ block = "cdf" /\ received # <<>>
  /\ m_cdf' = cdf_computation
  /\ m_histo' = histoSetZero /\ stray' = 0
  /\ reported' = received /\ received' = <<>>
  /\ UNCHANGED <<block, m_len, m_heap, heavy, m_param>>

SelectorsNext ==
  \/ \E w \in Weights : select_receive_flow(w)
  \/ \E size \in Sizes : select_receive_packet(size)
  \/ flush_flows \/ report_cdf

AtLeast(s, w) == Cardinality({j \in DOMAIN s : s[j] >= w})
(* The report holds the N heaviest flows of the period and no other: for   *)
(* every weight as many flows of at least that weight as were received, up *)
(* to N, the lightest first.                                               *)
HeaviestReported ==
  block = "top" => /\ \A w \in Weights : AtLeast(heavy, w) = Min({AtLeast(reported, w), m_len})
               /\ \A j \in 1..(Len(heavy) - 1) : heavy[j] <= heavy[j + 1]
(* Every value of the report is the number of packets of the period up to  *)
(* the end of its bin; packets behind the last whole bin are in none.      *)
CdfCountsSizes ==
  block = "cdf" => \A i \in DOMAIN m_cdf :
    m_cdf[i] = Cardinality({j \in DOMAIN reported : reported[j] >= m_param.min /\ reported[j] < m_param.min + i * m_param.bin})

-----------------------------------------------------------------------------
(***************************************************************************)
(* The blocks that choose an output gate, or none, for a message: RRDemux, *)
(* L4Demux, ProtocolFilter and Nofrag.  A message is its arrival number    *)
(* with the header fields these blocks look at.                            *)
(***************************************************************************)
CONSTANTS GateNumbers, DemuxL3Protos, L4Protos, Frags, DemuxMaxMsgs

VARIABLES demux_block, m_outgates_number, m_current_outgate, m_proto,
          arrived, out       \* the messages in, and the numbers sent through each gate
DemuxVars == <<demux_block, m_outgates_number, m_current_outgate, m_proto, arrived, out>>

Blocks == {"rr", "l4", "proto", "nofrag"}
Gates == CASE demux_block = "rr" -> 0..(m_outgates_number - 1) [] demux_block = "l4" -> 0..2 [] OTHER -> {0}
DemuxMsgs == CASE demux_block = "rr" -> {[l3 |-> 2048, l4 |-> 6, frag |-> 0]}
               [] demux_block = "l4" -> [l3 : {2048}, l4 : L4Protos, frag : {0}]
               [] demux_block = "proto" -> [l3 : DemuxL3Protos, l4 : {6}, frag : {0}]
               [] OTHER -> [l3 : {2048}, l4 : {6}, frag : Frags]

(* The constructors and _configure: RRDemux registers as many gates as the *)
(* XML says, two by default; ProtocolFilter has to be given a protocol.    *)
DemuxInit ==
  /\ demux_block \in Blocks
  /\ m_outgates_number \in GateNumbers /\ m_current_outgate = 0
  /\ m_proto \in DemuxL3Protos
  /\ arrived = <<>>
  /\ out = [g \in Gates |-> <<>>]

send_out_through(m, g) ==
  /\ Len(arrived) < DemuxMaxMsgs
  /\ arrived' = Append(arrived, m)
  /\ out' = [h \in DOMAIN out |-> IF h = g THEN Append(out[h], Len(arrived) + 1) ELSE out[h]]
Drop == -1

(* Mutant of NextGate: the last gate is skipped. *)
NextGateShort == IF m_current_outgate + 1 >= m_outgates_number - 1 THEN 0 ELSE m_current_outgate + 1
NextGate == IF m_current_outgate + 1 >= m_outgates_number THEN 0 ELSE m_current_outgate + 1
receive_rr(m) ==
  /\ demux_block = "rr"
  /\ send_out_through(m, m_current_outgate)
  /\ m_current_outgate' = NextGate
  /\ UNCHANGED <<demux_block, m_outgates_number, m_proto>>

L4Gate(m) == IF m.l4 = 6 THEN 0 ELSE IF m.l4 = 17 THEN 1 ELSE 2
receive_l4(m) ==
  /\ demux_block = "l4"
  /\ send_out_through(m, L4Gate(m))
  /\ UNCHANGED <<demux_block, m_outgates_number, m_current_outgate, m_proto>>

receive_proto(m) ==
  /\ demux_block = "proto"
  /\ send_out_through(m, IF m.l3 = m_proto THEN 0 ELSE Drop)
  /\ UNCHANGED <<demux_block, m_outgates_number, m_current_outgate, m_proto>>

(* The masks of the code: neither is the one of the IP header, whose more  *)
(* fragments bit is 0x2000 and whose offset is in 0x1fff.                  *)
IPHDR_MF == 32768
IPHDR_FRAGOFF(f) == f & 4096
(* Mutant of Whole: the don't fragment bit is taken for a fragment's. *)
WholeUnlessDF(f) == (f & 16384) = 0 /\ IPHDR_FRAGOFF(f) = 0
Whole(f) == (f & IPHDR_MF) = 0 /\ IPHDR_FRAGOFF(f) = 0
receive_nofrag(m) ==
  /\ demux_block = "nofrag"
  /\ send_out_through(m, IF Whole(m.frag) THEN 0 ELSE Drop)
  /\ UNCHANGED <<demux_block, m_outgates_number, m_current_outgate, m_proto>>

DemuxNext == \E m \in DemuxMsgs : receive_rr(m) \/ receive_l4(m) \/ receive_proto(m) \/ receive_nofrag(m)

(* RRDemux gives the messages to its gates in turn: the j-th message of    *)
(* gate g is number (j - 1) * n + g + 1 of all, for one gate and for more. *)
RoundRobin ==
  demux_block = "rr" => \A g \in DOMAIN out : \A j \in DOMAIN out[g] : out[g][j] = (j - 1) * m_outgates_number + g + 1
(* Nofrag passes every packet that is not a fragment, in order, whatever   *)
(* its other flags are.  It also passes fragments: see IPHDR_MF.           *)
UnfragmentedPass ==
  demux_block = "nofrag" => \A i \in DOMAIN arrived : (arrived[i].frag \in {0, 16384}) => \E j \in DOMAIN out[0] : out[0][j] = i
=============================================================================
