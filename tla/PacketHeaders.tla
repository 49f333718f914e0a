--------------------------- MODULE PacketHeaders ----------------------------
(***************************************************************************)
(* Access to packets, three machines: Packet, parsed on demand by several  *)
(* threads, NewPacket with its dissectors, and the parser of DNS messages. *)
(***************************************************************************)
EXTENDS Integers, Sequences, FiniteSets, SequencesExt, FiniteSetsExt

-----------------------------------------------------------------------------
(***************************************************************************)
(* Packet (messages/Packet.cpp, Packet.hpp), the packet of a build without *)
(* the dissector: its accessors parse what they need and cache it, under a *)
(* mutex for each layer and with the flags also read outside of it, since  *)
(* a packet that was sent to several blocks is read by several threads.    *)
(* Fields are "-" before a parser sets them where the constructor does not.*)
(***************************************************************************)
CONSTANTS Threads, MaxCalls

VARIABLES frame,     \* what was captured
          parse_f,   \* the mutable fields and flags
          mutex,     \* layer -> the thread that holds its mutex, or "free"
          stack,     \* thread -> calls it is in, the innermost first
          todo,      \* thread -> what payload() still has to parse
          accessor, calls, answer
PacketParseVars == <<frame, parse_f, mutex, stack, todo, accessor, calls, answer>>

Layers == {"mac", "ip", "ports", "tcp"}
(* How much of each header was captured: "cut" is an IP header without all *)
(* its options; at layer 4 "ports" and "header" are those and no more.     *)
Frames == {x \in [link : {"runt", "other", "ip", "vlan"}, ip : {"runt", "cut", "whole"},
                  proto : {"tcp", "udp", "other"}, l4 : {"runt", "ports", "header", "whole"}] :
             /\ x.link \in {"runt", "other"} => x.ip = "runt"
             /\ x.ip = "runt" => x.proto = "other"
             /\ x.ip # "whole" \/ x.proto = "other" => x.l4 = "runt"}
IsIP == frame.link \in {"ip", "vlan"}

PacketParseInit ==
  /\ frame \in Frames
  /\ parse_f = [pkttype |-> "-", iphdr_ptr |-> "NULL", l4hdr_ptr |-> "NULL", l4payload_ptr |-> "NULL",
                addresses |-> "0", proto |-> "0", ports |-> "0", iphlen |-> "-", tcpflags |-> "-", parsed |-> {}]
  /\ mutex = [l \in Layers |-> "free"]
  /\ stack = [t \in Threads |-> <<>>] /\ todo = [t \in Threads |-> <<>>]
  /\ accessor = [t \in Threads |-> "none"] /\ calls = [t \in Threads |-> 0]
  /\ answer = [t \in Threads |-> <<>>]
-----------------------------------------------------------------------------
(* The statements of the parsers that change fields, in their order. *)
LinkType == CASE frame.link = "runt" -> "RuntL2" [] frame.link = "other" -> "other"
              [] frame.link = "vlan" -> "1q" [] frame.link = "ip" -> "IP4"
WriteMac(n) ==
  CASE n = 1 -> [parse_f EXCEPT !.pkttype = LinkType]
    [] n = 2 -> IF IsIP THEN [parse_f EXCEPT !.pkttype = "IP4", !.iphdr_ptr = "ip"]
                ELSE [parse_f EXCEPT !.parsed = @ \cup {"ip", "ports", "tcp"}]
    [] n = 3 -> [parse_f EXCEPT !.parsed = @ \cup {"mac"}]

(* Mutant of WriteIp: the flag is set before the layer 4 header is found. *)
WriteIpFlagFirst(n) ==
  CASE parse_f.iphdr_ptr = "NULL" -> [parse_f EXCEPT !.parsed = @ \cup {"ip"}]
    [] n = 1 -> IF frame.ip = "runt" THEN parse_f
                ELSE [parse_f EXCEPT !.addresses = "set", !.proto = frame.proto, !.iphlen = "set"]
    [] n = 2 -> [parse_f EXCEPT !.parsed = @ \cup {"ip"}]
    [] n = 3 -> IF frame.ip = "runt" THEN [parse_f EXCEPT !.pkttype = "RuntL3", !.parsed = @ \cup {"ports", "tcp"}]
                ELSE IF frame.ip = "whole" THEN [parse_f EXCEPT !.l4hdr_ptr = "l4"] ELSE parse_f
WriteIp(n) ==
  CASE n = 3 -> [parse_f EXCEPT !.parsed = @ \cup {"ip"}]
    [] parse_f.iphdr_ptr = "NULL" -> parse_f
    [] n = 1 -> IF frame.ip = "runt" THEN parse_f
                ELSE [parse_f EXCEPT !.addresses = "set", !.proto = frame.proto, !.iphlen = "set"]
    [] n = 2 -> IF frame.ip = "runt" THEN [parse_f EXCEPT !.pkttype = "RuntL3", !.parsed = @ \cup {"ports", "tcp"}]
                ELSE IF frame.ip = "whole" THEN [parse_f EXCEPT !.l4hdr_ptr = "l4"] ELSE parse_f

HasPorts == parse_f.l4hdr_ptr # "NULL" /\ parse_f.proto \in {"tcp", "udp"}
WritePorts(n) ==
  CASE n = 3 -> [parse_f EXCEPT !.parsed = @ \cup {"ports"}]
    [] ~HasPorts -> parse_f
    [] n = 1 -> IF frame.l4 = "runt" THEN [parse_f EXCEPT !.pkttype = "RuntL4"] ELSE [parse_f EXCEPT !.ports = "set"]
    [] n = 2 -> IF frame.l4 = "runt" THEN [parse_f EXCEPT !.parsed = @ \cup {"tcp"}]
                ELSE IF parse_f.proto = "udp" /\ frame.l4 # "ports" THEN [parse_f EXCEPT !.l4payload_ptr = "payload"] ELSE parse_f

WriteTcp(n) ==
  CASE n = 3 -> [parse_f EXCEPT !.parsed = @ \cup {"tcp"}]
    [] parse_f.l4hdr_ptr = "NULL" \/ parse_f.proto # "tcp" -> parse_f
    [] n = 1 -> IF frame.l4 \in {"header", "whole"} THEN [parse_f EXCEPT !.ports = "set", !.tcpflags = "set"]
                ELSE [parse_f EXCEPT !.pkttype = "RuntL4"]
    [] n = 2 -> IF frame.l4 = "whole" THEN [parse_f EXCEPT !.l4payload_ptr = "payload"] ELSE parse_f

Write(l, n) == CASE l = "mac" -> WriteMac(n) [] l = "ip" -> WriteIp(n)
                 [] l = "ports" -> WritePorts(n) [] l = "tcp" -> WriteTcp(n)
-----------------------------------------------------------------------------
(* parse_mac, parse_iphdr, parse_ports and parse_tcphdr have one shape.    *)
Below == [ip |-> "mac", ports |-> "ip", tcp |-> "ip"]
Top(t) == stack[t][1]
Go(t, pc) == stack' = [stack EXCEPT ![t][1].pc = pc]
Return(t) == stack' = [stack EXCEPT ![t] = Tail(@)]
Keep == UNCHANGED <<frame, todo, accessor, calls, answer>>

Check(t) ==
  /\ Top(t).pc = "check"
  /\ IF Top(t).layer \in parse_f.parsed THEN Return(t) ELSE Go(t, "lock")
  /\ UNCHANGED <<parse_f, mutex>> /\ Keep

Lock(t) ==
  /\ Top(t).pc = "lock" /\ mutex[Top(t).layer] = "free"
  /\ mutex' = [mutex EXCEPT ![Top(t).layer] = t] /\ Go(t, "recheck")
  /\ UNCHANGED parse_f /\ Keep

Called(l) == [layer |-> l, pc |-> "check"]
(* The parser of the layer below is called with the mutex held. *)
CallBelow(t) ==
  LET l == Top(t).layer
  IN  stack' = [stack EXCEPT ![t] = (IF l = "mac" THEN <<>> ELSE <<Called(Below[l])>>) \o [@ EXCEPT ![1].pc = "w1"]]

(* Mutant of Release: the early return for a runt keeps the mutex. *)
ReleaseNotRunt(t) ==
  mutex' = [mutex EXCEPT ![Top(t).layer] = IF frame.link = "runt" /\ Top(t).pc = "w3" THEN @ ELSE "free"]
Release(t) == mutex' = [mutex EXCEPT ![Top(t).layer] = "free"]
Recheck(t) ==
  /\ Top(t).pc = "recheck"
  /\ IF Top(t).layer \in parse_f.parsed
     THEN Return(t) /\ Release(t)
     ELSE CallBelow(t) /\ UNCHANGED mutex
  /\ UNCHANGED parse_f /\ Keep

Parse(t) ==
  /\ \/ Top(t).pc = "w1" /\ parse_f' = Write(Top(t).layer, 1) /\ Go(t, "w2") /\ UNCHANGED mutex
     \/ Top(t).pc = "w2" /\ parse_f' = Write(Top(t).layer, 2) /\ Go(t, "w3") /\ UNCHANGED mutex
     \/ Top(t).pc = "w3" /\ parse_f' = Write(Top(t).layer, 3) /\ Return(t) /\ Release(t)
  /\ Keep
-----------------------------------------------------------------------------
(* The accessors: the parsers they call; payload() asks for the protocol   *)
(* first and goes on from what it is.                                      *)
Accessors == [l3_protocol |-> <<"mac">>, iphdr |-> <<"mac">>, l4hdr |-> <<"ip">>,
              key |-> <<"ports">>, tcp_flags |-> <<"tcp">>, payload |-> <<"ip", "l4">>]
Asked(a) == CASE a = "l3_protocol" -> parse_f.pkttype [] a = "iphdr" -> parse_f.iphdr_ptr [] a = "l4hdr" -> parse_f.l4hdr_ptr
              [] a = "key" -> <<parse_f.addresses, parse_f.ports, parse_f.proto>>
              [] a = "tcp_flags" -> parse_f.tcpflags [] a = "payload" -> parse_f.l4payload_ptr

Begin(t, a) ==
  /\ accessor[t] = "none" /\ calls[t] < MaxCalls
  /\ accessor' = [accessor EXCEPT ![t] = a] /\ calls' = [calls EXCEPT ![t] = @ + 1]
  /\ stack' = [stack EXCEPT ![t] = <<Called(Head(Accessors[a]))>>]
  /\ todo' = [todo EXCEPT ![t] = Tail(Accessors[a])]
  /\ UNCHANGED <<frame, parse_f, mutex, answer>>

ParsePayload(t) ==
  /\ stack[t] = <<>> /\ todo[t] # <<>>
  /\ stack' = [stack EXCEPT ![t] = <<Called(IF parse_f.proto = "tcp" THEN "tcp" ELSE "ports")>>]
  /\ todo' = [todo EXCEPT ![t] = <<>>]
  /\ UNCHANGED <<frame, parse_f, mutex, accessor, calls, answer>>

Answer(t) ==
  /\ accessor[t] # "none" /\ stack[t] = <<>> /\ todo[t] = <<>>
  /\ answer' = [answer EXCEPT ![t] = <<accessor[t], Asked(accessor[t])>>]
  /\ accessor' = [accessor EXCEPT ![t] = "none"]
  /\ UNCHANGED <<frame, parse_f, mutex, stack, todo, calls>>

PacketParseNext == \E t \in Threads :
  \/ \E a \in DOMAIN Accessors : Begin(t, a)
  \/ ParsePayload(t) \/ Answer(t)
  \/ stack[t] # <<>> /\ (Check(t) \/ Lock(t) \/ Recheck(t) \/ Parse(t))
-----------------------------------------------------------------------------
(* What an accessor is to say of a frame, from the frame alone. *)
IPSeen == IsIP /\ frame.ip # "runt"
L4Seen == IPSeen /\ frame.ip = "whole"
Payload == L4Seen /\ <<frame.proto, frame.l4>> \in {<<"tcp", "whole">>, <<"udp", "header">>, <<"udp", "whole">>}
When(p, v, w) == IF p THEN v ELSE w
Expected(a) ==
  CASE a = "l3_protocol" -> IF IsIP THEN {"IP4", "RuntL3", "RuntL4"} ELSE {LinkType}
    [] a = "iphdr" -> {When(IsIP, "ip", "NULL")}
    [] a = "l4hdr" -> {When(L4Seen, "l4", "NULL")}
    [] a = "key" -> {<<When(IPSeen, "set", "0"), When(L4Seen /\ frame.l4 # "runt", "set", "0"), When(IPSeen, frame.proto, "0")>>}
    [] a = "tcp_flags" -> {When(L4Seen /\ frame.proto = "tcp" /\ frame.l4 \in {"header", "whole"}, "set", "-")}
    [] a = "payload" -> {When(Payload, "payload", "NULL")}

(* Every accessor answers from the frame alone: not from which accessors   *)
(* were called before it, nor from how far the other thread has come with  *)
(* the same packet.  Only l3_protocol() may learn that a packet is a runt. *)
AnswersFromTheFrame ==
  \A t \in Threads : answer[t] # <<>> => answer[t][2] \in Expected(answer[t][1])

(* No thread waits for a mutex whose holder is itself waiting or gone. *)
Waits(t) == stack[t] # <<>> /\ Top(t).pc = "lock" /\ mutex[Top(t).layer] # "free"
ParsersDontBlock ==
  \A t \in Threads : Waits(t) =>
     LET holder == mutex[Top(t).layer] IN stack[holder] # <<>> /\ ~Waits(holder)

-----------------------------------------------------------------------------
(***************************************************************************)
(* NewPacket (messages/NewPacket.hpp) and the dissector under it           *)
(* (core/dissectors).  A simple packet finds its headers in the frame when *)
(* they are asked for; a sliced packet has them copied, each to the array  *)
(* of its type, where slots of the fixed size of the header lie side by    *)
(* side.  Sizes are the real ones.  A byte of a frame is <<packet, offset>>*)
(* and a frame is what its fields say: a header it announces may be cut    *)
(* short, and a size field that was not captured has any value.            *)
(***************************************************************************)
CONSTANTS NewFrames,   \* [ether, proto, ip, tcp, raw]: types, header sizes, captured bytes
          PayloadSize, \* net::payload::size_of
          MaxPackets

VARIABLES packets,     \* the frames received, in slots 1, 2, ...
          mem,         \* header -> array: byte -> a byte of a frame
          sliced,      \* packet -> the slice of a sliced packet
          simple,      \* the slice of a simple packet with the last frame
          flow_key,    \* its key: the fields that were set
          keys         \* what key() gave for it
NewPacketVars == <<packets, mem, sliced, simple, flow_key, keys>>

Undefined == -1    \* undefinedptr
Null == -2
Headers == {"ethernet", "ipv4", "tcp", "udp", "icmp"}
All == Headers \cup {"payload"}
Fixed == [ethernet |-> 14, ipv4 |-> 20, tcp |-> 20, udp |-> 8, icmp |-> 8, payload |-> PayloadSize]

size_of(f, h) == CASE h = "ethernet" -> IF f.ether = "vlan" THEN 18 ELSE 14
                   [] h = "ipv4" -> f.ip
                   [] h = "tcp" -> f.tcp
                   [] OTHER -> 8
proto(f, h) == CASE h = "ethernet" -> f.ether [] h = "ipv4" -> f.proto [] OTHER -> "0"
(* header_traits: the parents, in order, and the protocol number they must *)
(* have; 0 is any.                                                         *)
Parents == [ethernet |-> <<>>, ipv4 |-> <<"ethernet">>, tcp |-> <<"ipv4">>, udp |-> <<"ipv4">>,
            icmp |-> <<"ipv4">>, payload |-> <<"udp", "tcp", "icmp", "ipv4", "ethernet">>]
(* Mutant of Wanted: an ICMP header is found in every IP packet. *)
WantedOf(h) == CASE h = "ipv4" -> "ip" [] h \in {"tcp", "udp"} -> h [] OTHER -> "0"
Wanted(h) == CASE h = "ipv4" -> "ip" [] h \in {"tcp", "udp", "icmp"} -> h [] OTHER -> "0"

RECURSIVE get_header(_, _, _), get_parent(_, _, _, _)
(* The slice with the parents of h looked for from number n on, and the    *)
(* first that fits.                                                        *)
get_parent(s, f, h, n) ==
  IF n > Len(Parents[h]) THEN [slice |-> s, parent |-> "none"]
  ELSE LET p == Parents[h][n]
           s2 == get_header(s, f, p)
       IN  IF s2[p] # Null /\ Wanted(h) \in {"0", proto(f, p)} THEN [slice |-> s2, parent |-> p]
           ELSE get_parent(s2, f, h, n + 1)
get_header(s, f, h) ==
  IF s[h] # Undefined THEN s
  ELSE LET r == get_parent(s, f, h, 1)
       IN  [r.slice EXCEPT ![h] = IF r.parent = "none" THEN Null ELSE r.slice[r.parent] + size_of(f, r.parent)]

Unparsed == [h \in All |-> IF h = "ethernet" THEN 0 ELSE Undefined]

NewPacketInit ==
  /\ packets = <<>> /\ mem = [h \in All |-> <<>>] /\ sliced = <<>>
  /\ simple = Unparsed /\ flow_key = {} /\ keys = {}
-----------------------------------------------------------------------------
(* One header of SlicedPacket: st is what is left of the frame, the parser *)
(* and for each header whether it is NULL, or was copied (its offset), or  *)
(* keeps its slot although nothing was copied.                             *)
(* Mutant of Take: what is left is not reduced by an incomplete header. *)
TakeShort(st, f, h) ==
  LET p == get_header(st.parser, f, h)
  IN  IF st.len = 0 \/ p[h] = Null THEN [st EXCEPT !.at[h] = Null]
      ELSE IF st.len >= size_of(f, h)
           THEN [len |-> st.len - size_of(f, h), parser |-> p, at |-> [st.at EXCEPT ![h] = p[h]]]
           ELSE [len |-> st.len, parser |-> p, at |-> st.at]
Take(st, f, h) ==
  LET p == get_header(st.parser, f, h)
  IN  IF st.len = 0 \/ p[h] = Null THEN [st EXCEPT !.at[h] = Null]
      ELSE IF st.len >= size_of(f, h)
           THEN [len |-> st.len - size_of(f, h), parser |-> p, at |-> [st.at EXCEPT ![h] = p[h]]]
           ELSE [len |-> 0, parser |-> p, at |-> st.at]
TakePayload(st, f) ==
  LET p == get_header(st.parser, f, "payload")
  IN  [st EXCEPT !.at["payload"] = IF st.len > 0 THEN p["payload"] ELSE Null]
Slices(f) ==
  LET st0 == [len |-> Min({PayloadSize, f.raw}), parser |-> Unparsed, at |-> [h \in All |-> Undefined]]
      st1 == Take(Take(st0, f, "ethernet"), f, "ipv4")
      st2 == Take(st1, f, "tcp")
      st3 == IF st2.at["tcp"] # Null THEN st2 ELSE Take(st2, f, "udp")
      st4 == IF st2.at["tcp"] # Null \/ st3.at["udp"] # Null THEN st3 ELSE Take(st3, f, "icmp")
  IN  TakePayload(st4, f)

(* Mutant of Slot: the slots are handed out from the end of the array. *)
SlotDown(h, k) == (MaxPackets - k) * Fixed[h]
Slot(h, k) == (k - 1) * Fixed[h]
Copied(f, st, h) == IF st.at[h] \notin Nat THEN 0 ELSE IF h = "payload" THEN st.len ELSE size_of(f, h)

NewWrite(k, f, st) ==
  [h \in All |->
    LET into == Slot(h, k)..(Slot(h, k) + Copied(f, st, h) - 1)
    IN  [b \in (DOMAIN mem[h]) \cup into |-> IF b \in into THEN <<k, st.at[h] + b - Slot(h, k)>> ELSE mem[h][b]]]

Receive(f) ==
  LET st == Slices(f)
  IN  /\ Len(packets) < MaxPackets
      /\ packets' = Append(packets, f) /\ sliced' = Append(sliced, st)
      /\ mem' = NewWrite(Len(packets) + 1, f, st)
      /\ simple' = Unparsed /\ flow_key' = {} /\ keys' = {}
-----------------------------------------------------------------------------
Last_ == packets[Len(packets)]
(* Any accessor of a simple packet. *)
Ask(h) ==
  /\ packets # <<>> /\ simple' = get_header(simple, Last_, h) /\ simple' # simple
  /\ UNCHANGED <<packets, mem, sliced, flow_key, keys>>

(* key(): the addresses are set before src_port throws. *)
Ports(f) == f.ether = "ip" /\ f.proto \in {"tcp", "udp"}
(* Mutant of key: the protocol is not set. *)
key_no_proto ==
  /\ packets # <<>> /\ Last_.ether = "ip"
  /\ flow_key' = IF "addresses" \in flow_key THEN flow_key
                 ELSE IF Ports(Last_) THEN {"addresses", "ports"} ELSE {"addresses"}
  /\ keys' = keys \cup {flow_key'} /\ simple' = simple
  /\ UNCHANGED <<packets, mem, sliced>>
key ==
  /\ packets # <<>> /\ Last_.ether = "ip"
  /\ flow_key' = IF "addresses" \in flow_key THEN flow_key
                 ELSE IF Ports(Last_) THEN {"addresses", "ports", "proto"} ELSE {"addresses"}
  /\ keys' = IF "addresses" \in flow_key \/ Ports(Last_) THEN keys \cup {flow_key'} ELSE keys
  /\ simple' = LET s == get_header(simple, Last_, "ipv4") IN IF Ports(Last_) THEN get_header(s, Last_, Last_.proto) ELSE s
  /\ UNCHANGED <<packets, mem, sliced>>

NewPacketNext == (\E f \in NewFrames : Receive(f)) \/ (\E h \in All : Ask(h)) \/ key
-----------------------------------------------------------------------------
(* What a frame contains: its headers and where they begin. *)
Holds(f) ==
  {"ethernet"} \cup (IF f.ether = "ip" THEN {"ipv4"} \cup ({"tcp", "udp", "icmp"} \cap {f.proto}) ELSE {})
Offset(f, h) == CASE h = "ethernet" -> 0
                  [] h = "ipv4" -> size_of(f, "ethernet")
                  [] h = "payload" -> size_of(f, "ethernet")
                       + (IF "ipv4" \in Holds(f) THEN f.ip ELSE 0)
                       + (IF f.proto \in Holds(f) THEN size_of(f, f.proto) ELSE 0)
                  [] OTHER -> size_of(f, "ethernet") + f.ip
Captured(f) == Min({PayloadSize, f.raw})
Complete(f) == Offset(f, "payload") < Captured(f)

(* A simple packet finds the headers its frame has, where they are, in     *)
(* whatever order they are asked for, and no others.                       *)
SimpleFindsHeaders ==
  \A h \in All : packets # <<>> /\ simple[h] # Undefined =>
     simple[h] = IF h \in Holds(Last_) \cup {"payload"} THEN Offset(Last_, h) ELSE Null

(* The fixed parts of the headers of a sliced packet, and its payload, are *)
(* those of its frame as long as it lives: options run over into slots of  *)
(* packets still to come and never into those of earlier ones.             *)
SlicedKeepsHeaders ==
  \A k \in DOMAIN packets : Complete(packets[k]) =>
     LET f == packets[k]
     IN  /\ \A h \in Holds(f), b \in 0..19 :
              b < Min({Fixed[h], size_of(f, h)}) => mem[h][Slot(h, k) + b] = <<k, Offset(f, h) + b>>
         /\ \A b \in 0..(Captured(f) - Offset(f, "payload") - 1) :
              mem["payload"][Slot("payload", k) + b] = <<k, Offset(f, "payload") + b>>
         /\ \A h \in All : sliced[k].at[h] \in Nat <=> h \in Holds(f) \cup {"payload"}

(* Only captured bytes are copied, also of frames that end in the middle   *)
(* of a header.                                                            *)
CopiesAreCaptured ==
  \A h \in All : \A b \in DOMAIN mem[h] : mem[h][b][2] < packets[mem[h][b][1]].raw

(* A key that key() gives for a TCP or UDP packet has all its fields. *)
KeysAreComplete ==
  packets # <<>> /\ Ports(Last_) => keys \subseteq {{"addresses", "ports", "proto"}}

-----------------------------------------------------------------------------
(***************************************************************************)
(* DNSPacket: a packet whose payload is parsed as a DNS message: header,   *)
(* questions, answers.  Names are sequences of labels, may end in a link   *)
(* to an earlier name, and are read recursively.                           *)
(*                                                                         *)
(* Messages arrive encoded as bytes by the encoder of the other side,      *)
(* Encode, with or without name compression.  The parser is run on the     *)
(* bytes, one record per step.                                             *)
(***************************************************************************)
CONSTANTS
  Names,        \* the names asked for: sequences of labels
  Prefix,       \* bytes of the packet before its payload
  MaxAnswers,   \* bound on the answers of a message
  AnswerTypes   \* the record types of the answers

VARIABLES
  msg,       \* the message, as its sender meant it
  m_buffer,  \* the packet
  dns_pc,    \* the part parse_dns is in
  size,      \* bytes of this part consumed: q_size, a_size
  base,      \* where this part begins: q_offset, a_offset
  header,    \* transaction_id and the two counts
  queries, a_recs, c_names

DnsPacketVars == <<msg, m_buffer, dns_pc, size, base, header, queries, a_recs, c_names>>

-----------------------------------------------------------------------------
(* The encoder of the other side.                                          *)
U16(n) == <<n \div 256, n % 256>>
U32(n) == <<0, 0>> \o U16(n)
Labels(name) == FlattenSeq([i \in DOMAIN name |-> <<Len(name[i])>> \o name[i]])
Link(offset) == <<192 + offset \div 256, offset % 256>>

\* The bytes of a name of an answer; the first question is at offset 12
NameBytes(how, name) ==
  CASE how = "plain" -> Labels(name) \o <<0>>
    [] how = "link" -> Link(12)
    [] how = "mixed" -> Labels(<<Head(name)>>) \o Link(12)

Rdata(a) == IF a.type = 1 THEN U32(a.ip) ELSE NameBytes(a.chow, a.cname)

AnswerBytes(a) ==
  NameBytes(a.how, a.name) \o U16(a.type) \o U16(1) \o U32(a.ttl)
    \o U16(Len(Rdata(a))) \o Rdata(a)

Encode(m) ==
  U16(m.id) \o <<1, 0>> \o U16(Len(m.questions)) \o U16(Len(m.answers)) \o U16(0) \o U16(0)
    \o FlattenSeq([i \in DOMAIN m.questions |->
         Labels(m.questions[i]) \o <<0>> \o U16(1) \o U16(1)])
    \o FlattenSeq([i \in DOMAIN m.answers |-> AnswerBytes(m.answers[i])])

Letter == 97
Forms(q) == {<<"plain", q>>, <<"link", q>>, <<"mixed", <<<<Letter>>>> \o q>>}
Answers(q) ==
  {[how |-> f[1], name |-> f[2], type |-> t, ttl |-> 60, ip |-> 7,
    chow |-> g[1], cname |-> g[2]] : f \in Forms(q), g \in Forms(q), t \in AnswerTypes}

Messages ==
  UNION {{[id |-> 258, questions |-> <<q>>, answers |-> s] :
            s \in UNION {[1..n -> Answers(q)] : n \in 0..MaxAnswers}} : q \in Names}
-----------------------------------------------------------------------------
Byte(p) == m_buffer[p + 1]
load_BE_u16(p) == Byte(p) * 256 + Byte(p + 1)
load_BE_u32(p) == load_BE_u16(p) * 65536 + load_BE_u16(p + 2)
dns_offset == Len(Prefix) % 256

\* Where a link leads: links count from the start of the message
FromMessage(jump) == dns_offset + jump

\* Mutant: links count from the start of the packet.
FromPacket(jump) == jump

LinkTarget(jump) == FromMessage(jump)

\* read_dns_name: the labels at data, up to a zero byte or a link, which is
\* followed from the start of the message
RECURSIVE read_dns_name(_)
read_dns_name(data) ==
  LET RECURSIVE scan(_, _)
      scan(i, name) ==
        LET j == Byte(data + i)
        IN  IF j = 0 THEN [name |-> name, consumed |-> i + 1]
            ELSE IF j >= 192
            THEN [name |-> name \o read_dns_name(LinkTarget(load_BE_u16(data + i) % 16384)).name,
                  consumed |-> i + 2]
            ELSE scan(i + 1 + j, Append(name, SubSeq(m_buffer, data + i + 2, data + i + 1 + j)))
  IN  scan(0, <<>>)

\* A packet arrives and its header is parsed
DnsReceive(m) ==
  /\ dns_pc = "idle"
  /\ msg' = m
  /\ m_buffer' = Prefix \o Encode(m)
  /\ dns_pc' = "header"
  /\ UNCHANGED <<size, base, header, queries, a_recs, c_names>>

ParseHeader ==
  /\ dns_pc = "header"
  /\ header' = [transaction_id |-> load_BE_u16(dns_offset),
                n_questions |-> load_BE_u16(dns_offset + 4),
                n_answer |-> load_BE_u16(dns_offset + 6)]
  /\ base' = dns_offset + 12
  /\ size' = 0
  /\ dns_pc' = "questions"
  /\ UNCHANGED <<msg, m_buffer, queries, a_recs, c_names>>

\* One turn of the loop over the questions
ParseQuestion ==
  /\ dns_pc = "questions" /\ Len(queries) < header.n_questions
  /\ LET n == read_dns_name(base + size)
         p == base + size + n.consumed
     IN  /\ queries' = Append(queries, [qname |-> n.name, rtype |-> load_BE_u16(p),
                                        dclass |-> load_BE_u16(p + 2)])
         /\ size' = size + n.consumed + 4
  /\ UNCHANGED <<msg, m_buffer, dns_pc, base, header, a_recs, c_names>>

QuestionsDone ==
  /\ dns_pc = "questions" /\ Len(queries) = header.n_questions
  /\ base' = base + size
  /\ size' = 0
  /\ dns_pc' = "answers"
  /\ UNCHANGED <<msg, m_buffer, header, queries, a_recs, c_names>>

Parsed == Len(a_recs) + Len(c_names)

\* One turn of the loop over the answers.  The length of the record's data
\* is not read; a record of an unknown type has none for the parser, so what
\* follows such a record is not modelled.
ParseAnswer ==
  /\ dns_pc = "answers" /\ Parsed < header.n_answer
  /\ LET n == read_dns_name(base + size)
         p == base + size + n.consumed
         type == load_BE_u16(p)
         ttl == load_BE_u32(p + 4)
         c == read_dns_name(p + 10)
     IN  \/ /\ type = 1
            /\ a_recs' = Append(a_recs, [qname |-> n.name, ttl |-> ttl,
                                         ip_addr |-> load_BE_u32(p + 10)])
            /\ size' = size + n.consumed + 14
            /\ UNCHANGED <<c_names, dns_pc>>
         \/ /\ type = 5
            /\ c_names' = Append(c_names, [qname |-> n.name, ttl |-> ttl, cname |-> c.name])
            /\ size' = size + n.consumed + 10 + c.consumed
            /\ UNCHANGED <<a_recs, dns_pc>>
         \/ /\ type \notin {1, 5}
            /\ dns_pc' = "misread"
            /\ UNCHANGED <<a_recs, c_names, size>>
  /\ UNCHANGED <<msg, m_buffer, base, header, queries>>

AnswersDone ==
  /\ dns_pc = "answers" /\ Parsed = header.n_answer
  /\ dns_pc' = "done"
  /\ UNCHANGED <<msg, m_buffer, size, base, header, queries, a_recs, c_names>>

DnsPacketInit ==
  /\ msg = [id |-> 0, questions |-> <<>>, answers |-> <<>>]
  /\ m_buffer = <<>> /\ dns_pc = "idle" /\ size = 0 /\ base = 0
  /\ header = [transaction_id |-> 0, n_questions |-> 0, n_answer |-> 0]
  /\ queries = <<>> /\ a_recs = <<>> /\ c_names = <<>>

DnsPacketNext ==
  \/ dns_pc = "idle" /\ \E m \in Messages : DnsReceive(m)
  \/ ParseHeader
  \/ ParseQuestion
  \/ QuestionsDone
  \/ ParseAnswer
  \/ AnswersDone

DnsPacketSpec == DnsPacketInit /\ [][DnsPacketNext]_DnsPacketVars
-----------------------------------------------------------------------------
OfType(t) == SelectSeq(msg.answers, LAMBDA a : a.type = t)

(***************************************************************************)
(* A message of address and canonical name records is parsed into what its *)
(* sender meant: the names of questions and answers, however they were     *)
(* compressed, in order and with their data.                               *)
(***************************************************************************)
ParsedAsSent ==
  dns_pc = "done" =>
        /\ [i \in DOMAIN queries |-> queries[i].qname] = msg.questions
        /\ a_recs = [i \in DOMAIN OfType(1) |->
             [qname |-> OfType(1)[i].name, ttl |-> OfType(1)[i].ttl, ip_addr |-> OfType(1)[i].ip]]
        /\ c_names = [i \in DOMAIN OfType(5) |->
             [qname |-> OfType(5)[i].name, ttl |-> OfType(5)[i].ttl, cname |-> OfType(5)[i].cname]]
=============================================================================
