----------------------------- MODULE Anonymizer ------------------------------
(***************************************************************************)
(* One packet object, several readers: a source delivers packets and flows *)
(* to IPDumbAnonymizer, PacketPrinter, FlowPrinter and                     *)
(* PacketOrFlowToObservation, which run in threads of their own and get    *)
(* the same object.  The anonymizer overwrites addresses, in a clone, and  *)
(* sends that on to a second printer and a second observer.  A packet      *)
(* keeps the addresses it parsed once.  An address has two octets, not     *)
(* four, the first of which is the most significant one.                   *)
(***************************************************************************)
EXTENDS Integers, Sequences, SequencesExt

CONSTANTS Addresses,   \* of the captured packets, pairs of octets
          Times,       \* of flows, in microseconds
          IntWidth,    \* 2^32 in the code: the values of an int
          MaxMsgs

VARIABLES anon,        \* whether it is configured, anon_src and anon_dst
          heap,        \* the message objects; a reference is an index
          origin,      \* object -> the message the source made
          queue,       \* block -> references waiting for it
          lines,       \* what the printers and observers made of them
          crashed      \* the process is gone
vars == <<anon, heap, origin, queue, lines, crashed>>

Readers == {"print", "flows", "observe"}
Downstream == {"print2", "observe2"}
Blocks == Readers \cup Downstream \cup {"anonymize"}

Packets == [type : {"packet"}, ip : {TRUE}, proto : {"udp", "tcp", "icmp"}, src : Addresses, dst : Addresses]
             \cup [type : {"packet"}, ip : {FALSE}, proto : {"none"}, src : {<<0, 0>>}, dst : {<<0, 0>>}]
Flows == [type : {"flow"}, src : Addresses, dst : Addresses, start : Times, end : Times]
Messages == Packets \cup {f \in Flows : f.start <= f.end /\ f.src = f.dst}

Unparsed == [done |-> FALSE, src |-> <<0, 0>>, dst |-> <<0, 0>>]
Object(m) == [msg |-> m, parsed |-> Unparsed]

Init ==
  /\ anon = [state |-> "unset", src |-> FALSE, dst |-> FALSE]
  /\ heap = <<>> /\ origin = <<>> /\ queue = [b \in Blocks |-> <<>>]
  /\ lines = {} /\ crashed = FALSE
-----------------------------------------------------------------------------
(* Both attributes must be there; anything but "True" means no. *)
_configure(src, dst) ==
  /\ anon.state = "unset"
  /\ anon' = IF src = "" \/ dst = "" THEN [anon EXCEPT !.state = "refused"]
             ELSE [state |-> "ready", src |-> src = "True", dst |-> dst = "True"]
  /\ UNCHANGED <<heap, origin, queue, lines, crashed>>

Made == Len(SelectSeq(origin, LAMBDA x : ~x.cloned))
Deliver(m) ==
  /\ anon.state = "ready"
  /\ heap' = Append(heap, Object(m))
  /\ origin' = Append(origin, [msg |-> m, cloned |-> FALSE])
  /\ queue' = [b \in Blocks |-> IF b \in Downstream THEN queue[b] ELSE Append(queue[b], Len(heap) + 1)]
  /\ UNCHANGED <<anon, lines, crashed>>
-----------------------------------------------------------------------------
(* parse_mac and parse_iphdr leave the addresses of a packet that is not IP *)
(* at zero; what was parsed once is not parsed again.                      *)
parse_iphdr(o) ==
  IF o.parsed.done THEN o
  ELSE [o EXCEPT !.parsed = [done |-> TRUE, src |-> o.msg.src, dst |-> o.msg.dst]]

(* Mutant of clone: the parsed fields are copied with the buffer. *)
cloneCached(o) == o
clone(o) == Object(o.msg)

(* The cipher of PAnonymizer, a permutation of the addresses. *)
anonymize(raw) == <<100 + raw, 200 + raw>>

(* The loop assigns where it should add: the first octet is all that is    *)
(* left of the address.                                                    *)
anonBuf(a) == anonymize(a[1])

Rewritten(m) == [m EXCEPT !.src = IF anon.src THEN anonBuf(@) ELSE @,
                          !.dst = IF anon.dst THEN anonBuf(@) ELSE @]

(* Mutant of Replaced: the addresses are overwritten in the packet that    *)
(* the other blocks hold too.                                              *)
ReplacedInPlace(i) == LET o == [heap[i] EXCEPT !.msg = Rewritten(@)]
                      IN  Append([heap EXCEPT ![i] = o], o)
Replaced(i) == Append(heap, [clone(heap[i]) EXCEPT !.msg = Rewritten(@)])

Pop(b) == /\ ~crashed /\ queue[b] # <<>>
          /\ queue' = [queue EXCEPT ![b] = Tail(@)]

(* A message of another type throws, and the pool swallows the exception.  *)
(* iphdr() is NULL for a packet that is not IP.                            *)
Anonymize ==
  /\ ~crashed /\ queue["anonymize"] # <<>>
  /\ LET i == Head(queue["anonymize"])
     IN  \/ /\ heap[i].msg.type # "packet" /\ Pop("anonymize")
            /\ UNCHANGED <<heap, origin, crashed>>
         \/ /\ heap[i].msg.type = "packet" /\ ~heap[i].msg.ip /\ (anon.src \/ anon.dst)
            /\ crashed' = TRUE
            /\ UNCHANGED <<heap, origin, queue>>
         \/ /\ heap[i].msg.type = "packet" /\ (heap[i].msg.ip \/ ~(anon.src \/ anon.dst))
            /\ heap' = Replaced(i)
            /\ origin' = Append(origin, [origin[i] EXCEPT !.cloned = TRUE])
            /\ queue' = [b \in Blocks |-> CASE b \in Downstream -> Append(queue[b], Len(heap) + 1)
                                            [] b = "anonymize" -> Tail(queue[b])
                                            [] OTHER -> queue[b]]
            /\ UNCHANGED crashed
  /\ UNCHANGED <<anon, lines>>
-----------------------------------------------------------------------------
(* The address is printed from its most significant octet: inet_ntop wants *)
(* network order and the printers give it that, the observer does not.     *)
ip_to_string(a) == a
inet_ntop(a) == Reverse(a)
ToInt(n) == ((n + IntWidth \div 2) % IntWidth) - IntWidth \div 2

PacketText(o) ==
  IF ~o.msg.ip THEN <<"layer 3">>
  ELSE <<ip_to_string(o.parsed.src), ip_to_string(o.parsed.dst), o.msg.proto>>
FlowText(m) == <<m.start, m.end, ToInt(m.end - m.start), ip_to_string(m.src), ip_to_string(m.dst)>>

proto_label(m) == CASE m.proto = "udp" -> "UDP" [] m.proto = "tcp" -> "TCP:" [] OTHER -> "???"

Label(o) == IF o.msg.type = "packet"
            THEN <<inet_ntop(o.parsed.src), inet_ntop(o.parsed.dst), proto_label(o.msg)>>
            ELSE <<inet_ntop(o.msg.src), inet_ntop(o.msg.dst)>>

Line(b, i, text) == [block |-> b, object |-> i, text |-> text]

(* What a reader leaves of the object, and what it says of it. *)
Read(b, i, object, said) ==
  /\ Pop(b)
  /\ heap' = [heap EXCEPT ![i] = object]
  /\ lines' = lines \cup said
  /\ UNCHANGED <<anon, origin, crashed>>

PacketPrinter(b) ==
  /\ queue[b] # <<>>
  /\ LET i == Head(queue[b])
         o == IF heap[i].msg.type = "packet" /\ heap[i].msg.ip THEN parse_iphdr(heap[i]) ELSE heap[i]
     IN  Read(b, i, o, IF o.msg.type = "packet" THEN {Line(b, i, PacketText(o))} ELSE {})

FlowPrinter(b) ==
  /\ queue[b] # <<>>
  /\ LET i == Head(queue[b])
     IN  Read(b, i, heap[i], IF heap[i].msg.type = "flow" THEN {Line(b, i, FlowText(heap[i].msg))} ELSE {})

Observer(b) ==
  /\ queue[b] # <<>>
  /\ LET i == Head(queue[b])
         o == IF heap[i].msg.type = "packet" THEN parse_iphdr(heap[i]) ELSE heap[i]
     IN  Read(b, i, o, {Line(b, i, Label(o))})

Next ==
  \/ \E src, dst \in {"True", "False", ""} : _configure(src, dst)
  \/ (~crashed /\ Made < MaxMsgs) /\ \E m \in Messages : Deliver(m)
  \/ Anonymize
  \/ \E b \in {"print", "print2"} : PacketPrinter(b)
  \/ FlowPrinter("flows")
  \/ \E b \in {"observe", "observe2"} : Observer(b)
-----------------------------------------------------------------------------
(* The two addresses a line gives, most significant octet first. *)
Named(l) == CASE l.block \in {"observe", "observe2"} -> <<Reverse(l.text[1]), Reverse(l.text[2])>>
              [] l.block = "flows" -> <<l.text[4], l.text[5]>>
              [] OTHER -> <<l.text[1], l.text[2]>>
HasAddresses(l) == l.text # <<"layer 3">>

(* Whoever holds a packet of the source reads the addresses that were      *)
(* captured, before and after the anonymizer, in another thread, has dealt *)
(* with the same packet.                                                   *)
OthersReadTheCaptured ==
  \A l \in lines : l.block \in Readers /\ HasAddresses(l) =>
    Named(l) = <<origin[l.object].msg.src, origin[l.object].msg.dst>>

(* Behind the anonymizer a block reads the pseudonym of an address that is *)
(* to be hidden and the address itself where it is not, also when another  *)
(* block had the packet parse its addresses before the clone was made.     *)
HiddenDownstream ==
  \A l \in lines : l.block \in Downstream /\ HasAddresses(l) =>
    LET m == origin[l.object].msg
    IN  Named(l) = <<IF anon.src THEN anonymize(m.src[1]) ELSE m.src,
                     IF anon.dst THEN anonymize(m.dst[1]) ELSE m.dst>>
=============================================================================
