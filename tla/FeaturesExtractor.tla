-------------------------- MODULE FeaturesExtractor --------------------------
(***************************************************************************)
(* The first block of the anomaly detector                                 *)
(* (usr/app_Stat_AD/blocks/FeaturesExtractor.cpp).  It turns packets into  *)
(* tickets: what a client did, by feature, and a signalling ticket when a  *)
(* minute is over.  TCP flags are a set of names instead of a byte, a      *)
(* feature ID is the tuple its string is built from, time is in minutes.   *)
(***************************************************************************)
EXTENDS Integers, Sequences, SequencesExt

CONSTANTS Configs,     \* lists of feature nodes, as the XML gives them
          Packets,     \* packets that may arrive
          MaxPackets   \* packets of a behaviour

VARIABLES m_direction, config, groups, m_current_minute, in, out
vars == <<m_direction, config, groups, m_current_minute, in, out>>

AllButHttp == 65535
TicketMsg(time, user, features) == [time |-> time, user |-> user, features |-> features]
Dummy(minute) == TicketMsg(minute, 0, {})
-----------------------------------------------------------------------------
Combinations == {{}, {"FIN"}, {"SYN"}, {"RST"}, {"PSH"}, {"ACK"}, {"FIN", "ACK"}, {"SYN", "ACK"},
                 {"RST", "ACK"}, {"PSH", "ACK"}, {"PSH", "FIN", "ACK"}}
(* A name that is not one of the eleven leaves the byte 0. *)
parse_feature_flags(node) == IF node.flags \in Combinations THEN node.flags ELSE {}
parse_feature_port(node) == node.port
(* An unknown protocol leaves what the constructor wrote. *)
parse_feature_layer4_prot(node) == IF node.prot \in {"TCP", "UDP"} THEN node.prot ELSE "none"
(* The byte starts as PACKETS_ACTIVE: "packets" cannot be switched off. *)
parse_feature_mode(node, direction) ==
  {"packets"} \cup (node.modes \cap ({"bytes"} \cup IF direction = "UL" THEN {"srvPorts", "srvIPs"} ELSE {}))

(* The loop looks the node up by its name: of two nodes with one name it   *)
(* reads the first one twice.                                              *)
_configure(nodes, direction) ==
  [i \in 1..Len(nodes) |->
     LET node == nodes[SelectInSeq(nodes, LAMBDA n : n.name = nodes[i].name)]
         prot == parse_feature_layer4_prot(node)
     IN  [port |-> parse_feature_port(node), modes |-> parse_feature_mode(node, direction),
          prot |-> prot, flags |-> IF prot = "TCP" THEN parse_feature_flags(node) ELSE {}]]

featID_to_string(direction, flags, mode, port) == <<direction, flags, mode, port>>

(* The flags tested by the branch that the nested conditionals reach. *)
TestedFlags(flags) ==
  LET lead == SelectSeq(<<"PSH", "RST", "SYN", "FIN", "ACK">>, LAMBDA f : f \in flags)[1]
  IN  {lead} \cup (flags \cap {"ACK"})
             \cup IF {"PSH", "ACK"} \subseteq flags THEN flags \cap {"FIN"} ELSE {}
(* Mutant of generate_feature_ID: the ACK of a packet is not looked at. *)
generate_feature_ID_NoAck(packet, direction, g, mode) ==
  IF g.prot = "UDP" THEN {featID_to_string(direction, "UDP", mode, g.port)}
  ELSE IF g.flags = {} THEN {featID_to_string(direction, "TCP", mode, g.port)}
  ELSE IF TestedFlags(g.flags) \ {"ACK"} \subseteq packet.flags
       THEN {featID_to_string(direction, TestedFlags(g.flags), mode, g.port)} ELSE {}
(* The ID, or nothing when the packet has not the flags. *)
generate_feature_ID(packet, direction, g, mode) ==
  IF g.prot = "UDP" THEN {featID_to_string(direction, "UDP", mode, g.port)}
  ELSE IF g.flags = {} THEN {featID_to_string(direction, "TCP", mode, g.port)}
  ELSE IF TestedFlags(g.flags) \subseteq packet.flags
       THEN {featID_to_string(direction, TestedFlags(g.flags), mode, g.port)} ELSE {}
-----------------------------------------------------------------------------
ClientIP(p)   == IF m_direction = "UL" THEN p.src ELSE p.dst
ServerIP(p)   == IF m_direction = "UL" THEN p.dst ELSE p.src
ServerPort(p) == IF m_direction = "UL" THEN p.dport ELSE p.sport

Value(p, mode) == CASE mode = "packets" -> 1 [] mode = "bytes" -> p.len
                    [] mode = "srvPorts" -> ServerPort(p) [] mode = "srvIPs" -> ServerIP(p)

PortMatches(g, p) == \/ g.port # AllButHttp /\ g.port = ServerPort(p)
                     \/ g.port = AllButHttp /\ ServerPort(p) # 80

(* Two groups with one ID give one pair: add_feature inserts into a map. *)
Features(p) ==
  UNION { {<<id, Value(p, mode)>> : id \in generate_feature_ID(p, m_direction, groups[i], mode)} :
          <<i, mode>> \in {<<i, mode>> \in (DOMAIN groups) \X {"packets", "bytes", "srvPorts", "srvIPs"} :
                             /\ groups[i].prot = p.prot
                             /\ PortMatches(groups[i], p)
                             /\ mode \in groups[i].modes} }

Init ==
  /\ m_direction \in {"UL", "DL"}
  /\ config \in Configs
  /\ groups = _configure(config, m_direction)
  /\ m_current_minute = 0
  /\ in = <<>>
  /\ out = <<>>

(* Mutant of MinuteIsOver: a packet of an earlier minute signals too. *)
MinuteChanges(p) == p.minute # m_current_minute
MinuteIsOver(p) == p.minute > m_current_minute

_receive_msg(p) ==
  /\ Len(in) < MaxPackets
  /\ in' = Append(in, p)
  /\ m_current_minute' = IF MinuteIsOver(p) THEN p.minute ELSE m_current_minute
  /\ out' = out \o (IF MinuteIsOver(p) THEN <<Dummy(p.minute)>> ELSE <<>>)
                \o (IF Features(p) # {} THEN <<TicketMsg(p.minute, ClientIP(p), Features(p))>> ELSE <<>>)
  /\ UNCHANGED <<m_direction, config, groups>>

Next == \E p \in Packets : _receive_msg(p)
-----------------------------------------------------------------------------
IsSignal(t) == t.user = 0 /\ t.features = {}

(* Signals come in the order of their minutes, and no ticket comes before  *)
(* the signal that opens its minute, whatever the order of the packets:    *)
(* the counters behind this block never hear of a minute from a ticket.    *)
SignalsOpenMinutes ==
  \A i \in DOMAIN out :
    LET signals == {j \in 1..(i - 1) : IsSignal(out[j])}
    IN  IF IsSignal(out[i]) THEN \A j \in signals : out[j].time < out[i].time
        ELSE \E j \in signals : out[j].time >= out[i].time

(* What a packet is worth, read from the configuration itself: a node      *)
(* counts a packet with its protocol, its port and at least its flags.     *)
Deserved(p) ==
  { <<featID_to_string(m_direction, IF n.prot = "UDP" THEN "UDP" ELSE IF n.flags = {} THEN "TCP" ELSE n.flags,
                       mode, n.port), Value(p, mode)>> :
      <<n, mode>> \in {<<n, mode>> \in ToSet(config) \X {"packets", "bytes", "srvPorts", "srvIPs"} :
          /\ n.prot = p.prot
          /\ n.prot = "TCP" => n.flags \subseteq p.flags
          /\ IF n.port = AllButHttp THEN ServerPort(p) # 80 ELSE n.port = ServerPort(p)
          /\ mode = "packets" \/ mode \in n.modes
          /\ mode \in {"srvPorts", "srvIPs"} => m_direction = "UL"} }

(* The tickets are those the packets deserve, in the order of the packets, *)
(* when the configuration gives every node a name of its own.              *)
TicketsAsConfigured ==
  (\A i, j \in DOMAIN config : config[i].name = config[j].name => i = j) =>
     SelectSeq(out, LAMBDA t : ~IsSignal(t)) =
       SelectSeq([i \in DOMAIN in |-> TicketMsg(in[i].minute, ClientIP(in[i]), Deserved(in[i]))],
                 LAMBDA t : t.features # {})
=============================================================================
