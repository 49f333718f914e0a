------------------------------- MODULE Export -------------------------------
(***************************************************************************)
(* Records and documents that leave or enter the process, two machines:    *)
(* IPFIX messages between an exporter and its sources, and the alerts of   *)
(* IDMEFExporter.                                                          *)
(***************************************************************************)
EXTENDS Integers, Sequences, FiniteSets, SequencesExt

-----------------------------------------------------------------------------
(***************************************************************************)
(* IPFIXExporter and IPFIXSource with the type bridges between messages    *)
(* and IPFIX records.  The registry holds one bridge object per type: all  *)
(* the blocks of the process that use a type share it, with its gate.  The *)
(* exporters write to one stream that every source reads; what libfc does  *)
(* (templates, transport) is the append and the read of a record.          *)
(***************************************************************************)
CONSTANTS Sources,
          DataTypes,    \* lists of types a block is configured with
          Starts,       \* times of flows, in units of 1 / Ms milliseconds
          Ms, MaxMsgs

VARIABLES registered,   \* the types in the registry
          m_gate,       \* type -> the source whose gate its bridge delivers to
          exporter,     \* the exporter's list of bridges, or why it has none
          source,       \* source -> [state, bridges]
          stream, ended, read,
          out,          \* what came out of the gate of each source
          collected,    \* history: [type, gate] of each record that was collected
          msgs, exited
IpfixPipeVars == <<registered, m_gate, exporter, source, stream, ended, read, out, collected, msgs, exited>>

Types == {"ipv4flow", "observation", "labeled_ipv4flow"}
NoGate == "NULL"
Unset == <<"unset">>
Refused == <<"refused">>
Running == ~exited

(* Streams of other exporters may lack the end of a flow and its ports. *)
Foreign == [type |-> "ipv4flow", start |-> 3, end |-> -1, ports |-> -1]
IpfixPipeInit ==
  /\ registered = {} /\ m_gate = [t \in Types |-> NoGate]
  /\ exporter = Unset
  /\ source = [s \in Sources |-> [state |-> "new", bridges |-> {}]]
  /\ stream \in {<<>>, <<Foreign>>} /\ ended = FALSE
  /\ read = [s \in Sources |-> 0] /\ out = [s \in Sources |-> <<>>]
  /\ collected = <<>> /\ msgs = 0 /\ exited = FALSE

registerType(t) ==
  /\ exporter = Unset /\ \A s \in Sources : source[s].state = "new"
  /\ t \notin registered /\ registered' = registered \cup {t}
  /\ UNCHANGED <<m_gate, exporter, source, stream, ended, read, out, collected, msgs, exited>>

bridgeForTypeName(t) == t \in registered
(* What the XML says of the other end: a known transport or a file, one    *)
(* that is not supported, or nothing.                                      *)
Transports == {"known", "unsupported", "none"}
(* Configuration of the exporter: the first unknown type is an error.      *)
(* Without an exporter object the templates are exported through a null    *)
(* pointer, which ends the process.                                        *)
exporter_configure(dts, transport) ==
  LET known == \A i \in DOMAIN dts : bridgeForTypeName(dts[i])
  IN  /\ Running /\ exporter = Unset
      /\ exporter' = IF transport = "known" /\ known THEN dts ELSE Refused
      /\ exited' = (transport = "none" /\ (known \/ bridgeForTypeName(dts[1])))
      /\ UNCHANGED <<registered, m_gate, source, stream, ended, read, out, collected, msgs>>

(* Mutant of setGate: the overload with the list of indices forgets it. *)
setGateOfOne(s, ts) == [t \in Types |-> IF t \in ts /\ t # "ipv4flow" THEN s ELSE m_gate[t]]
setGate(s, ts) == [t \in Types |-> IF t \in ts THEN s ELSE m_gate[t]]
(* Types up to the first that is unknown or can only be used for export    *)
(* are prepared, also if the configuration then fails.                     *)
Prepared(dts) == {dts[i] : i \in {j \in DOMAIN dts : \A k \in 1..j : bridgeForTypeName(dts[k]) /\ dts[k] # "labeled_ipv4flow"}}
source_configure(s, dts, transport) ==
  LET ts == IF transport = "unsupported" THEN {} ELSE Prepared(dts)
  IN  /\ Running /\ source[s].state = "new"
      /\ m_gate' = setGate(s, ts)
      /\ source' = [source EXCEPT ![s] = [state |-> IF transport = "known" /\ ts = ToSet(dts) THEN "open" ELSE "refused",
                                          bridges |-> ts]]
      /\ exited' = (transport = "none" /\ ts # {})
      /\ UNCHANGED <<registered, exporter, stream, ended, read, out, collected, msgs>>

canExport(t, m) == t = "observation" <=> m.type = "observation"
(* Mutant of FlowRecord: the end of a flow goes out in microseconds. *)
FlowRecordEnd(m) == [type |-> "ipv4flow", start |-> m.start \div Ms, end |-> m.end, ports |-> m.ports]
(* exportMsg of the bridges: a flow's times go out in milliseconds, an     *)
(* observation's as they are; the labeled flow has a start only.           *)
FlowRecord(m) == [type |-> "ipv4flow", start |-> m.start \div Ms, end |-> m.end \div Ms, ports |-> m.ports]
ObservationRecord(m) == [type |-> "observation", start |-> m.start, end |-> -1, ports |-> -1]
LabeledRecord(m) == [type |-> "labeled_ipv4flow", start |-> m.start \div Ms, end |-> -1, ports |-> -1]
exportMsg(t, m) == CASE t = "ipv4flow" -> FlowRecord(m) [] t = "observation" -> ObservationRecord(m)
                     [] t = "labeled_ipv4flow" -> LabeledRecord(m)
(* Mutant of FirstBridge: the last bridge that can export the message. *)
LastBridge(m) == {i \in DOMAIN exporter : canExport(exporter[i], m) /\ \A j \in (i + 1)..Len(exporter) : ~canExport(exporter[j], m)}
FirstBridge(m) == {i \in DOMAIN exporter : canExport(exporter[i], m) /\ \A j \in 1..(i - 1) : ~canExport(exporter[j], m)}
exporter_receive(m) ==
  /\ Running /\ exporter \notin {Unset, Refused} /\ ~ended /\ msgs < MaxMsgs
  /\ msgs' = msgs + 1
  /\ stream' = IF FirstBridge(m) = {} THEN stream
               ELSE Append(stream, exportMsg(exporter[CHOOSE i \in FirstBridge(m) : TRUE], m))
  /\ UNCHANGED <<registered, m_gate, exporter, source, ended, read, out, collected, exited>>

EndStream ==
  /\ ~ended /\ ended' = TRUE
  /\ UNCHANGED <<registered, m_gate, exporter, source, stream, read, out, collected, msgs, exited>>

(* receiveRecord of the bridges: what is missing is replaced. *)
ReceivedObservation(r) == [type |-> "observation", start |-> r.start, end |-> -1, ports |-> -1]
ReceivedFlow(r) == [type |-> "flow", start |-> r.start * Ms, end |-> (IF r.end = -1 THEN r.start ELSE r.end) * Ms,
                    ports |-> IF r.ports = -1 THEN 0 ELSE r.ports]
receiveRecord(r) == IF r.type = "observation" THEN ReceivedObservation(r) ELSE ReceivedFlow(r)
(* _do_async with data: a record of a prepared type is delivered to the    *)
(* gate its bridge has now, another one is skipped.                        *)
Collect(s) ==
  LET r == stream[read[s] + 1]
      g == m_gate[r.type]
  IN  /\ Running /\ source[s].state = "open" /\ read[s] < Len(stream)
      /\ read' = [read EXCEPT ![s] = @ + 1]
      /\ IF r.type \in source[s].bridges
         THEN /\ out' = [x \in Sources |-> IF x = g THEN Append(out[x], receiveRecord(r)) ELSE out[x]]
              /\ collected' = Append(collected, [type |-> r.type, by |-> s])
         ELSE UNCHANGED <<out, collected>>
      /\ UNCHANGED <<registered, m_gate, exporter, source, stream, ended, msgs, exited>>

(* Mutant of AtEnd: the collector is closed when there is nothing to read now. *)
AtEndForNow(s) == read[s] = Len(stream)
AtEnd(s) == ended /\ read[s] = Len(stream)
(* _do_async at the end of the stream: the collector is dropped and a timer set. *)
Finish(s) ==
  /\ Running /\ source[s].state = "open" /\ AtEnd(s)
  /\ source' = [source EXCEPT ![s].state = "closed"]
  /\ UNCHANGED <<registered, m_gate, exporter, stream, ended, read, out, collected, msgs, exited>>
(* _handle_timer: the whole process ends. *)
_handle_timer(s) ==
  /\ Running /\ source[s].state = "closed"
  /\ exited' = TRUE
  /\ UNCHANGED <<registered, m_gate, exporter, source, stream, ended, read, out, collected, msgs>>

Messages == [type : {"flow"}, start : Starts, end : Starts, ports : {7}] \cup [type : {"observation"}, start : Starts, end : {-1}, ports : {-1}]
IpfixPipeNext ==
  \/ \E t \in Types : registerType(t)
  \/ \E dts \in DataTypes, transport \in Transports :
       exporter_configure(dts, transport) \/ \E s \in Sources : source_configure(s, dts, transport)
  \/ \E m \in Messages : exporter_receive(m)
  \/ EndStream
  \/ \E s \in Sources : Collect(s) \/ Finish(s) \/ _handle_timer(s)

Users(t) == {s \in Sources : t \in source[s].bridges}
(* Every record a source collects comes out of a gate, and with one source *)
(* for a type out of its own.  Two sources of a type share the bridge, and *)
(* the one configured last takes the records of both.                      *)
RecordsReachAGate ==
  /\ Len(collected) = Cardinality(UNION {{<<s, i>> : i \in DOMAIN out[s]} : s \in Sources})
  /\ \A t \in Types, s \in Sources : Users(t) = {s} => m_gate[t] = s
Cut(us) == us - (us % Ms)
(* A flow leaves the pipe with the times it went in with, cut to whole     *)
(* milliseconds, and one without an end ends when it starts; the labeled   *)
(* flow never comes back.                                                  *)
FlowsKeepTheirTimes ==
  \A s \in Sources : \A i \in DOMAIN out[s] :
    out[s][i].type = "flow" =>
      \/ out[s][i] = [type |-> "flow", start |-> Foreign.start * Ms, end |-> Foreign.start * Ms, ports |-> 0]
      \/ \E m \in Messages : out[s][i] = [m EXCEPT !.start = Cut(@), !.end = Cut(@)]
(* A message goes out once, as the first configured type that fits it.     *)
ExportedAsFirstType ==
  \A i \in DOMAIN stream : stream[i] # Foreign =>
    \E j \in DOMAIN exporter : /\ exporter[j] = stream[i].type
                               /\ \A k \in 1..(j - 1) : (exporter[k] = "observation") # (exporter[j] = "observation")
(* A source that was closed has read its stream to the end.                *)
ClosedAtTheEnd == \A s \in Sources : source[s].state = "closed" => (ended /\ read[s] = Len(stream))

-----------------------------------------------------------------------------
(***************************************************************************)
(* Alert messages and IDMEFExporter.  A detection block builds an alert:   *)
(* source and target nodes, an assessment; the alert may be cloned on its  *)
(* way.  The exporter, configured for a file or for a TCP connection,      *)
(* writes one document per alert.  Exporters come and go with the          *)
(* compositions: each is configured once and destroyed.                    *)
(***************************************************************************)
CONSTANTS
  Nodes,       \* the network nodes: which of ipv4 and domain name are set
  NoLevel,     \* no assessment
  Severities,  \* severity levels
  MaxNodes,    \* bound on the nodes of a list
  MaxAlerts,   \* bound on the alerts that are sent
  MaxSockets   \* bound on the sockets that are opened

VARIABLES
  alert,     \* the alert that is being built: id, sources, targets, severity
  meant,     \* the nodes and severity its builder last asked for
  sent,      \* what was meant by the alerts given to the exporter, in order
  alert_exporter,  \* none, new, open (configured) or failed (configuration threw)
  m_export_method,
  m_file_open, m_tcp_open,   \* its two flags
  usable,    \* the file could be opened, or the peer has not closed
  m_tcp_socket,  \* its socket, 0 when it has none
  sockets,   \* the sockets that are open in the process
  abandoned, \* sockets whose connect failed
  opened,    \* sockets opened so far
  output     \* the documents of this exporter, with the place of their alert in sent

AlertExportVars == <<alert, meant, sent, alert_exporter, m_export_method, m_file_open, m_tcp_open,
                     usable, m_tcp_socket, sockets, abandoned, opened, output>>
alertVars == <<alert, meant>>
exporterVars == <<alert_exporter, m_export_method, m_file_open, m_tcp_open, usable,
                  m_tcp_socket, sockets, abandoned, opened>>

Fresh == [sources |-> <<>>, targets |-> <<>>, severity |-> NoLevel]
-----------------------------------------------------------------------------
\* Alert::add_source
add_source(n) ==
  /\ Len(alert.sources) < MaxNodes
  /\ alert' = [alert EXCEPT !.sources = Append(@, n)]
  /\ meant' = [meant EXCEPT !.sources = Append(@, n)]
  /\ UNCHANGED <<sent, output>> /\ UNCHANGED exporterVars

\* The list after set_sources: cleared, then filled
ListCleared(old, new) == new

\* Mutant: the list is not cleared first.
ListKept(old, new) == old \o new

ListSet(old, new) == ListCleared(old, new)

\* Alert::set_sources and Alert::set_targets
set_sources(s) ==
  /\ alert' = [alert EXCEPT !.sources = ListSet(@, s)]
  /\ meant' = [meant EXCEPT !.sources = s]
  /\ UNCHANGED <<sent, output>> /\ UNCHANGED exporterVars

set_targets(s) ==
  /\ alert' = [alert EXCEPT !.targets = ListSet(@, s)]
  /\ meant' = [meant EXCEPT !.targets = s]
  /\ UNCHANGED <<sent, output>> /\ UNCHANGED exporterVars

\* Alert::set_assessment
set_assessment(l) ==
  /\ alert' = [alert EXCEPT !.severity = l]
  /\ meant' = [meant EXCEPT !.severity = l]
  /\ UNCHANGED <<sent, output>> /\ UNCHANGED exporterVars

\* Alert::clone: a new alert with the same lists and assessment; its time of
\* creation is the time of the clone
Clone(a) ==
  [sources |-> ListSet(<<>>, a.sources), targets |-> ListSet(<<>>, a.targets),
   severity |-> a.severity]

clone ==
  /\ alert' = Clone(alert)
  /\ UNCHANGED <<meant, sent, output>> /\ UNCHANGED exporterVars
-----------------------------------------------------------------------------
\* IDMEFExporter: constructor
Construct ==
  /\ alert_exporter = "none"
  /\ alert_exporter' = "new"
  /\ m_export_method' = "EXP_FILE"
  /\ m_file_open' = FALSE /\ m_tcp_open' = FALSE
  /\ m_tcp_socket' = 0 /\ usable' = FALSE
  /\ output' = <<>>
  /\ UNCHANGED <<sockets, abandoned, opened, sent>> /\ UNCHANGED alertVars

\* _configure with a file; that it could not be opened is not noticed
ConfigureFile(ok) ==
  /\ alert_exporter = "new"
  /\ m_export_method' = "EXP_FILE"
  /\ m_file_open' = TRUE /\ usable' = ok
  /\ alert_exporter' = "open"
  /\ UNCHANGED <<m_tcp_open, m_tcp_socket, sockets, abandoned, opened, sent, output>>
  /\ UNCHANGED alertVars

\* _configure with a peer: socket, connect
ConfigureTcp(ok) ==
  /\ alert_exporter = "new" /\ opened < MaxSockets
  /\ m_export_method' = "EXP_TCP"
  /\ opened' = opened + 1
  /\ m_tcp_socket' = opened'
  /\ sockets' = sockets \cup {opened'}
  /\ IF ok THEN /\ m_tcp_open' = TRUE /\ usable' = TRUE
                /\ alert_exporter' = "open"
                /\ UNCHANGED abandoned
           ELSE /\ alert_exporter' = "failed"
                /\ abandoned' = abandoned \cup {opened'}
                /\ UNCHANGED <<m_tcp_open, usable>>
  /\ UNCHANGED <<m_file_open, sent, output>> /\ UNCHANGED alertVars

\* _configure without output, or with a specification that lacks something
ConfigureBad(method) ==
  /\ alert_exporter = "new"
  /\ m_export_method' = method
  /\ alert_exporter' = "failed"
  /\ UNCHANGED <<m_file_open, m_tcp_open, usable, m_tcp_socket, sockets, abandoned, opened,
                 sent, output>>
  /\ UNCHANGED alertVars

\* The sockets that close_export_method leaves open
ClosedIfOpen == IF m_tcp_open THEN sockets \ {m_tcp_socket} ELSE sockets

\* Mutant: the flag of the file is asked for the socket.
ClosedIfFile == IF m_file_open THEN sockets \ {m_tcp_socket} ELSE sockets

LeftOpen == ClosedIfOpen

\* The destructor: close_export_method
Destroy ==
  /\ alert_exporter \in {"new", "open", "failed"}
  /\ alert_exporter' = "none"
  /\ sockets' = LeftOpen
  /\ m_file_open' = FALSE /\ m_tcp_open' = FALSE
  /\ UNCHANGED <<m_export_method, usable, m_tcp_socket, abandoned, opened, sent, output>>
  /\ UNCHANGED alertVars

\* The peer closes the connection
PeerCloses ==
  /\ m_tcp_open /\ usable
  /\ usable' = FALSE
  /\ UNCHANGED <<alert_exporter, m_export_method, m_file_open, m_tcp_open, m_tcp_socket, sockets,
                 abandoned, opened, sent, output>>
  /\ UNCHANGED alertVars

\* set_xml_from_node: an address and a name element, where they are set
set_xml_from_node(n) ==
  (IF n.ipv4_set THEN <<[elem |-> "idmef:Address", of |-> n]>> ELSE <<>>)
    \o (IF n.domain_name_set THEN <<[elem |-> "idmef:name", of |-> n]>> ELSE <<>>)

\* The document of an alert
Document(a) ==
  [sources |-> [i \in DOMAIN a.sources |-> set_xml_from_node(a.sources[i])],
   targets |-> [i \in DOMAIN a.targets |-> set_xml_from_node(a.targets[i])],
   severity |-> a.severity]

\* _receive_msg: the alert is written; a send that fails throws, and a file
\* that is not open swallows the document
_receive_msg ==
  /\ alert_exporter = "open" /\ Len(sent) < MaxAlerts
  /\ sent' = Append(sent, meant)
  /\ output' = IF usable THEN Append(output, [no |-> Len(sent) + 1, doc |-> Document(alert)])
               ELSE output
  /\ alert' = Fresh /\ meant' = Fresh
  /\ UNCHANGED exporterVars

AlertExportInit ==
  /\ alert = Fresh /\ meant = Fresh /\ sent = <<>>
  /\ alert_exporter = "none" /\ m_export_method = "EXP_FILE"
  /\ m_file_open = FALSE /\ m_tcp_open = FALSE /\ usable = FALSE
  /\ m_tcp_socket = 0 /\ sockets = {} /\ abandoned = {} /\ opened = 0
  /\ output = <<>>

NodeLists == UNION {[1..n -> Nodes] : n \in 0..MaxNodes}

Building == Len(sent) < MaxAlerts

AlertExportNext ==
  \/ Building /\ \E n \in Nodes : add_source(n)
  \/ Building /\ \E s \in NodeLists : set_sources(s)
  \/ Building /\ \E s \in NodeLists : set_targets(s)
  \/ Building /\ \E l \in Severities : set_assessment(l)
  \/ Building /\ clone
  \/ Construct
  \/ \E ok \in BOOLEAN : ConfigureFile(ok)
  \/ \E ok \in BOOLEAN : ConfigureTcp(ok)
  \/ \E method \in {"EXP_FILE", "EXP_TCP"} : ConfigureBad(method)
  \/ Destroy
  \/ PeerCloses
  \/ _receive_msg

AlertExportSpec == AlertExportInit /\ [][AlertExportNext]_AlertExportVars
-----------------------------------------------------------------------------
\* The elements of a node in a document are those that are set in the node
Shows(elements, n) ==
  /\ \A i \in DOMAIN elements : elements[i].of = n
  /\ {elements[i].elem : i \in DOMAIN elements} =
       {e \in {"idmef:Address", "idmef:name"} :
          IF e = "idmef:name" THEN n.domain_name_set ELSE n.ipv4_set}

(***************************************************************************)
(* A document holds the nodes and the assessment its builder last set,     *)
(* whether the alert was cloned on its way or not, and documents keep the  *)
(* order of the alerts.                                                    *)
(***************************************************************************)
DocumentsAsMeant ==
  /\ \A i \in DOMAIN output :
       LET doc == output[i].doc
           m == sent[output[i].no]
       IN  /\ doc.severity = m.severity
           /\ Len(doc.sources) = Len(m.sources) /\ Len(doc.targets) = Len(m.targets)
           /\ \A k \in DOMAIN m.sources : Shows(doc.sources[k], m.sources[k])
           /\ \A k \in DOMAIN m.targets : Shows(doc.targets[k], m.targets[k])
  /\ \A i, j \in DOMAIN output : i < j => output[i].no < output[j].no

(***************************************************************************)
(* An exporter that is gone has closed its socket, except one that could   *)
(* not connect: its flag was never set and the socket stays open for the   *)
(* rest of the process (IDMEFExporter.cpp:224-233).                        *)
(***************************************************************************)
OnlyAbandonedStayOpen ==
  alert_exporter = "none" => sockets = abandoned
=============================================================================
