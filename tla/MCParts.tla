------------------------------ MODULE MCParts -------------------------------
(***************************************************************************)
(* The machines of the daemon, the core library, the message types, the    *)
(* libraries, the blocks and the applications, one at a time: the initial  *)
(* state picks a machine, and only that one takes steps. The machines      *)
(* share no state, so a run explores each of them completely; the slots    *)
(* s1, s2, ... hold the variables of the one that was picked. A property   *)
(* is what is promised for one part of the system, by the machines that    *)
(* model it.                                                               *)
(***************************************************************************)
EXTENDS Integers, Sequences, FiniteSets, TLC

CONSTANTS Kinds      \* the machines of this run

VARIABLES kind,      \* which machine runs
          s1, s2, s3, s4, s5, s6, s7, s8, s9, s10, s11, s12, s13, s14, s15, s16, s17   \* its variables, in the order of the module

vars == <<kind, s1, s2, s3, s4, s5, s6, s7, s8, s9, s10, s11, s12, s13, s14, s15, s16, s17>>

(* sizeof(Tag) and sizeof(tag_object<Tag>), flag and value. *)
TagTypes == [int  |-> [value |-> 4, object |-> 8, writes |-> "int"],
             long |-> [value |-> 8, object |-> 16, writes |-> "double"]]

(* Block size and padding limit, in model bytes. *)
DigestBlock == [md5 |-> <<16, 14>>, sha1 |-> <<16, 14>>, sha2 |-> <<16, 14>>, sha2_224 |-> <<16, 14>>,
                sha4 |-> <<32, 28>>, sha4_384 |-> <<32, 28>>]
DigestChunk == [a \in DOMAIN DigestBlock |->
                 LET B == DigestBlock[a][1]
                     limit == DigestBlock[a][2]
                 IN  {0, 1, limit - 1, limit, B - 1, B, B + 1, 2 * B}]
DigestKeys == [a \in DOMAIN DigestBlock |-> {3, DigestBlock[a][1], DigestBlock[a][1] + 1}]

(* Users, enough bins or not, and the shape of a histogram. *)
Histogram(u, b, s) == [users |-> u, bins |-> b, shape |-> s]

Node(name, port, prot, flags, modes) == [name |-> name, port |-> port, prot |-> prot, flags |-> flags, modes |-> modes]
TcpPacket(minute, port, flags) ==
  [minute |-> minute, src |-> 1, dst |-> 2, sport |-> 9, dport |-> port, prot |-> "TCP", flags |-> flags, len |-> 7]

(* Frames of every protocol, with and without options, whole and cut. *)
PacketFrames ==
  {f \in [ether : {"ip", "vlan", "other"}, proto : {"tcp", "udp", "icmp", "other"},
          ip : {20, 60}, tcp : {20, 32}, raw : {13, 40, 66, 120}] :
     /\ f.ether # "ip" => f.proto = "other" /\ f.ip = 20
     /\ f.proto # "tcp" => f.tcp = 20
     /\ f.ip = 60 => f.raw = 120
     /\ f.raw = 13 => f.ether # "ip"}

\* The texts the tokenizer is run on
JsmnDocs == UNION {[1..n -> {"{", "}", "]", "\"", "x"}] : n \in 0..3} \cup
  {<<"{", "\"", "T", "\"", ":", "\"", "#", "x", "\"", "}">>,
   <<"{", "\"", "x", "\"", ":", "[", "x", ",", "\"", "\\", "\"", "\"", "]", ",", "x", ":", "x", "}">>,
   <<"{", "\"", "T", "\"", ":", "\"", "x", "#", "\"", ",", "\"", "x", "\"", ":", "\"", "#", "\"", "}">>,
   <<"{", "\"", "T", "\"", ":", "\"", "x", "\"", ",", "\"", "x", "\"", ":", "\"", "#", "\"", "}">>,
   <<"[", "{", "}", ",", "[", "]", "x", "]">>, <<"\"", "\\", "#">>, <<"x", "~">>,
   <<"[", "[", "x", "}">>, <<"{", "[", "]", "x", "}", "x">>, <<"\"", "\\", "\\", "\"">>}

\* The composition files of the stand-alone program
MainNode(n, s, i, p, k) == [name |-> n, sched_type |-> s, invocation |-> i, pool |-> p, known |-> k]
MainNodes == {MainNode("a", "active", "", "p", TRUE), MainNode("b", "", "async", "p", TRUE),
              MainNode("a", "", "direct", "", TRUE), MainNode("b", "active", "", "q", TRUE),
              MainNode("a", "", "", "", FALSE)}
MainFiles == {[clock |-> c, pools |-> {"p"}, blocks |-> b, connections |-> l] :
                c \in {"wall", "none"}, b \in UNION {[1..n -> MainNodes] : n \in 0..3},
                l \in {<<>>, <<[from |-> "a", to |-> "b"]>>}}

\* Two addresses that differ in the last octet only
AnonAddresses == {<<1, 2>>, <<1, 3>>}

\* A source S, an indirect block I and the direct blocks D and E
EntryInvocation == [S |-> "async", I |-> "indirect", D |-> "direct", E |-> "direct"]
EntryLink(b, g) == [to |-> b, gate |-> g]
EntryTopologies ==
  {[S |-> <<EntryLink("D", 1)>>, I |-> <<EntryLink("E", 1)>>, D |-> <<EntryLink("E", 2)>>, E |-> e] :
     e \in {<<>>, <<EntryLink("D", 2)>>}}
  \cup {[S |-> <<EntryLink("I", 2), EntryLink("D", 1)>>, I |-> <<>>, D |-> <<EntryLink("I", 1)>>, E |-> <<>>]}
EntryNode(m, s) == [mode |-> m, sync |-> s]
EntryConfigs == [S |-> {EntryNode("yield", TRUE)}, E |-> {EntryNode("none", TRUE)},
                 I |-> {EntryNode(m, TRUE) : m \in {"none", "yield", "unknown"}},
                 D |-> {EntryNode("none", s) : s \in BOOLEAN}]

\* Hash functions of class names with and without a collision
ClassHashes == {[Packet |-> 1, Flow |-> f, Alert |-> 3] : f \in {1, 2}}

\* Records with the extreme values of each width (a byte has 8 values here)
WireRecords ==
  [WordRecord |-> {<<>>, <<<<7>>>>, <<<<>>, <<1, 2>>>>},
   Tweet |-> {<<>>, <<5>>, <<6, 7, 0>>},
   Sample |-> {[i16 |-> -32, i32 |-> 2047, i64 |-> 4097, data |-> <<3>>],
               [i16 |-> 31, i32 |-> -1, i64 |-> -8388608, data |-> <<>>]}]

-----------------------------------------------------------------------------
(* Daemon: two start requests, two compositions, two processes. *)
Dm == INSTANCE Daemon WITH
  Comps <- {"a", "b"}, Requests <- {1, 2}, Ports <- {1, 2}, MaxProcs <- 2,
  bm_processes <- s1, spawn_proc_id <- s2, compfile <- s3, procs <- s4, req <- s5,
  calm <- s6,
  MAX_ATTEMPTS <- 5, MaxCalls <- 3, bc_connected <- s1, attempts <- s2, looping <- s3,
  outstanding <- s4, prompt <- s5,
  is_running <- s1, bm_running <- s2, installed <- s3, at <- s4

(* Tags: three tags of two types, two of them written by parallel chains.  *)
(* MsgTags: two messages, two tags, three buffers. ClassId: three classes, *)
(* two of which may have one hash, and two threads.                        *)
Mg == INSTANCE Messages WITH
  TagNames <- {"x", "y", "z"}, Chains <- <<"x", "y">>, Types <- TagTypes,
  BufLens <- {0, 16}, Polls <- 2, tag_info <- s1, next_offset <- s2, buf_len <- s3,
  asserts <- s4, running <- s5, valid <- s6, value <- s7, chain <- s8, forwarded <- s9,
  Msgs <- {"m1", "m2"}, MsgTagNames <- {"t1", "t2"}, Values <- {"v"}, MaxBufs <- 3,
  SliceLen <- 2, msg_tag_info <- s1, handle <- s2, msg <- s3, heap <- s4, shows <- s5,
  Threads <- {"t1", "t2"}, Classes <- {"Packet", "Flow", "Alert"}, Hashes <- ClassHashes,
  MaxUses <- 2, hash <- s1, guard <- s2, static_id <- s3, m_ids <- s4, m_mutex <- s5,
  class_pc <- s6, class <- s7, uses <- s8, msgs <- s9, compared <- s10

(* A PcapSource and a PFQSource with different payload sizes, in both      *)
(* builds.                                                                 *)
PM == INSTANCE PacketMemory WITH
  Sources <- {"pcap", "pfq"}, Caplen <- [pcap |-> 2, pfq |-> 3],
  IsPcap <- [pcap |-> TRUE, pfq |-> FALSE], RawLens <- {3}, NSlots <- 2,
  BatchSize <- <<4, 7>>, MaxPackets <- 5, sliced <- s1, size_of <- s2, max_caplen <- s3,
  region <- s4, configured <- s5, holds <- s6, packets <- s7

(* SerBuffer: records of three classes, byte by byte, over a stream cut    *)
(* anywhere. SerStream: three exporters, two of which can be clients at a  *)
(* time; one never sends.                                                  *)
Sr == INSTANCE Serialization WITH
  Base <- 8, Records <- WireRecords, MaxRecords <- 2, Pieces <- 1 .. 7, proto <- s1,
  sent <- s2, got <- s3, out <- s4, in <- s5, net <- s6,
  Exporters <- {"p", "q", "r"}, Lens <- {3, 4}, Half <- 4, RecvSize <- 2, MaxClients <- 2,
  MaxMsgs <- [p |-> 3, q |-> 1, r |-> 0], sock <- s1, msgs <- s2, lost <- s3, threw <- s4,
  wire <- s5, lsock <- s6, clients <- s7, refused <- s8, ser <- s9, stream_got <- s10,
  source <- s11

(* A source, a queue and two direct blocks in four topologies, two pool    *)
(* threads and the timer.                                                  *)
BE == INSTANCE BlockEntry WITH
  Order <- <<"S", "I", "D", "E">>, Invocation <- EntryInvocation,
  Topologies <- EntryTopologies, Configs <- EntryConfigs, PoolThreads <- {"p1", "p2"},
  NGates <- 2, QueueSize <- 1, MAX_MSG_DEQUEUE <- 1, MaxEntries <- 3, links <- s1,
  node <- s2, m_queue_type <- s3, m_issynchronized <- s4, configured <- s5, mutex <- s6,
  stack <- s7, queue <- s8, m_timer_queue <- s9, lost <- s10, entries <- s11

(* These compositions are what the theorems about BlockEntry assume.       *)
ASSUME EntryComposed == BE!Composed

(* Two variables of any class, two updates of the block, two calls of the  *)
(* daemon.                                                                 *)
BV == INSTANCE BlockVariable WITH
  Names <- {"a", "b"}, MaxUpdates <- 2, MaxCalls <- 2, m_variables <- s1, value <- s2,
  m_dirty <- s3, held <- s4, block <- s5, client <- s6, torn <- s7, updates <- s8,
  calls <- s9

(* RoundRobin: one or two threads, queues of four slots, four changes.     *)
(* SharedQueue: a ring of four slots and five elements.                    *)
RR == INSTANCE RoundRobin WITH
  MaxThreads <- 2, N <- 4, MaxRuns <- 2, MaxOps <- 4, m_nq <- s1, m_queues <- s2,
  m_last_id <- s3, torun <- s4, running <- s5, kept <- s6, runs <- s7, ops <- s8,
  overflow <- s9,
  RingN <- 4, MaxPush <- 5, storage <- s1, head <- s2, tail <- s3, prod <- s4, cons <- s5,
  pushed <- s6, popped <- s7, dropped <- s8, sizes <- s9

(* Files with up to three of five block nodes and a connection, one signal. *)
MP == INSTANCE MainProgram WITH
  Files <- MainFiles, MaxSignals <- 1, pc <- s1, file <- s2, handled <- s3, didQuit <- s4,
  signals <- s5, clock <- s6, objects <- s7, m_map <- s8, tasks <- s9, linked <- s10,
  initialized <- s11, poolsRun <- s12, timerRuns <- s13, links_left <- s14

(* PacketParse: two threads, each with one accessor of one packet, over    *)
(* every kind of frame. NewPacket: two frames of any protocol, whole or    *)
(* cut, with real header sizes. DnsPacket: one question and up to two      *)
(* answers of three types, with three forms of names.                      *)
Ph == INSTANCE PacketHeaders WITH
  Threads <- {"t1", "t2"}, MaxCalls <- 1, frame <- s1, parse_f <- s2, mutex <- s3,
  stack <- s4, todo <- s5, accessor <- s6, calls <- s7, answer <- s8,
  NewFrames <- PacketFrames, PayloadSize <- 100, MaxPackets <- 2, packets <- s1, mem <- s2,
  sliced <- s3, simple <- s4, flow_key <- s5, keys <- s6,
  Names <- {<<<<98>>, <<99, 100>>>>}, Prefix <- <<1, 2, 3>>, MaxAnswers <- 2,
  AnswerTypes <- {1, 5, 15}, msg <- s1, m_buffer <- s2, dns_pc <- s3, size <- s4,
  base <- s5, header <- s6, queries <- s7, a_recs <- s8, c_names <- s9

(* FlowPayload: streams of up to three segments that begin at every        *)
(* sequence number modulo eight, added in every order, and UDP flows.      *)
(* FlowHash: two flows in a hash table, keys with padding, and the four    *)
(* ways a compiler may copy them. TimeConv: every microsecond of two       *)
(* seconds, to NTP time and back.                                          *)
Fl == INSTANCE Flows WITH
  SeqModulus <- 8, Lengths <- {<<2>>, <<1, 2>>, <<2, 1>>, <<1, 1, 2>>},
  Udp <- {<<3>>, <<1, 2>>}, Requests <- {<<0, 2>>, <<0, 5>>, <<1, 2>>}, start <- s1,
  segments <- s2, pending <- s3, m_flow_packets <- s4, m_list_sorted <- s5, late <- s6,
  got <- s7,
  Flows <- {1, 2}, Paddings <- {0, 1, 2}, HashRange <- 3, MaxPackets <- 2, MaxFlows <- 2,
  build <- s1, collide <- s2, m_flow_table <- s3, made <- s4, exported <- s5, packets <- s6,
  Micro <- 20, Nano <- 200, Frac <- 256, Octet <- 3, Times <- 0 .. 99, step <- s1, us <- s2,
  ts <- s3, nt <- s4, ip <- s5

(* Two keys with queues of one and three slots over six moments, and the   *)
(* periodic meter.                                                         *)
FM == INSTANCE FlowMeter WITH
  Keys <- {"k1", "k2"}, QSizes <- {2, 4}, Idle <- 1, Active <- 2, MaxTime <- 6,
  MaxPackets <- 3, periodic <- s1, qsize <- s2, now <- s3, table <- s4, queue <- s5,
  reports <- s6, received <- s7, overflowed <- s8, checked <- s9

(* Counters: four messages, two resets and two timers, counters of four    *)
(* bits. Filters: the fields of both filters in pairs, two addresses,      *)
(* masks and ports. Selectors: reports of one and two flows and of two     *)
(* histograms over periods of three messages. Demux: one to three gates,   *)
(* every protocol and fragment field, four messages.                       *)
Sb == INSTANCE StreamBlocks WITH
  Width <- 16, Garbage <- {0, 9}, MaxMsgs <- 4, MaxResets <- 2, MaxTimers <- 2,
  passthrough <- s1, m_pkt_cnt <- s2, m_flow_cnt <- s3, m_pkt_cnt_prev <- s4,
  m_flow_cnt_prev <- s5, m_pkt_rate <- s6, m_flow_rate <- s7, m_reset <- s8,
  receiving <- s9, forwarded <- s10, done <- s11, sinceWrite <- s12, flowsSinceReset <- s13,
  sinceTimer <- s14, resetSinceTimer <- s15, resets <- s16, timers <- s17,
  Fields <- {{"ip_src", "l4"}, {"ip_dst"}, {"l3"}, {"src_port", "dst_port"}, {}},
  Addresses <- {1, 3}, Masks <- {1, 2}, Ports <- {1, 2}, Protos <- {1, 6}, filter <- s1,
  phase <- s2, conf <- s3, lastPeer <- s4, msg <- s5, sent <- s6,
  Lens <- {1, 2}, Weights <- {1, 2, 3}, Params <- {[min |-> 1, max |-> 8, bin |-> 2]},
  Sizes <- {1, 4, 8}, SelectMaxMsgs <- 3, block <- s1, m_len <- s2, m_heap <- s3,
  heavy <- s4, m_param <- s5, m_histo <- s6, m_cdf <- s7, stray <- s8, received <- s9,
  reported <- s10,
  GateNumbers <- {1, 2, 3}, DemuxL3Protos <- {2048, 2054}, L4Protos <- {1, 6, 17},
  Frags <- {0, 16384, 8192, 100, 4096}, DemuxMaxMsgs <- 4, demux_block <- s1,
  m_outgates_number <- s2, m_current_outgate <- s3, m_proto <- s4, arrived <- s5, out <- s6

(* One message and its clone between two addresses, every configuration. *)
AN == INSTANCE Anonymizer WITH
  Addresses <- AnonAddresses, Times <- {0, 9}, IntWidth <- 16, MaxMsgs <- 1, anon <- s1,
  heap <- s2, origin <- s3, queue <- s4, lines <- s5, crashed <- s6

(* IpfixPipe: one exporter and two sources, three lists of types, a        *)
(* message and a foreign record. AlertExport: one alert with up to one     *)
(* node of two kinds per list, two sockets.                                *)
Ex == INSTANCE Export WITH
  Sources <- {"s1", "s2"},
  DataTypes <- {<<"ipv4flow">>, <<"labeled_ipv4flow", "ipv4flow">>, <<"ipv4flow", "observation">>},
  Starts <- {15}, Ms <- 10, MaxMsgs <- 1, registered <- s1, m_gate <- s2, exporter <- s3,
  source <- s4, stream <- s5, ended <- s6, read <- s7, out <- s8, collected <- s9,
  msgs <- s10, exited <- s11,
  Nodes <- {[ipv4_set |-> TRUE, domain_name_set |-> FALSE], [ipv4_set |-> TRUE, domain_name_set |-> TRUE]},
  NoLevel <- "none", Severities <- {"high"}, MaxNodes <- 1, MaxAlerts <- 1, MaxSockets <- 2,
  alert <- s1, meant <- s2, sent <- s3, alert_exporter <- s4, m_export_method <- s5,
  m_file_open <- s6, m_tcp_open <- s7, usable <- s8, m_tcp_socket <- s9, sockets <- s10,
  abandoned <- s11, opened <- s12, output <- s13

(* Digests: every algorithm; pieces and keys around the block size and the *)
(* padding limit.                                                          *)
Dg == INSTANCE Digests WITH
  Algorithms <- DOMAIN DigestBlock, Chunk <- DigestChunk, KeyLens <- DigestKeys, W <- 6,
  FileBuf <- 10, MaxChunks <- 2, alg <- s1, ctx <- s2, phase <- s3, key <- s4, given <- s5,
  chunks <- s6, round <- s7, out <- s8, ret <- s9,
  ShaChunk <- {0, 1, 12, 13, 14, 15, 17}, ShaW <- 4, MaxCalls <- 5, sha <- s1, fed <- s2,
  calls <- s3, late <- s4, result <- s5

(* Lookup3: keys of up to 28 bytes at every alignment, on machines of both *)
(* byte orders. KHash: digests of four and five bytes and short digests of *)
(* up to 32 bits; a length that is not a multiple of a byte is among them. *)
(* BloomHash: digests of two words of three bits, all of them, two for an  *)
(* input. ACHash31: bytes of two values, words of three bytes, up to four  *)
(* bytes of key and of message.                                            *)
Hs == INSTANCE Hashes WITH
  MaxLength <- 28, function <- s1, machine <- s2, align <- s3, length <- s4, pos <- s5,
  initial <- s6, rounds <- s7, finals <- s8, reads <- s9, pc <- s10,
  DigestLengths <- {4, 5}, Sizes <- {5, 13, 31, 32}, Counts <- {1, 2, 3},
  Keys <- {[name |-> "a", len |-> 3], [name |-> "b", len |-> 4], [name |-> "c", len |-> 7]},
  MaxCalls <- 4, hashdiglen <- s1, shash <- s2, nhash <- s3, hashtodo <- s4, msgdig <- s5,
  res <- s6, grown <- s7, memo <- s8, calls <- s9,
  WordBits <- 3, NBlocks <- 2, BloomSizes <- {1, 2}, BloomCounts <- {2, 3}, MaxDigests <- 2,
  bloom_shash <- s1, bloom_nhash <- s2, norep <- s3, bloom_msgdig <- s4, stream <- s5,
  bloom_res <- s6, bloom_k <- s7, ptr <- s8, bloom_pc <- s9,
  ByteVals <- 2, WordBytes <- 3, Half <- 4, MaskBits <- {0, 1}, A <- 5, B <- 3, MaxLen <- 4,
  MaxInt <- 7, call <- s1, ac_i <- s2, key_int <- s3, key_int_temp <- s4, phase <- s5,
  output <- s6

(* Bloom: three elements with two of eight bits each, shared or not, up to *)
(* three swaps. Tewma: two elements with every choice of two of three      *)
(* counters, over three moments. Cusum: two detectors over windows of one  *)
(* and two values.                                                         *)
Sk == INSTANCE Sketches WITH
  Elements <- {"e1", "e2", "e3"}, M <- 8, DigestSets <- {{0, 1}, {1, 2}, {3, 4}, {5, 6}},
  NHash <- 2, MaxAdds <- 6, MaxSwaps <- 3, digests <- s1, learning <- s2, detecting <- s3,
  bloom_n <- s4, d <- s5, old <- s6, recent <- s7, asserted <- s8, adds <- s9, swaps <- s10,
  TewmaElements <- {"e1", "e2"}, Counters <- 1..3, TewmaNHash <- 2, Quantities <- {1, 2},
  MaxTime <- 2, tewma_digests <- s1, c <- s2, t <- s3, now <- s4, total <- s5, got <- s6,
  Windows <- {1, 2}, Scale <- 2, Offset <- 1, Threshold <- 5, Count <- 2,
  Values <- {0, 2, 5}, MaxChecks <- 4, m_mean_window <- s1, m_last_values <- s2,
  m_last_value_index <- s3, m_last_values_count <- s4, m_current_sum <- s5, seen <- s6,
  offered <- s7, alarms <- s8, checks <- s9

(* All the flag combinations a node can name, packets with their flags and *)
(* others, in and out of order.                                            *)
FE == INSTANCE FeaturesExtractor WITH
  Configs <- { <<Node("a", 65535, "TCP", f, {"bytes"}), Node("b", 80, "TCP", {"SYN"}, {"srvPorts"})>> :
                                   f \in {{}, {"FIN"}, {"SYN", "ACK"}, {"RST", "ACK"}, {"PSH", "ACK"}, {"PSH", "FIN", "ACK"}} }
                            \cup {<<Node("a", 65535, "UDP", {}, {"srvIPs"}), Node("a", 9, "TCP", {"SYN"}, {}), Node("c", 9, "icmp", {}, {})>>,
                                  <<Node("a", 9, "TCP", {}, {"srvIPs"}), Node("b", 65535, "UDP", {}, {"packets"})>>},
  Packets <- { TcpPacket(m, 80, {"SYN"}) : m \in 1..3 }
                            \cup { TcpPacket(2, 22, f) : f \in {{"SYN", "ACK"}, {"RST"}, {"RST", "ACK"}, {"PSH", "ACK"}, {"PSH", "FIN", "ACK"}, {"FIN"}} }
                            \cup {[TcpPacket(1, 80, {}) EXCEPT !.prot = "UDP"], [TcpPacket(3, 53, {}) EXCEPT !.prot = "UDP"]},
  MaxPackets <- 3, m_direction <- s1, config <- s2, groups <- s3, m_current_minute <- s4,
  in <- s5, out <- s6

(* TicketPipeline: two users, an ignored feature, late packets and gaps,   *)
(* through a counter of two minutes and through one of one minute and one  *)
(* of two. Binning: values up to 9, up to 6 classes, bases in steps of a   *)
(* quarter.                                                                *)
Hi == INSTANCE Histograms WITH
  Chains <- {<<2>>, <<1, 2>>}, Users <- {1, 2},
  Kinds <- {<<1, "p", 1>>, <<2, "p", 3>>, <<2, "q", 1>>}, Jumps <- {-1, 0, 1, 2, 4},
  Edges <- [p |-> <<1, 2, 4>>], Flag0 <- TRUE, MaxPackets <- 4, MaxMinute <- 8,
  minute <- s1, counters <- s2, histo <- s3, seen <- s4, out <- s5,
  MaxData <- 9, MaxClasses <- 6, Unit <- 4, max_iter <- 3, max_data <- s1, NNC <- s2,
  flag0 <- s3, pc <- s4, bins <- s5, b <- s6, inf <- s7, sup <- s8, best <- s9, cont <- s10,
  NC <- s11

(* ADTest: a feature with significant, insignificant and differently       *)
(* shaped histograms, and another with one. ADPrune: all matrices of       *)
(* divergences between 4 elements with values 0..2, and between 5 with     *)
(* values 0..1.                                                            *)
Ad == INSTANCE Anomaly WITH
  Features <- {"f", "g"},
  Histograms <- [f |-> {Histogram(100, TRUE, "a"), Histogram(70, TRUE, "b"), Histogram(1, TRUE, "a"), Histogram(100, FALSE, "b")}, g |-> {Histogram(90, TRUE, "b")}],
  Count <- [f |-> 5, g |-> 1], Timescale <- 2, WindowDays <- 1, GuardHours <- 1,
  DetectionStart <- 10, Stop <- 12, MinUsers <- 1, Day <- 6, Hour <- 7, MinRef <- 2,
  EnoughRef <- 2, MaxRef <- 2, m_windows_ht <- s1, m_curr_PDF <- s2, seen <- s3,
  results <- s4, anomalies <- s5, state <- s6,
  Sizes <- {4, 5}, Levels <- (4 :> 0..2) @@ (5 :> 0..1),
  Currents <- {[i \in 1..5 |-> 0], [i \in 1..5 |-> 1], [i \in 1..5 |-> i - 1]}, N <- s1,
  D <- s2, cur <- s3, D_reg <- s4, A <- s5, B <- s6, branch <- s7, pc <- s8, keep <- s9,
  verdict <- s10

(* Jsmn: all texts of up to three of five characters, and longer ones with *)
(* nesting, escapes and hashtags. TweetPipe: four tweets with two          *)
(* hashtags, two finders, two counters, batches of two.                    *)
Tw == INSTANCE Tweets WITH
  Docs <- JsmnDocs, AllocToken <- 2, MaxTokens <- 8, js <- s1, pos <- s2, toknext <- s3,
  toksuper <- s4, tokens <- s5, pc <- s6, hashtag <- s7,
  Words <- {"a", "b"}, Hash <- [w \in {"a", "b"} |-> IF w = "a" THEN 3 ELSE 6],
  Finders <- 2, NGates <- 2, BathSize <- 2, MaxTweets <- 4, MaxEmpty <- 1, None <- "none",
  read <- s1, next_out_port <- s2, eof <- s3, empties <- s4, tweets <- s5,
  hashtag_batch <- s6, sentTuple <- s7, records <- s8, words <- s9

(* All files of up to three lines of four kinds, one extra poll. *)
CR == INSTANCE CallRecords WITH
  Lines <- {[kind |-> "call", src |-> "p", dst |-> "q"], [kind |-> "sms", src |-> "q", dst |-> ""], [kind |-> "call", src |-> "q", dst |-> "r"], [kind |-> "long", src |-> "", dst |-> ""]},
  MaxLines <- 3, UTIME_WAIT <- 1, file <- s1, ended <- s2, lines <- s3, source <- s4,
  msg_recv <- s5, call_s <- s6, call_d <- s7, sent <- s8, arrived <- s9, tags <- s10,
  writer <- s11, counter <- s12, m_msg_type <- s13, lineno <- s14, log <- s15

-----------------------------------------------------------------------------
Init ==
  /\ kind \in Kinds
  /\ \/ kind = "Daemon" /\ Dm!DaemonInit /\ s7 = 0 /\ s8 = 0 /\ s9 = 0 /\ s10 = 0 /\ s11 = 0 /\ s12 = 0 /\ s13 = 0 /\ s14 = 0 /\ s15 = 0 /\ s16 = 0 /\ s17 = 0
     \/ kind = "Registration" /\ Dm!RegistrationInit /\ s6 = 0 /\ s7 = 0 /\ s8 = 0 /\ s9 = 0 /\ s10 = 0 /\ s11 = 0 /\ s12 = 0 /\ s13 = 0 /\ s14 = 0 /\ s15 = 0 /\ s16 = 0 /\ s17 = 0
     \/ kind = "Cli" /\ Dm!CliInit /\ s5 = 0 /\ s6 = 0 /\ s7 = 0 /\ s8 = 0 /\ s9 = 0 /\ s10 = 0 /\ s11 = 0 /\ s12 = 0 /\ s13 = 0 /\ s14 = 0 /\ s15 = 0 /\ s16 = 0 /\ s17 = 0
     \/ kind = "Tags" /\ Mg!TagsInit /\ s10 = 0 /\ s11 = 0 /\ s12 = 0 /\ s13 = 0 /\ s14 = 0 /\ s15 = 0 /\ s16 = 0 /\ s17 = 0
     \/ kind = "MsgTags" /\ Mg!MsgTagsInit /\ s6 = 0 /\ s7 = 0 /\ s8 = 0 /\ s9 = 0 /\ s10 = 0 /\ s11 = 0 /\ s12 = 0 /\ s13 = 0 /\ s14 = 0 /\ s15 = 0 /\ s16 = 0 /\ s17 = 0
     \/ kind = "ClassId" /\ Mg!ClassIdInit /\ s11 = 0 /\ s12 = 0 /\ s13 = 0 /\ s14 = 0 /\ s15 = 0 /\ s16 = 0 /\ s17 = 0
     \/ kind = "PacketMemory" /\ PM!Init /\ s8 = 0 /\ s9 = 0 /\ s10 = 0 /\ s11 = 0 /\ s12 = 0 /\ s13 = 0 /\ s14 = 0 /\ s15 = 0 /\ s16 = 0 /\ s17 = 0
     \/ kind = "SerBuffer" /\ Sr!SerBufferInit /\ s7 = 0 /\ s8 = 0 /\ s9 = 0 /\ s10 = 0 /\ s11 = 0 /\ s12 = 0 /\ s13 = 0 /\ s14 = 0 /\ s15 = 0 /\ s16 = 0 /\ s17 = 0
     \/ kind = "SerStream" /\ Sr!SerStreamInit /\ s12 = 0 /\ s13 = 0 /\ s14 = 0 /\ s15 = 0 /\ s16 = 0 /\ s17 = 0
     \/ kind = "BlockEntry" /\ BE!Init /\ s12 = 0 /\ s13 = 0 /\ s14 = 0 /\ s15 = 0 /\ s16 = 0 /\ s17 = 0
     \/ kind = "BlockVariable" /\ BV!Init /\ s10 = 0 /\ s11 = 0 /\ s12 = 0 /\ s13 = 0 /\ s14 = 0 /\ s15 = 0 /\ s16 = 0 /\ s17 = 0
     \/ kind = "RoundRobin" /\ RR!RoundRobinInit /\ s10 = 0 /\ s11 = 0 /\ s12 = 0 /\ s13 = 0 /\ s14 = 0 /\ s15 = 0 /\ s16 = 0 /\ s17 = 0
     \/ kind = "SharedQueue" /\ RR!SharedQueueInit /\ s10 = 0 /\ s11 = 0 /\ s12 = 0 /\ s13 = 0 /\ s14 = 0 /\ s15 = 0 /\ s16 = 0 /\ s17 = 0
     \/ kind = "MainProgram" /\ MP!Init /\ s15 = 0 /\ s16 = 0 /\ s17 = 0
     \/ kind = "PacketParse" /\ Ph!PacketParseInit /\ s9 = 0 /\ s10 = 0 /\ s11 = 0 /\ s12 = 0 /\ s13 = 0 /\ s14 = 0 /\ s15 = 0 /\ s16 = 0 /\ s17 = 0
     \/ kind = "NewPacket" /\ Ph!NewPacketInit /\ s7 = 0 /\ s8 = 0 /\ s9 = 0 /\ s10 = 0 /\ s11 = 0 /\ s12 = 0 /\ s13 = 0 /\ s14 = 0 /\ s15 = 0 /\ s16 = 0 /\ s17 = 0
     \/ kind = "DnsPacket" /\ Ph!DnsPacketInit /\ s10 = 0 /\ s11 = 0 /\ s12 = 0 /\ s13 = 0 /\ s14 = 0 /\ s15 = 0 /\ s16 = 0 /\ s17 = 0
     \/ kind = "FlowPayload" /\ Fl!FlowPayloadInit /\ s8 = 0 /\ s9 = 0 /\ s10 = 0 /\ s11 = 0 /\ s12 = 0 /\ s13 = 0 /\ s14 = 0 /\ s15 = 0 /\ s16 = 0 /\ s17 = 0
     \/ kind = "FlowHash" /\ Fl!FlowHashInit /\ s7 = 0 /\ s8 = 0 /\ s9 = 0 /\ s10 = 0 /\ s11 = 0 /\ s12 = 0 /\ s13 = 0 /\ s14 = 0 /\ s15 = 0 /\ s16 = 0 /\ s17 = 0
     \/ kind = "TimeConv" /\ Fl!TimeConvInit /\ s6 = 0 /\ s7 = 0 /\ s8 = 0 /\ s9 = 0 /\ s10 = 0 /\ s11 = 0 /\ s12 = 0 /\ s13 = 0 /\ s14 = 0 /\ s15 = 0 /\ s16 = 0 /\ s17 = 0
     \/ kind = "FlowMeter" /\ FM!Init /\ s10 = 0 /\ s11 = 0 /\ s12 = 0 /\ s13 = 0 /\ s14 = 0 /\ s15 = 0 /\ s16 = 0 /\ s17 = 0
     \/ kind = "Counters" /\ Sb!CountersInit
     \/ kind = "Filters" /\ Sb!FiltersInit /\ s7 = 0 /\ s8 = 0 /\ s9 = 0 /\ s10 = 0 /\ s11 = 0 /\ s12 = 0 /\ s13 = 0 /\ s14 = 0 /\ s15 = 0 /\ s16 = 0 /\ s17 = 0
     \/ kind = "Selectors" /\ Sb!SelectorsInit /\ s11 = 0 /\ s12 = 0 /\ s13 = 0 /\ s14 = 0 /\ s15 = 0 /\ s16 = 0 /\ s17 = 0
     \/ kind = "Demux" /\ Sb!DemuxInit /\ s7 = 0 /\ s8 = 0 /\ s9 = 0 /\ s10 = 0 /\ s11 = 0 /\ s12 = 0 /\ s13 = 0 /\ s14 = 0 /\ s15 = 0 /\ s16 = 0 /\ s17 = 0
     \/ kind = "Anonymizer" /\ AN!Init /\ s7 = 0 /\ s8 = 0 /\ s9 = 0 /\ s10 = 0 /\ s11 = 0 /\ s12 = 0 /\ s13 = 0 /\ s14 = 0 /\ s15 = 0 /\ s16 = 0 /\ s17 = 0
     \/ kind = "IpfixPipe" /\ Ex!IpfixPipeInit /\ s12 = 0 /\ s13 = 0 /\ s14 = 0 /\ s15 = 0 /\ s16 = 0 /\ s17 = 0
     \/ kind = "AlertExport" /\ Ex!AlertExportInit /\ s14 = 0 /\ s15 = 0 /\ s16 = 0 /\ s17 = 0
     \/ kind = "Digests" /\ Dg!DigestsInit /\ s10 = 0 /\ s11 = 0 /\ s12 = 0 /\ s13 = 0 /\ s14 = 0 /\ s15 = 0 /\ s16 = 0 /\ s17 = 0
     \/ kind = "Sha1Class" /\ Dg!Sha1ClassInit /\ s6 = 0 /\ s7 = 0 /\ s8 = 0 /\ s9 = 0 /\ s10 = 0 /\ s11 = 0 /\ s12 = 0 /\ s13 = 0 /\ s14 = 0 /\ s15 = 0 /\ s16 = 0 /\ s17 = 0
     \/ kind = "Lookup3" /\ Hs!Lookup3Init /\ s11 = 0 /\ s12 = 0 /\ s13 = 0 /\ s14 = 0 /\ s15 = 0 /\ s16 = 0 /\ s17 = 0
     \/ kind = "KHash" /\ Hs!KHashInit /\ s10 = 0 /\ s11 = 0 /\ s12 = 0 /\ s13 = 0 /\ s14 = 0 /\ s15 = 0 /\ s16 = 0 /\ s17 = 0
     \/ kind = "BloomHash" /\ Hs!BloomHashInit /\ s10 = 0 /\ s11 = 0 /\ s12 = 0 /\ s13 = 0 /\ s14 = 0 /\ s15 = 0 /\ s16 = 0 /\ s17 = 0
     \/ kind = "ACHash31" /\ Hs!ACHash31Init /\ s7 = 0 /\ s8 = 0 /\ s9 = 0 /\ s10 = 0 /\ s11 = 0 /\ s12 = 0 /\ s13 = 0 /\ s14 = 0 /\ s15 = 0 /\ s16 = 0 /\ s17 = 0
     \/ kind = "Bloom" /\ Sk!BloomInit /\ s11 = 0 /\ s12 = 0 /\ s13 = 0 /\ s14 = 0 /\ s15 = 0 /\ s16 = 0 /\ s17 = 0
     \/ kind = "Tewma" /\ Sk!TewmaInit /\ s7 = 0 /\ s8 = 0 /\ s9 = 0 /\ s10 = 0 /\ s11 = 0 /\ s12 = 0 /\ s13 = 0 /\ s14 = 0 /\ s15 = 0 /\ s16 = 0 /\ s17 = 0
     \/ kind = "Cusum" /\ Sk!CusumInit /\ s10 = 0 /\ s11 = 0 /\ s12 = 0 /\ s13 = 0 /\ s14 = 0 /\ s15 = 0 /\ s16 = 0 /\ s17 = 0
     \/ kind = "FeaturesExtractor" /\ FE!Init /\ s7 = 0 /\ s8 = 0 /\ s9 = 0 /\ s10 = 0 /\ s11 = 0 /\ s12 = 0 /\ s13 = 0 /\ s14 = 0 /\ s15 = 0 /\ s16 = 0 /\ s17 = 0
     \/ kind = "TicketPipeline" /\ Hi!TicketPipelineInit /\ s6 = 0 /\ s7 = 0 /\ s8 = 0 /\ s9 = 0 /\ s10 = 0 /\ s11 = 0 /\ s12 = 0 /\ s13 = 0 /\ s14 = 0 /\ s15 = 0 /\ s16 = 0 /\ s17 = 0
     \/ kind = "Binning" /\ Hi!BinningInit /\ s12 = 0 /\ s13 = 0 /\ s14 = 0 /\ s15 = 0 /\ s16 = 0 /\ s17 = 0
     \/ kind = "ADTest" /\ Ad!ADTestInit /\ s7 = 0 /\ s8 = 0 /\ s9 = 0 /\ s10 = 0 /\ s11 = 0 /\ s12 = 0 /\ s13 = 0 /\ s14 = 0 /\ s15 = 0 /\ s16 = 0 /\ s17 = 0
     \/ kind = "ADPrune" /\ Ad!ADPruneInit /\ s11 = 0 /\ s12 = 0 /\ s13 = 0 /\ s14 = 0 /\ s15 = 0 /\ s16 = 0 /\ s17 = 0
     \/ kind = "Jsmn" /\ Tw!JsmnInit /\ s8 = 0 /\ s9 = 0 /\ s10 = 0 /\ s11 = 0 /\ s12 = 0 /\ s13 = 0 /\ s14 = 0 /\ s15 = 0 /\ s16 = 0 /\ s17 = 0
     \/ kind = "TweetPipe" /\ Tw!TweetPipeInit /\ s10 = 0 /\ s11 = 0 /\ s12 = 0 /\ s13 = 0 /\ s14 = 0 /\ s15 = 0 /\ s16 = 0 /\ s17 = 0
     \/ kind = "CallRecords" /\ CR!Init /\ s16 = 0 /\ s17 = 0

Next ==
  \/ kind = "Daemon" /\ Dm!DaemonNext /\ UNCHANGED <<kind, s7, s8, s9, s10, s11, s12, s13, s14, s15, s16, s17>>
  \/ kind = "Registration" /\ Dm!RegistrationNext /\ UNCHANGED <<kind, s6, s7, s8, s9, s10, s11, s12, s13, s14, s15, s16, s17>>
  \/ kind = "Cli" /\ Dm!CliNext /\ UNCHANGED <<kind, s5, s6, s7, s8, s9, s10, s11, s12, s13, s14, s15, s16, s17>>
  \/ kind = "Tags" /\ Mg!TagsNext /\ UNCHANGED <<kind, s10, s11, s12, s13, s14, s15, s16, s17>>
  \/ kind = "MsgTags" /\ Mg!MsgTagsNext /\ UNCHANGED <<kind, s6, s7, s8, s9, s10, s11, s12, s13, s14, s15, s16, s17>>
  \/ kind = "ClassId" /\ Mg!ClassIdNext /\ UNCHANGED <<kind, s11, s12, s13, s14, s15, s16, s17>>
  \/ kind = "PacketMemory" /\ PM!Next /\ UNCHANGED <<kind, s8, s9, s10, s11, s12, s13, s14, s15, s16, s17>>
  \/ kind = "SerBuffer" /\ Sr!SerBufferNext /\ UNCHANGED <<kind, s7, s8, s9, s10, s11, s12, s13, s14, s15, s16, s17>>
  \/ kind = "SerStream" /\ Sr!SerStreamNext /\ UNCHANGED <<kind, s12, s13, s14, s15, s16, s17>>
  \/ kind = "BlockEntry" /\ BE!Next /\ UNCHANGED <<kind, s12, s13, s14, s15, s16, s17>>
  \/ kind = "BlockVariable" /\ BV!Next /\ UNCHANGED <<kind, s10, s11, s12, s13, s14, s15, s16, s17>>
  \/ kind = "RoundRobin" /\ RR!RoundRobinNext /\ UNCHANGED <<kind, s10, s11, s12, s13, s14, s15, s16, s17>>
  \/ kind = "SharedQueue" /\ RR!SharedQueueNext /\ UNCHANGED <<kind, s10, s11, s12, s13, s14, s15, s16, s17>>
  \/ kind = "MainProgram" /\ MP!Next /\ UNCHANGED <<kind, s15, s16, s17>>
  \/ kind = "PacketParse" /\ Ph!PacketParseNext /\ UNCHANGED <<kind, s9, s10, s11, s12, s13, s14, s15, s16, s17>>
  \/ kind = "NewPacket" /\ Ph!NewPacketNext /\ UNCHANGED <<kind, s7, s8, s9, s10, s11, s12, s13, s14, s15, s16, s17>>
  \/ kind = "DnsPacket" /\ Ph!DnsPacketNext /\ UNCHANGED <<kind, s10, s11, s12, s13, s14, s15, s16, s17>>
  \/ kind = "FlowPayload" /\ Fl!FlowPayloadNext /\ UNCHANGED <<kind, s8, s9, s10, s11, s12, s13, s14, s15, s16, s17>>
  \/ kind = "FlowHash" /\ Fl!FlowHashNext /\ UNCHANGED <<kind, s7, s8, s9, s10, s11, s12, s13, s14, s15, s16, s17>>
  \/ kind = "TimeConv" /\ Fl!TimeConvNext /\ UNCHANGED <<kind, s6, s7, s8, s9, s10, s11, s12, s13, s14, s15, s16, s17>>
  \/ kind = "FlowMeter" /\ FM!Next /\ UNCHANGED <<kind, s10, s11, s12, s13, s14, s15, s16, s17>>
  \/ kind = "Counters" /\ Sb!CountersNext /\ UNCHANGED <<kind>>
  \/ kind = "Filters" /\ Sb!FiltersNext /\ UNCHANGED <<kind, s7, s8, s9, s10, s11, s12, s13, s14, s15, s16, s17>>
  \/ kind = "Selectors" /\ Sb!SelectorsNext /\ UNCHANGED <<kind, s11, s12, s13, s14, s15, s16, s17>>
  \/ kind = "Demux" /\ Sb!DemuxNext /\ UNCHANGED <<kind, s7, s8, s9, s10, s11, s12, s13, s14, s15, s16, s17>>
  \/ kind = "Anonymizer" /\ AN!Next /\ UNCHANGED <<kind, s7, s8, s9, s10, s11, s12, s13, s14, s15, s16, s17>>
  \/ kind = "IpfixPipe" /\ Ex!IpfixPipeNext /\ UNCHANGED <<kind, s12, s13, s14, s15, s16, s17>>
  \/ kind = "AlertExport" /\ Ex!AlertExportNext /\ UNCHANGED <<kind, s14, s15, s16, s17>>
  \/ kind = "Digests" /\ Dg!DigestsNext /\ UNCHANGED <<kind, s10, s11, s12, s13, s14, s15, s16, s17>>
  \/ kind = "Sha1Class" /\ Dg!Sha1ClassNext /\ UNCHANGED <<kind, s6, s7, s8, s9, s10, s11, s12, s13, s14, s15, s16, s17>>
  \/ kind = "Lookup3" /\ Hs!Lookup3Next /\ UNCHANGED <<kind, s11, s12, s13, s14, s15, s16, s17>>
  \/ kind = "KHash" /\ Hs!KHashNext /\ UNCHANGED <<kind, s10, s11, s12, s13, s14, s15, s16, s17>>
  \/ kind = "BloomHash" /\ Hs!BloomHashNext /\ UNCHANGED <<kind, s10, s11, s12, s13, s14, s15, s16, s17>>
  \/ kind = "ACHash31" /\ Hs!ACHash31Next /\ UNCHANGED <<kind, s7, s8, s9, s10, s11, s12, s13, s14, s15, s16, s17>>
  \/ kind = "Bloom" /\ Sk!BloomNext /\ UNCHANGED <<kind, s11, s12, s13, s14, s15, s16, s17>>
  \/ kind = "Tewma" /\ Sk!TewmaNext /\ UNCHANGED <<kind, s7, s8, s9, s10, s11, s12, s13, s14, s15, s16, s17>>
  \/ kind = "Cusum" /\ Sk!CusumNext /\ UNCHANGED <<kind, s10, s11, s12, s13, s14, s15, s16, s17>>
  \/ kind = "FeaturesExtractor" /\ FE!Next /\ UNCHANGED <<kind, s7, s8, s9, s10, s11, s12, s13, s14, s15, s16, s17>>
  \/ kind = "TicketPipeline" /\ Hi!TicketPipelineNext /\ UNCHANGED <<kind, s6, s7, s8, s9, s10, s11, s12, s13, s14, s15, s16, s17>>
  \/ kind = "Binning" /\ Hi!BinningNext /\ UNCHANGED <<kind, s12, s13, s14, s15, s16, s17>>
  \/ kind = "ADTest" /\ Ad!ADTestNext /\ UNCHANGED <<kind, s7, s8, s9, s10, s11, s12, s13, s14, s15, s16, s17>>
  \/ kind = "ADPrune" /\ Ad!ADPruneNext /\ UNCHANGED <<kind, s11, s12, s13, s14, s15, s16, s17>>
  \/ kind = "Jsmn" /\ Tw!JsmnNext /\ UNCHANGED <<kind, s8, s9, s10, s11, s12, s13, s14, s15, s16, s17>>
  \/ kind = "TweetPipe" /\ Tw!TweetPipeNext /\ UNCHANGED <<kind, s10, s11, s12, s13, s14, s15, s16, s17>>
  \/ kind = "CallRecords" /\ CR!Next /\ UNCHANGED <<kind, s16, s17>>

Spec == Init /\ [][Next]_vars
-----------------------------------------------------------------------------
(* The process the daemon lists for a composition runs that composition.   *)
(* No live process is unknown to the daemon. A daemon that thinks it is    *)
(* registered still sends keepalives. The flags of the shell and of its    *)
(* process manager agree at the prompt.                                    *)
DaemonKeepsTrack ==
  /\ kind = "Daemon" => Dm!RunsWhatItSays /\ Dm!NoOrphanProcess
  /\ kind = "Registration" => Dm!ConnectedIsKeptAlive
  /\ kind = "Cli" => Dm!FlagsAgree

(* Tags never overlap in the buffer, are aligned, and fit in               *)
(* buffer_size(). emplace_tag never writes outside the buffer. A message   *)
(* whose tags are all written leaves SyncTag. A tag that SyncTag finds     *)
(* valid is completely written. Every tag buffer on the heap has one       *)
(* owner. A message shows the tags written to it. A handle names its tag   *)
(* for good. Messages of different classes are told apart. The table of    *)
(* identifiers names one class for each. The memory of a packet stays      *)
(* allocated as long as the packet is alive. Live packets share no memory  *)
(* and stay inside their region while the payload size is unchanged.       *)
MessagesKeepTheirOwn ==
  /\ kind = "Tags" => Mg!TagsDisjoint /\ Mg!WritesInBounds /\ Mg!NotLost
        /\ Mg!SeenIsWritten
  /\ kind = "MsgTags" => Mg!OwnedOnce /\ Mg!TagsArePrivate /\ Mg!HandlesStay
  /\ kind = "ClassId" => Mg!ClassesToldApart /\ Mg!OneNamePerId
  /\ kind = "PacketMemory" => PM!NoDanglingPacket /\ PM!PacketsApart

(* The records are rebuilt field by field. The pointers stay ordered and   *)
(* the assertions hold. The bytes not yet used are the records not yet     *)
(* sent on. SerSource hands on the records of every stream in order, each  *)
(* once. The receive buffer never outgrows MESSAGE_MAX_DATA. A message     *)
(* goes to a dead socket only after _receive_msg has thrown.               *)
StreamsAreRebuilt ==
  /\ kind = "SerBuffer" => Sr!Rebuilt /\ Sr!WithinBuffer /\ Sr!StreamKept
  /\ kind = "SerStream" => Sr!InOrder /\ Sr!BufferFits /\ Sr!LostOnlyAfterThrow

(* One thread at a time in the handlers of a synchronised block. A mutex   *)
(* that is waited for is given back, unless direct blocks form a circle. A *)
(* run of a block serves all its gates. Nobody sees half an update of a    *)
(* variable with the shared mutex. No mutex of a variable stays locked     *)
(* behind a finished call. A number a client wrote is marked dirty when    *)
(* the call returns.                                                       *)
BlocksAreGuarded ==
  /\ kind = "BlockEntry" => BE!OneThreadInside /\ BE!MutexComesFree /\ BE!EveryGateServed
  /\ kind = "BlockVariable" => BV!SharedMutexGuards /\ BV!LocksReleased
        /\ BV!ClientValueIsDirty

(* A thread always finds room for the block it puts back. Blocks of one    *)
(* thread run in turn. No scheduled block is lost or in two places. The    *)
(* lock-free ring gives elements out in order, each once. size() promises  *)
(* no more than can be popped. Every block is initialised and scheduled    *)
(* before threads run. Connections join blocks of the directory. main      *)
(* returns after a quit signal and with no thread running.                 *)
BlocksGetTheirTurn ==
  /\ kind = "RoundRobin" => RR!RoomToPutBack /\ RR!RunInTurn /\ RR!BlocksInOnePlace
  /\ kind = "SharedQueue" => RR!OutInOrder /\ RR!SizeCanBePopped
  /\ kind = "MainProgram" => MP!InstalledBeforeRun /\ MP!LinksJoinTheDirectory
        /\ MP!ReturnsQuietly

(* Accessors of Packet answer from the frame, whatever the other thread    *)
(* has parsed. No thread waits for a mutex whose holder waits or is gone.  *)
(* A simple packet finds its headers whatever the order they are asked     *)
(* for. The fixed parts of copied headers and the payload stay those of    *)
(* their frame. Only captured bytes are copied. A key given for a TCP or   *)
(* UDP packet has all its fields. A DNS message is parsed into what its    *)
(* sender meant.                                                           *)
PacketsAreReadRight ==
  /\ kind = "PacketParse" => Ph!AnswersFromTheFrame /\ Ph!ParsersDontBlock
  /\ kind = "NewPacket" => Ph!SimpleFindsHeaders /\ Ph!SlicedKeepsHeaders
        /\ Ph!CopiesAreCaptured /\ Ph!KeysAreComplete
  /\ kind = "DnsPacket" => Ph!ParsedAsSent

(* Sorted packets of a flow are in the order of the stream, wrap-around    *)
(* included. The payload of a flow of at most two segments is the stream.  *)
(* A flow that begins with a hole gives nothing. A flow has one entry      *)
(* unless the padding is copied. An entry counts the packets of its own    *)
(* flow. An exported flow has left the table. A timespec holds the         *)
(* microseconds exactly. NTP times of the first half of a second are read  *)
(* back. Addresses survive their dotted form. Every packet is in exactly   *)
(* one report or in the table. Every flow has one slot in the queue,       *)
(* unless it was full. After a timer no flow is idle for twice the         *)
(* timeout.                                                                *)
FlowsAreExact ==
  /\ kind = "FlowPayload" => Fl!InStreamOrder /\ Fl!ShortFlowsAreWhole
        /\ Fl!NothingWithoutSyn
  /\ kind = "FlowHash" => Fl!OneEntryPerFlow /\ Fl!CountsItsOwn /\ Fl!ExportedIsGone
  /\ kind = "TimeConv" => Fl!TimespecExact /\ Fl!NtpReturns /\ Fl!AddressReturns
  /\ kind = "FlowMeter" => FM!PacketsInOneReport /\ FM!TableAndQueueAgree
        /\ FM!IdleFlowsLeave

(* A reset a client wrote is pending or was done. Without a reset the rate *)
(* is that of the last interval. Once reset, the flow count is that of the *)
(* flows since. A filter delivers exactly the messages its configuration   *)
(* wants. Nothing is delivered twice, save flows without ports. The report *)
(* holds the N heaviest flows of the period. The distribution counts the   *)
(* packets of the period. RRDemux gives the messages to its gates in turn. *)
(* Nofrag passes every packet that is not a fragment. Readers of the       *)
(* original see the captured addresses whatever the anonymizer does.       *)
(* Behind the anonymizer the configured addresses are pseudonyms.          *)
MessagesPassAsTheyShould ==
  /\ kind = "Counters" => Sb!ResetNotLost /\ Sb!RateCountsInterval
        /\ Sb!FlowCountAfterReset
  /\ kind = "Filters" => Sb!WantedIsDelivered /\ Sb!DeliveredOnce
  /\ kind = "Selectors" => Sb!HeaviestReported /\ Sb!CdfCountsSizes
  /\ kind = "Demux" => Sb!RoundRobin /\ Sb!UnfragmentedPass
  /\ kind = "Anonymizer" => AN!OthersReadTheCaptured /\ AN!HiddenDownstream

(* Every collected IPFIX record comes out of a gate. A flow crosses the    *)
(* pipe with its times cut to milliseconds. A message is exported as the   *)
(* first type that fits it. A closed source has read its stream to the     *)
(* end. An exported alert holds what its builder last set. An exporter     *)
(* that is gone has closed its connected socket.                           *)
ExportedAsMeant ==
  /\ kind = "IpfixPipe" => Ex!RecordsReachAGate /\ Ex!FlowsKeepTheirTimes
        /\ Ex!ExportedAsFirstType /\ Ex!ClosedAtTheEnd
  /\ kind = "AlertExport" => Ex!DocumentsAsMeant /\ Ex!OnlyAbandonedStayOpen

(* Any segmentation of a message gives the digest of its padded blocks.    *)
(* The keyed digest is the nested one, for every key length and after a    *)
(* reset. A file digest that is returned as good is the digest of the      *)
(* whole file. A result of the class SHA1 is the digest of what it was fed *)
(* since Reset. Input after the result, or beyond the length words, marks  *)
(* the object corrupted. The hash is one of the bytes of the key, whatever *)
(* the alignment and the width of the reads. No byte is read outside the   *)
(* aligned words of the key. The short digests are consecutive bits of the *)
(* digests. A key no longer than a digest gives the same short digests     *)
(* each time. No bit is cut from outside the buffer, unless it was asked   *)
(* to grow. Every piece begins inside the digest. The short digests are    *)
(* the pieces of the digests in order, without repetitions when they are   *)
(* not wanted. All words of key and message are added. The digest is the   *)
(* hash of their sum. The integers of a file are added, the last one twice *)
(* before a newline.                                                       *)
HashesAreOfTheirInput ==
  /\ kind = "Digests" => Dg!DigestOfMessage /\ Dg!DigestOfKeyed /\ Dg!DigestOfFile
  /\ kind = "Sha1Class" => Dg!ResultOfMessage /\ Dg!MisuseIsNoticed
  /\ kind = "Lookup3" => Hs!HashOfBytes /\ Hs!ReadsStayInWords
  /\ kind = "KHash" => Hs!BitsInOrder /\ Hs!SameKeySameDigests /\ Hs!CutsStayInBuffer
  /\ kind = "BloomHash" => Hs!PointerInDigest /\ Hs!PiecesInOrder
  /\ kind = "ACHash31" => Hs!AllWordsAdded /\ Hs!DigestIsHash /\ Hs!FileAdded

(* The filters hold exactly what was added since the last swap and the one *)
(* before it. The counters of zeros are right and the assertion of         *)
(* BloomPair::add holds. An estimate is never below what was added,        *)
(* decayed. It is exact for an element with a counter of its own. The sum  *)
(* of a detector is the largest sum of the last scores. Detectors miss a   *)
(* value only behind an alarm.                                             *)
SketchesAreSound ==
  /\ kind = "Bloom" => Sk!FiltersAreWindows /\ Sk!ZerosAreCounted
  /\ kind = "Tewma" => Sk!NeverUnderestimates /\ Sk!ExactWithOwnCounter
  /\ kind = "Cusum" => Sk!SumSinceChange /\ Sk!InStepUntilAlarm

(* Signals come in the order of their minutes and no ticket comes before   *)
(* the signal that opens its minute. The tickets are those the packets     *)
(* deserve by the configuration, in the order of the packets. A histogram  *)
(* counts each user once, by what the packets of its interval add up to.   *)
(* The histograms of a feature follow one another without a hole. Every    *)
(* value is in a histogram or in a table. The edges increase, begin with   *)
(* the first class and reach the largest value. Every count but a filtered *)
(* zero falls into the bin that contains it. The window of a feature is    *)
(* made of its accepted histograms, each with its own PDF, and never       *)
(* exceeds its size. A histogram is judged only against histograms older   *)
(* than the guard period. Every anomaly before the stop time is reported   *)
(* once. The pruning loop places every element on exactly one side, and    *)
(* has work left until it has. At least half of the reference set is kept, *)
(* in order. A histogram at least as close as the closest two is not       *)
(* anomalous. The tokens of a parsed text are the tree of its values. A    *)
(* parser stopped for want of tokens and called again skips nothing. A     *)
(* reported hashtag is part of one string after a text key. Every hashtag  *)
(* read is counted once or on its way. A hashtag is counted by one counter *)
(* only. Call records are sent in order, without the header, and all of    *)
(* them. The pair of numbers of a call is its own. A numbered log line is  *)
(* whole and numbers increase.                                             *)
ApplicationsCountRight ==
  /\ kind = "FeaturesExtractor" => FE!SignalsOpenMinutes /\ FE!TicketsAsConfigured
  /\ kind = "TicketPipeline" => Hi!HistogramsAreExact /\ Hi!NoHoles /\ Hi!NothingLost
  /\ kind = "Binning" => Hi!EdgesCover /\ Hi!EveryCountHasABin
  /\ kind = "ADTest" => Ad!WindowIsAccepted /\ Ad!GuardKept /\ Ad!AnomaliesReported
  /\ kind = "ADPrune" => Ad!SplitsEverything /\ Ad!TestHasData /\ Ad!CloseIsNormal
  /\ kind = "Jsmn" => Tw!TokensAreTheTree /\ Tw!NothingSkipped /\ Tw!HashtagIsInTheText
  /\ kind = "TweetPipe" => Tw!HashtagsConserved /\ Tw!OneCounterPerHashtag
  /\ kind = "CallRecords" => CR!RecordsInOrder /\ CR!PairIsTheCalls /\ CR!LogLinesMatch
=============================================================================
