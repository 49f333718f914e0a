--------------------------- MODULE Serialization ----------------------------
(***************************************************************************)
(* Messages on the wire, two machines: the serializer byte by byte, and    *)
(* the stream from SerExporter to SerSource.                               *)
(***************************************************************************)
EXTENDS Integers, Sequences, FiniteSets
LOCAL INSTANCE SequencesExt

-----------------------------------------------------------------------------
(***************************************************************************)
(* The bytes of the record stream: messages written field by field into a  *)
(* BufferSerializer (core/message/BufferSerializer.hpp), sent as a stream  *)
(* that arrives in pieces, and rebuilt from the pieces on the other side.  *)
(* Numbers keep their widths of 2, 4 and 8 bytes, but a byte has Base      *)
(* values instead of 256.  Records are shorter than half of the buffer;    *)
(* SerStream has the longer ones.                                          *)
(***************************************************************************)
CONSTANTS Base,
          Records,    \* prototype -> the records of one exporter
          MaxRecords,
          Pieces      \* lengths of the pieces recv returns

End == Base * Base                 \* MESSAGE_MAX_DATA

VARIABLES proto,     \* msg_prototype of the source
          sent, got, \* records
          out, in,   \* the Serializer of the exporter and the one of the source
          net        \* bytes on their way
SerBufferVars == <<proto, sent, got, out, in, net>>
-----------------------------------------------------------------------------
(* A buffer: memory, offsets of data and tail (head is 0), and whether its *)
(* assertions have held.                                                   *)
reset(b) == [b EXCEPT !.data = 0, !.tail = 0]
New == [buf |-> [i \in 1..End |-> 0], data |-> 0, tail |-> 0, ok |-> TRUE]

buf_len(b) == b.tail - b.data
data(b) == SubSeq(b.buf, b.data + 1, b.tail)

Store(b, at, bytes) ==
  [i \in 1..End |-> IF i - at \in DOMAIN bytes THEN bytes[i - at] ELSE b.buf[i]]

(* Mutant of compact: the tail stays where it was. *)
compactData(b) == [b EXCEPT !.buf = Store(b, 0, data(b)), !.data = 0]
compact(b) == [b EXCEPT !.buf = Store(b, 0, data(b)), !.data = 0, !.tail = buf_len(b)]

put(b, n) == [b EXCEPT !.tail = @ + n, !.ok = @ /\ b.tail + n <= End]
consume(b, n) == [b EXCEPT !.data = @ + n, !.ok = @ /\ n <= b.tail]

put_raw_data(b, bytes) == [put(b, Len(bytes)) EXCEPT !.buf = Store(b, b.tail, bytes)]

(* htons and htonl: the most significant byte first. *)
Net(v, w) == [i \in 1..w |-> (v \div (Base ^ (w - i))) % Base]
Value(s) == FoldLeft(LAMBDA v, d : v * Base + d, 0, s)
Signed(s) == LET W == Base ^ Len(s) IN IF 2 * Value(s) >= W THEN Value(s) - W ELSE Value(s)

(* htonll exchanges the halves of the value, the bytes of each stay in the *)
(* order of the machine, least significant first.                          *)
ntohll(s) == Reverse(SubSeq(s, 1, 4)) \o Reverse(SubSeq(s, 5, 8))

put_int16(b, v) == put_raw_data(b, Net(v, 2))
put_int32(b, v) == put_raw_data(b, Net(v, 4))
put_int64(b, v) == put_raw_data(b, ntohll(Net(v, 8)))
put_data(b, s) == put_raw_data(put_int16(b, Len(s)), s)

Peek(b, n) == [i \in 1..n |-> IF b.data + i <= End THEN b.buf[b.data + i] ELSE 0]
Taken(b, n) == [b EXCEPT !.data = @ + n, !.ok = @ /\ b.data + n <= b.tail]

(* What a read returns, and the buffer after it. *)
consume_int16(b) == [b |-> Taken(b, 2), v |-> Signed(Peek(b, 2))]
consume_int32(b) == [b |-> Taken(b, 4), v |-> Signed(Peek(b, 4))]
consume_int64(b) == [b |-> Taken(b, 8), v |-> Signed(ntohll(Peek(b, 8)))]
consume_raw_data(b, n) == [b |-> Taken(b, n), v |-> Peek(b, n)]
consume_all_data(b) == LET n == consume_int16(b) IN consume_raw_data(n.b, n.v)

(* No assertion: it is up to the caller that the string is all there. *)
consume_all_data_into_string(b) ==
  LET n == consume_int16(b) IN [b |-> [n.b EXCEPT !.data = @ + n.v], v |-> Peek(n.b, n.v)]

set_int16(b, v, at) ==
  [b EXCEPT !.buf = Store(b, b.data + at, Net(v, 2)), !.ok = @ /\ at + 2 <= buf_len(b)]
get_int16(b) == Signed(Peek(b, 2))
-----------------------------------------------------------------------------
(* The classes of records: the shipped ones, and one that uses the rest of *)
(* the interface of Serializer.                                            *)
Serialized(b, m) ==
  LET z == put(reset(b), 2)
  IN  CASE proto = "WordRecord" -> FoldLeft(put_data, put_int32(z, Len(m)), m)
        [] proto = "Tweet"      -> put_data(z, m)
        [] proto = "Sample"     -> put_data(put_int64(put_int32(put_int16(z, m.i16), m.i32), m.i64), m.data)

(* Mutant of finalize: the length slot keeps what an earlier record left. *)
finalizeNot(b) == b
finalize(b) == set_int16(b, buf_len(b), 0)

Words(b) ==
  LET n == consume_int32(b)
  IN  FoldLeft(LAMBDA r, i : LET s == consume_all_data_into_string(r.b) IN [b |-> s.b, v |-> Append(r.v, s.v)],
               [b |-> n.b, v |-> <<>>], [i \in 1..n.v |-> i])
Sample(b) ==
  LET h == consume_int16(b) i == consume_int32(h.b) l == consume_int64(i.b) d == consume_all_data(l.b)
  IN  [b |-> d.b, v |-> [i16 |-> h.v, i32 |-> i.v, i64 |-> l.v, data |-> d.v]]

build_same(b) ==
  CASE proto = "WordRecord" -> IF buf_len(b) = 0 THEN [b |-> b, v |-> <<>>] ELSE Words(b)
    [] proto = "Tweet"      -> consume_all_data_into_string(b)
    [] proto = "Sample"     -> Sample(b)
-----------------------------------------------------------------------------
SerBufferInit ==
  /\ proto \in DOMAIN Records
  /\ sent = <<>> /\ got = <<>> /\ out = New /\ in = New /\ net = <<>>

export(m) ==
  /\ Len(sent) < MaxRecords
  /\ LET b == finalize(Serialized(out, m)) IN out' = b /\ net' = net \o data(b)
  /\ sent' = Append(sent, m)
  /\ UNCHANGED <<proto, got, in>>

(* Mutant of Complete: a record is taken up when its length has come. *)
CompleteEarly == buf_len(in) >= 2
Complete == buf_len(in) >= 2 /\ buf_len(in) >= get_int16(in)

recv(n) ==
  /\ ~Complete /\ Len(net) > 0
  /\ LET k == IF n < Len(net) THEN n ELSE Len(net)
     IN  in' = put_raw_data(in, SubSeq(net, 1, k)) /\ net' = SubSeq(net, k + 1, Len(net))
  /\ UNCHANGED <<proto, sent, got, out>>

send_record ==
  /\ Complete
  /\ LET r == build_same(consume(in, 2)) IN in' = compact(r.b) /\ got' = Append(got, r.v)
  /\ UNCHANGED <<proto, sent, out, net>>

SerBufferNext == (\E m \in Records[proto] : export(m)) \/ (\E n \in Pieces : recv(n)) \/ send_record
-----------------------------------------------------------------------------
(* The source rebuilds the records that were exported, field by field, in  *)
(* order, however the stream is cut into pieces.                           *)
Rebuilt == got = SubSeq(sent, 1, Len(got))

(* data stays between head and tail and tail before the end, so that no    *)
(* read is of a byte that was not received.                                *)
WithinBuffer ==
  \A b \in {out, in} : b.ok /\ 0 <= b.data /\ b.data <= b.tail /\ b.tail <= End

(* Nothing of the stream is dropped or read twice: what the source holds   *)
(* and what is on its way are the records it has not sent on.              *)
StreamKept ==
  data(in) \o net =
    FlattenSeq([i \in 1..Len(sent) - Len(got) |-> data(finalize(Serialized(New, sent[Len(got) + i])))])

-----------------------------------------------------------------------------
(***************************************************************************)
(* SerExporter blocks that serialize messages into TCP streams, and the    *)
(* SerSource block that reads them back: Serializer, BufferSerializer,     *)
(* blocks/SerExporter.cpp and blocks/SerSource.cpp.  A byte is the pair of *)
(* its message and its place in it; the first two are the length.          *)
(***************************************************************************)
CONSTANTS Exporters,
          Lens,          \* lengths of serialized messages, the two length bytes included
          Half,          \* 2^15: a 16-bit length from here on is read back negative
          RecvSize,      \* DEFAULT_RECV_SIZE
          MaxClients,    \* MAX_CLIENT_SOCKET
          MaxMsgs        \* exporter -> messages it receives

MaxData == 2 * Half      \* MESSAGE_MAX_DATA

VARIABLES sock,      \* exporter -> "none" (-1), "up", or "closed" but not -1
          msgs,      \* exporter -> lengths of the messages it accepted
          lost,      \* exporter -> some of them were handed to a dead socket
          threw,     \* exporter -> a connect failed in _receive_msg
          wire,      \* exporter -> bytes on their way
          lsock,     \* listening socket of the source: "none", "up", "deaf"
          clients,   \* client_socket: the accepted exporters
          refused,   \* accepted descriptors that were dropped
          ser,       \* exporter -> the bytes in its Serializer at the source
          stream_got,       \* exporter -> records sent on by the source
          source     \* "ok", "overread" (undefined from there on), "thrown"
SerStreamVars == <<sock, msgs, lost, threw, wire, lsock, clients, refused, ser, stream_got, source>>

exporter == <<sock, msgs, lost, threw, wire>>
receiver == <<lsock, clients, refused, ser, stream_got, source>>

SerStreamInit ==
  /\ sock = [e \in Exporters |-> "none"] /\ msgs = [e \in Exporters |-> <<>>]
  /\ lost = [e \in Exporters |-> FALSE] /\ threw = [e \in Exporters |-> FALSE]
  /\ wire = [e \in Exporters |-> <<>>]
  /\ lsock = "none" /\ clients = <<>> /\ refused = {} /\ source = "ok"
  /\ ser = [e \in Exporters |-> <<>>] /\ stream_got = [e \in Exporters |-> <<>>]
-----------------------------------------------------------------------------
(* Serializer::reset, the fields, finalize: the bytes of the n-th message. *)
StreamSerialized(n, len) == [i \in 1..len |-> <<n, i, len>>]

(* A connection can be made while the source listens. *)
Connects(e) == lsock = "up" /\ sock' = [sock EXCEPT ![e] = "up"]

(* Mutant of configure: the socket of a failed connect is kept. *)
configure_keep(e) ==
  /\ sock[e] = "none"
  /\ Connects(e) \/ sock' = [sock EXCEPT ![e] = "closed"]
  /\ UNCHANGED <<msgs, lost, threw, wire, receiver>>

configure(e) ==
  /\ sock[e] = "none"
  /\ Connects(e) \/ sock' = [sock EXCEPT ![e] = "none"]
  /\ UNCHANGED <<msgs, lost, threw, wire, receiver>>

(* The result of send is not looked at. *)
Send(e, len) ==
  /\ msgs' = [msgs EXCEPT ![e] = Append(@, len)]
  /\ IF sock'[e] = "up"
     THEN wire' = [wire EXCEPT ![e] = @ \o StreamSerialized(Len(msgs[e]) + 1, len)] /\ UNCHANGED lost
     ELSE lost' = [lost EXCEPT ![e] = TRUE] /\ UNCHANGED wire
  /\ UNCHANGED threw

receive_msg(e, len) ==
  /\ Len(msgs[e]) < MaxMsgs[e]
  /\ \/ sock[e] # "none" /\ UNCHANGED sock /\ Send(e, len)
     \/ sock[e] = "none" /\ Connects(e) /\ Send(e, len)
     \/ /\ sock[e] = "none"
        /\ \/ UNCHANGED <<sock, threw>>                  \* no address, or no socket: return
           \/ sock' = [sock EXCEPT ![e] = "closed"] /\ threw' = [threw EXCEPT ![e] = TRUE]
        /\ UNCHANGED <<msgs, lost, wire>>
  /\ UNCHANGED receiver
-----------------------------------------------------------------------------
(* First call of _do_async.  When bind or listen fails the socket is kept  *)
(* and never listens.                                                      *)
open ==
  /\ lsock = "none" /\ source = "ok"
  /\ lsock' \in {"none", "up", "deaf"}
  /\ UNCHANGED <<exporter, clients, refused, ser, stream_got, source>>

(* set_int16 and read_int16: 16 bits, read back as a signed value. *)
StreamSigned(v) == LET u == v % (2 * Half) IN IF u >= Half THEN u - 2 * Half ELSE u

(* Mutant of StreamComplete: the two length bytes are not counted. *)
CompleteShort(s) == Len(s) >= 2 /\ Len(s) >= StreamSigned(s[1][3]) - 2

StreamComplete(s) == Len(s) >= 2 /\ Len(s) >= StreamSigned(s[1][3])

HasRecord == {e \in {clients[i] : i \in 1..Len(clients)} : StreamComplete(ser[e])}

(* One record of every client that has one: consume(2), build_same, which  *)
(* reads the fields wherever the data ends, and next().                    *)
stream_consume ==
  /\ lsock # "none" /\ source = "ok" /\ HasRecord # {}
  /\ stream_got' = [e \in Exporters |-> IF e \in HasRecord THEN Append(stream_got[e], ser[e][1][1]) ELSE stream_got[e]]
  /\ ser' = [e \in Exporters |->
              IF e \in HasRecord THEN SubSeq(ser[e], ser[e][1][3] + 1, Len(ser[e])) ELSE ser[e]]
  /\ source' = IF \E e \in HasRecord : Len(ser[e]) < ser[e][1][3] THEN "overread" ELSE "ok"
  /\ UNCHANGED <<exporter, lsock, clients, refused>>

(* Mutant of Blocks: data is fetched although records are waiting. *)
BlocksEarly == lsock # "none" /\ source = "ok"

(* select is reached only when no client has a record. *)
Blocks == lsock # "none" /\ source = "ok" /\ HasRecord = {}

Pending == {e \in Exporters : sock[e] = "up" /\ e \notin {clients[i] : i \in 1..Len(clients)} \cup refused}

accept(e) ==
  /\ Blocks /\ lsock = "up" /\ e \in Pending
  /\ IF Len(clients) = MaxClients
     THEN refused' = refused \cup {e} /\ UNCHANGED clients
     ELSE clients' = Append(clients, e) /\ UNCHANGED refused
  /\ UNCHANGED <<exporter, lsock, ser, stream_got, source>>

(* Some of the readable clients, each with up to RecvSize bytes. *)
stream_recv(E, n) ==
  /\ Blocks /\ E # {}
  /\ \A e \in E : Len(wire[e]) >= n
  /\ ser' = [e \in Exporters |-> IF e \in E THEN ser[e] \o SubSeq(wire[e], 1, n) ELSE ser[e]]
  /\ wire' = [e \in Exporters |-> IF e \in E THEN SubSeq(wire[e], n + 1, Len(wire[e])) ELSE wire[e]]
  /\ UNCHANGED <<sock, msgs, lost, threw, lsock, clients, refused, stream_got, source>>

(* A recv that fails closes the descriptor, which stays in the list: the   *)
(* next select fails and a pointer is thrown.                              *)
recv_error ==
  /\ Blocks /\ clients # <<>>
  /\ source' = "thrown"
  /\ UNCHANGED <<exporter, lsock, clients, refused, ser, stream_got>>

SerStreamNext ==
  \/ \E e \in Exporters : configure(e) \/ accept(e) \/ \E len \in Lens : receive_msg(e, len)
  \/ open \/ stream_consume \/ recv_error
  \/ \E E \in SUBSET {clients[i] : i \in 1..Len(clients)}, n \in 1..RecvSize : stream_recv(E, n)
-----------------------------------------------------------------------------
(* Every message so far fits in a positive 16-bit length. *)
Short == \A e \in Exporters : \A i \in 1..Len(msgs[e]) : msgs[e][i] < Half

(* The source hands on the records of a stream in order, each once, as     *)
(* long as no message reaches 2^15 bytes, and it never reads beyond what   *)
(* it has received.                                                        *)
InOrder ==
  Short => /\ \A e \in Exporters : stream_got[e] = [i \in 1..Len(stream_got[e]) |-> i]
           /\ source # "overread"

(* The buffer of a client never outgrows MESSAGE_MAX_DATA, where           *)
(* put_raw_data aborts: records are taken out before more is read.         *)
BufferFits == Short => \A e \in Exporters : Len(ser[e]) <= MaxData

(* A message is handed to a dead socket only by an exporter that has       *)
(* thrown: the connect of _configure puts the socket back to -1.           *)
LostOnlyAfterThrow == \A e \in Exporters : lost[e] => threw[e]
=============================================================================
