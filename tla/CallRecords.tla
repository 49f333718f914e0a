---------------------------- MODULE CallRecords -----------------------------
(***************************************************************************)
(* The two blocks of the bypass fraud application: CDRSourceBypass reads   *)
(* call records from a file, one per line, and sends each as a message     *)
(* with tags; LogWriter waits for two tags of a message, which blocks      *)
(* between them fill in from other threads, and writes a line for it.      *)
(*                                                                         *)
(* A line of the file is a record of what the tags are made of.  Lines     *)
(* have their nine separators; a line longer than the buffer is Long.      *)
(***************************************************************************)
EXTENDS Integers, Sequences, FiniteSets, SequencesExt

CONSTANTS
  Lines,       \* the lines a file may hold: kind, src, dst
  MaxLines,    \* bound on the length of the file, its header included
  UTIME_WAIT   \* polls LogWriter adds to the first one

VARIABLES
  file,      \* the lines not read yet
  ended,     \* the last line of the file ends with a newline
  lines,     \* all lines of the file
  source,    \* CDRSourceBypass: new, open, eof, stuck
  msg_recv,  \* lines it has read
  call_s, call_d,   \* its buffers of the two numbers
  sent,      \* the messages it has sent
  arrived,   \* how many of them LogWriter has taken
  tags,      \* the tags the message at LogWriter has by now
  writer,    \* where LogWriter is
  counter,   \* its failed polls
  m_msg_type, \* the type it expects: never assigned, so any value
  lineno,    \* messages it has counted
  log        \* what it has written

vars == <<file, ended, lines, source, msg_recv, call_s, call_d, sent, arrived,
          tags, writer, counter, m_msg_type, lineno, log>>

sourceVars == <<file, ended, lines, source, msg_recv, call_s, call_d, sent>>
writerVars == <<arrived, tags, writer, counter, m_msg_type, lineno, log>>

\* _configure: the file is opened and the tags are registered
Configure ==
  /\ source = "new"
  /\ source' = "open"
  /\ UNCHANGED <<file, ended, lines, msg_recv, call_s, call_d, sent>>
  /\ UNCHANGED writerVars

\* The tags of one line, in the order they are filled in: src_id, dst_id,
\* src_dst.  A text message has no destination of its own.
TagsOf(l, d) ==
  LET dst == IF l.kind = "call" THEN l.dst ELSE d
  IN  [call |-> l.kind = "call", src_id |-> l.src, src_dst |-> <<l.src, dst>>]

\* Mutant: src_dst is filled in before dst_id.
TagsOfEarly(l, d) ==
  [call |-> l.kind = "call", src_id |-> l.src, src_dst |-> <<l.src, d>>]

Tagged(l, d) == TagsOf(l, d)

\* getline has met the end of the file while reading this line
AtEof ==
  \/ file = <<>>
  \/ Len(file) = 1 /\ ~ended /\ Head(file).kind # "long"

\* Mutant: the end is looked for after the line was used.
AtEofLate == file = <<>>

Eof == AtEof

\* One turn of the loop of _do_async
ReadLine ==
  /\ source = "open" /\ ~Eof
  /\ LET l == Head(file)
     IN  /\ file' = Tail(file)
         /\ msg_recv' = msg_recv + 1
         /\ IF l.kind = "long"
            THEN /\ source' = "stuck"
                 /\ UNCHANGED <<call_s, call_d, sent>>
            ELSE IF msg_recv' = 1
            THEN UNCHANGED <<source, call_s, call_d, sent>>
            ELSE /\ call_s' = l.src
                 /\ call_d' = IF l.kind = "call" THEN l.dst ELSE call_d
                 /\ sent' = Append(sent, Tagged(l, call_d))
                 /\ UNCHANGED source
  /\ UNCHANGED <<ended, lines>>
  /\ UNCHANGED writerVars

\* The loop ends; later calls of _do_async find the stream at its end
EndOfFile ==
  /\ source = "open" /\ Eof
  /\ source' = "eof"
  /\ file' = <<>>
  /\ UNCHANGED <<ended, lines, msg_recv, call_s, call_d, sent>>
  /\ UNCHANGED writerVars
-----------------------------------------------------------------------------
\* LogWriter::_receive_msg up to the first wait
Receive ==
  /\ writer = "idle" /\ arrived < Len(sent)
  /\ m_msg_type = "PairMsg"
  /\ arrived' = arrived + 1
  /\ lineno' = lineno + 1
  /\ counter' = 0
  /\ tags' = {}
  /\ writer' = "res_gng"
  /\ UNCHANGED <<m_msg_type, log>>
  /\ UNCHANGED sourceVars

\* It takes the message for one of another type and throws
Refuse ==
  /\ writer = "idle" /\ arrived < Len(sent)
  /\ m_msg_type # "PairMsg"
  /\ arrived' = arrived + 1
  /\ UNCHANGED <<tags, writer, counter, m_msg_type, lineno, log>>
  /\ UNCHANGED sourceVars

\* A block in between fills in a tag of the message, at any time
TagArrives(t) ==
  /\ writer # "idle" /\ t \notin tags
  /\ tags' = tags \cup {t}
  /\ UNCHANGED <<arrived, writer, counter, m_msg_type, lineno, log>>
  /\ UNCHANGED sourceVars

\* The tag is there: its value is written; after the second one the line
\* number ends the line
Poll ==
  /\ writer # "idle" /\ writer \in tags
  /\ counter' = 0
  /\ writer' = IF writer = "res_gng" THEN "line" ELSE "idle"
  /\ log' = IF writer = "res_gng" THEN Append(log, [part |-> "res_gng", no |-> 0])
            ELSE Append(log, [part |-> "line", no |-> lineno])
  /\ UNCHANGED <<arrived, tags, m_msg_type, lineno>>
  /\ UNCHANGED sourceVars

\* The tag is not there: another poll, or the message is given up
GivenUp == "idle"

\* Mutant: the first wait is given up, the message is not.
GivenUpOne == IF writer = "res_gng" THEN "line" ELSE "idle"

AfterTimeout == GivenUp

PollAgain ==
  /\ writer # "idle" /\ writer \notin tags
  /\ IF counter = UTIME_WAIT
     THEN writer' = AfterTimeout /\ UNCHANGED counter
     ELSE counter' = counter + 1 /\ UNCHANGED writer
  /\ UNCHANGED <<arrived, tags, m_msg_type, lineno, log>>
  /\ UNCHANGED sourceVars

Init ==
  /\ lines \in UNION {[1..n -> Lines] : n \in 0..MaxLines}
  /\ ended \in BOOLEAN
  /\ file = lines
  /\ source = "new" /\ msg_recv = 0
  /\ call_s = "" /\ call_d = "" /\ sent = <<>>
  /\ arrived = 0 /\ tags = {} /\ writer = "idle" /\ counter = 0
  /\ m_msg_type \in {"PairMsg", "other"}
  /\ lineno = 0 /\ log = <<>>

Next ==
  \/ Configure
  \/ ReadLine
  \/ EndOfFile
  \/ Receive
  \/ Refuse
  \/ \E t \in {"res_gng", "line"} : TagArrives(t)
  \/ Poll
  \/ PollAgain

Spec == Init /\ [][Next]_vars
-----------------------------------------------------------------------------
\* The lines that count as records: all but the header, and but a last line
\* without a newline
Records == SubSeq(lines, 2, Len(lines) - (IF ended THEN 0 ELSE 1))

(***************************************************************************)
(* The records of the file are sent in order, without the header, each     *)
(* with its own caller; a reader that reached the end has sent all of      *)
(* them (an unterminated last line is not a record).                       *)
(***************************************************************************)
RecordsInOrder ==
  /\ Len(sent) <= Len(Records)
  /\ \A i \in DOMAIN sent : sent[i].src_id = Records[i].src
  /\ source = "eof" => Len(sent) = Len(Records)

(***************************************************************************)
(* The pair of numbers of a call is the call's own, although the buffers   *)
(* it is put together from outlive the record (a text message leaves the   *)
(* destination of an earlier call in place).                               *)
(***************************************************************************)
PairIsTheCalls ==
  \A i \in DOMAIN sent :
    sent[i].call => sent[i].src_dst = <<Records[i].src, Records[i].dst>>

\* A line of the log is whole when its number follows its first part
WholeLines == {i \in DOMAIN log : log[i].part = "line"}

(***************************************************************************)
(* Every number in the log ends a line whose first part was written for    *)
(* the same message, and the numbers increase: a message that is given up  *)
(* leaves a gap, and half a line when it was given up at the second wait.  *)
(***************************************************************************)
LogLinesMatch ==
  /\ \A i \in WholeLines : i > 1 /\ log[i - 1].part = "res_gng"
  /\ \A i, j \in WholeLines : i < j => log[i].no < log[j].no
  /\ Cardinality(WholeLines) <= lineno
=============================================================================
