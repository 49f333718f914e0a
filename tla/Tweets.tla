------------------------------- MODULE Tweets -------------------------------
(***************************************************************************)
(* The trending application, two machines: the JSON tokenizer, and the way *)
(* of hashtags from the reader to the counters.                            *)
(***************************************************************************)
EXTENDS Integers, Sequences, FiniteSets, SequencesExt, FiniteSetsExt, Functions

-----------------------------------------------------------------------------
(***************************************************************************)
(* The JSON tokenizer of lib/jsmn and the loop of TweetFinder that drives  *)
(* it: the parser stops when it runs out of tokens, the block enlarges the *)
(* token array and calls the parser again where it stopped; once a tweet   *)
(* is parsed the block looks for the first hashtag of its text.            *)
(*                                                                         *)
(* A document is a sequence of characters; the model tells apart only what *)
(* the parser tells apart.  "T" stands for the four letters of the key     *)
(* text, "x" for any other letter or digit, "~" for a control character.   *)
(* Positions and token indexes start at 0, as in the source.               *)
(***************************************************************************)
CONSTANTS
  Docs,        \* the documents that arrive
  AllocToken,  \* ALLOC_TOKEN, by how many tokens the array grows
  MaxTokens    \* bound: no document needs more tokens

VARIABLES
  js,          \* the text being parsed
  pos,         \* parser->pos
  toknext,     \* parser->toknext
  toksuper,    \* parser->toksuper
  tokens,      \* the token array, a function on 0..allocated-1
  pc,          \* where TweetFinder::_receive_msg is
  hashtag      \* what was found: first and last position, or <<>>

JsmnVars == <<js, pos, toknext, toksuper, tokens, pc, hashtag>>

Garbage == [type |-> "GARBAGE", start |-> 0, end |-> 0, size |-> 0]
Open == {"{", "["}
Close == {"}", "]"}
Blank == {",", ":", " "}
Alnum == {"x", "T"}
Escapable == {"\"", "\\", "x"}

allocated == Cardinality(DOMAIN tokens)
Char(p) == js[p + 1]
Positions == 0..(Len(js) - 1)

\* jsmn_fill_token
jsmn_fill_token(type, start, end) ==
  [type |-> type, start |-> start, end |-> end, size |-> 0]

\* jsmn_alloc_token: the next unused token, -1 when there is none
jsmn_alloc_token ==
  LET free == {i \in toknext..(allocated - 1) :
                 tokens[i].start = -1 /\ tokens[i].end = -1}
  IN  IF free = {} THEN -1 ELSE Min(free)

\* the enclosing token counts one more child
Counted(toks) ==
  IF toksuper = -1 THEN toks ELSE [toks EXCEPT ![toksuper].size = @ + 1]

\* The open tokens below a token index
Unclosed(toks, n) ==
  {i \in 0..(n - 1) : toks[i].start # -1 /\ toks[i].end = -1}

\* A value that ends before position `end`: stored, or the parser stops for
\* want of a token with its position back at the value's first character.
PlaceRewinding(type, start, end, last) ==
  LET i == jsmn_alloc_token
  IN  \/ /\ i = -1
         /\ pc' = "NOMEM"
         /\ UNCHANGED <<pos, toknext, toksuper, tokens>>
      \/ /\ i # -1
         /\ tokens' = Counted([tokens EXCEPT ![i] = jsmn_fill_token(type, start, end)])
         /\ toknext' = i + 1
         /\ pos' = last + 1
         /\ UNCHANGED <<toksuper, pc>>

\* Mutant: the position is not taken back when tokens run out.
PlaceAhead(type, start, end, last) ==
  LET i == jsmn_alloc_token
  IN  \/ /\ i = -1
         /\ pc' = "NOMEM"
         /\ pos' = last + 1
         /\ UNCHANGED <<toknext, toksuper, tokens>>
      \/ /\ i # -1
         /\ tokens' = Counted([tokens EXCEPT ![i] = jsmn_fill_token(type, start, end)])
         /\ toknext' = i + 1
         /\ pos' = last + 1
         /\ UNCHANGED <<toksuper, pc>>

Place(type, start, end, last) == PlaceRewinding(type, start, end, last)

Stop(code) == pc' = code /\ UNCHANGED <<pos, toknext, toksuper, tokens>>

\* jsmn_parse_string: up to the closing quote, over the escaped characters
jsmn_parse_string ==
  LET scan[k \in (pos + 1)..(Len(js) + 1)] ==
        IF k >= Len(js) THEN "PART"
        ELSE IF Char(k) = "\"" THEN "OK"
        ELSE IF Char(k) # "\\" THEN scan[k + 1]
        ELSE IF k + 1 < Len(js) /\ Char(k + 1) \in Escapable
             THEN scan[k + 2] ELSE "INVAL"
      escaped[k \in (pos + 1)..(Len(js) - 1)] ==
        k > pos + 1 /\ Char(k - 1) = "\\" /\ ~escaped[k - 1]
      closing == {k \in (pos + 1)..(Len(js) - 1) : Char(k) = "\"" /\ ~escaped[k]}
  IN  /\ Char(pos) = "\""
      /\ IF scan[pos + 1] = "OK"
         THEN Place("STRING", pos + 1, Min(closing), Min(closing))
         ELSE Stop(scan[pos + 1])

\* jsmn_parse_primitive (not strict): up to a separator, a closing bracket
\* or the end of the text
jsmn_parse_primitive ==
  LET ends == {k \in pos..(Len(js) - 1) : Char(k) \in Close \cup Blank}
      end == IF ends = {} THEN Len(js) ELSE Min(ends)
  IN  /\ Char(pos) \notin Open \cup Close \cup Blank \cup {"\""}
      /\ IF \E k \in pos..(end - 1) : Char(k) = "~"
         THEN Stop("INVAL")
         ELSE Place("PRIMITIVE", pos, end, end - 1)

TypeOf(c) == IF c \in {"{", "}"} THEN "OBJECT" ELSE "ARRAY"

\* '{' and '['
OpenBracket ==
  LET i == jsmn_alloc_token
  IN  /\ Char(pos) \in Open
      /\ IF i = -1
         THEN Stop("NOMEM")
         ELSE /\ tokens' = [Counted(tokens) EXCEPT ![i].type = TypeOf(Char(pos)),
                                                   ![i].start = pos]
              /\ toknext' = i + 1
              /\ toksuper' = i
              /\ pos' = pos + 1
              /\ UNCHANGED pc

\* The token that becomes the enclosing one when token i is closed
OuterOpen(toks, i) ==
  LET outer == Unclosed(toks, i) IN IF outer = {} THEN -1 ELSE Max(outer)

\* Mutant: the enclosing token is not looked up again.
OuterNone(toks, i) == -1

Outer(toks, i) == OuterOpen(toks, i)

\* '}' and ']'
CloseBracket ==
  LET open == Unclosed(tokens, toknext)
      i == Max(open)
      closed == [tokens EXCEPT ![i].end = pos + 1]
  IN  /\ Char(pos) \in Close
      /\ IF open = {} THEN Stop("INVAL")
         ELSE IF tokens[i].type # TypeOf(Char(pos)) THEN Stop("INVAL")
         ELSE /\ tokens' = closed
              /\ toksuper' = Outer(closed, i)
              /\ pos' = pos + 1
              /\ UNCHANGED <<toknext, pc>>

Separator ==
  /\ Char(pos) \in Blank
  /\ pos' = pos + 1
  /\ UNCHANGED <<toknext, toksuper, tokens, pc>>

\* The end of the text: a container still open makes it a part of one
EndOfText ==
  /\ pos = Len(js)
  /\ Stop(IF Unclosed(tokens, toknext) = {} THEN "SUCCESS" ELSE "PART")

\* One turn of the loop of jsmn_parse
jsmn_parse ==
  /\ pc = "parsing"
  /\ \/ EndOfText
     \/ /\ pos < Len(js)
        /\ OpenBracket \/ CloseBracket \/ jsmn_parse_string \/ Separator
             \/ jsmn_parse_primitive
  /\ UNCHANGED <<js, hashtag>>
-----------------------------------------------------------------------------
\* jsmn_parse begins by clearing the tokens that are not in use yet
Cleared(toks, n) ==
  [i \in DOMAIN toks |-> IF i >= n THEN jsmn_fill_token("PRIMITIVE", -1, -1)
                                   ELSE toks[i]]

\* TweetFinder::_receive_msg: jsmn_init and the first call of jsmn_parse
Receive(d) ==
  /\ pc = "idle"
  /\ js' = d
  /\ pos' = 0 /\ toknext' = 0 /\ toksuper' = -1
  /\ tokens' = Cleared(tokens, 0)
  /\ hashtag' = <<>>
  /\ pc' = "parsing"

\* JSMN_ERROR_NOMEM: realloc, and jsmn_parse is called again
Realloc ==
  /\ pc = "NOMEM"
  /\ allocated + AllocToken <= MaxTokens
  /\ LET grown == [i \in 0..(allocated + AllocToken - 1) |->
                     IF i \in DOMAIN tokens THEN tokens[i] ELSE Garbage]
     IN  tokens' = Cleared(grown, toknext)
  /\ pc' = "parsing"
  /\ UNCHANGED <<js, pos, toknext, toksuper, hashtag>>

\* JSMN_ERROR_INVAL and JSMN_ERROR_PART: the tweet is dropped
Dropped ==
  /\ pc \in {"INVAL", "PART"}
  /\ pc' = "idle"
  /\ UNCHANGED <<js, pos, toknext, toksuper, tokens, hashtag>>

\* The first '#' of a string token and the letters after it
HashtagIn(t) ==
  LET marks == {k \in t.start..(t.end - 1) : Char(k) = "#"}
      from == Min(marks)
      stops == {k \in (from + 1)..(t.end - 1) : Char(k) \notin Alnum}
  IN  IF marks = {} THEN <<>>
      ELSE <<from, (IF stops = {} THEN t.end ELSE Min(stops)) - 1>>

\* Mutant: the search for '#' does not stop at the end of the text.
HashtagAfter(t) ==
  LET marks == {k \in t.start..(Len(js) - 1) : Char(k) = "#"}
      from == Min(marks)
      stops == {k \in (from + 1)..(Len(js) - 1) : Char(k) \notin Alnum}
  IN  IF marks = {} THEN <<>>
      ELSE <<from, (IF stops = {} THEN Len(js) ELSE Min(stops)) - 1>>

Hashtag(t) == HashtagIn(t)

IsTextKey(t) == t.type = "STRING" /\ t.start < Len(js) /\ Char(t.start) = "T"

\* JSMN_SUCCESS: every second token of the object is taken for a key
FindText ==
  /\ pc = "SUCCESS"
  /\ allocated > 0
  /\ LET keys == {j \in {2 * k : k \in 0..allocated} :
                    /\ tokens[0].type = "OBJECT"
                    /\ j < tokens[0].size
                    /\ IsTextKey(tokens[1 + j])
                    /\ 2 + j < allocated
                    /\ tokens[2 + j].type = "STRING"}
     IN  hashtag' = IF keys = {} THEN <<>> ELSE Hashtag(tokens[2 + Min(keys)])
  /\ pc' = "idle"
  /\ UNCHANGED <<js, pos, toknext, toksuper, tokens>>

\* A text without tokens as the first tweet: the token array is still a
\* null pointer and the block reads its first element
ReadNull ==
  /\ pc = "SUCCESS"
  /\ allocated = 0
  /\ pc' = "crashed"
  /\ UNCHANGED <<js, pos, toknext, toksuper, tokens, hashtag>>

JsmnInit ==
  /\ js = <<>> /\ pos = 0 /\ toknext = 0 /\ toksuper = -1
  /\ tokens = [i \in {} |-> Garbage]
  /\ pc = "idle" /\ hashtag = <<>>

JsmnNext ==
  \/ pc = "idle" /\ \E d \in Docs : Receive(d)
  \/ jsmn_parse
  \/ Realloc
  \/ Dropped
  \/ FindText
  \/ ReadNull

JsmnSpec == JsmnInit /\ [][JsmnNext]_JsmnVars
-----------------------------------------------------------------------------
Parsed == pc = "SUCCESS"
Used == 0..(toknext - 1)
Container(i) == tokens[i].type \in {"OBJECT", "ARRAY"}
Inside(j, i) == tokens[i].start < tokens[j].start /\ tokens[j].end < tokens[i].end
Parent(i, j) ==
  /\ Container(i) /\ Inside(j, i)
  /\ \A k \in Used : Container(k) /\ Inside(j, k) => k = i \/ Inside(i, k)

(***************************************************************************)
(* The tokens of a parsed text are its values: a container begins and ends *)
(* with its brackets, its size is the number of values directly inside it, *)
(* nothing else has a size, and tokens come in the order of the text (the  *)
(* promise of jsmn_parse, however often the token array had to grow).      *)
(***************************************************************************)
TokensAreTheTree ==
  Parsed =>
    /\ \A i \in Used :
         IF Container(i)
         THEN /\ tokens[i].type = TypeOf(Char(tokens[i].start))
              /\ tokens[i].type = TypeOf(Char(tokens[i].end - 1))
              /\ tokens[i].size = Cardinality({j \in Used : Parent(i, j)})
         ELSE tokens[i].size = 0
    /\ \A i, j \in Used : i < j => tokens[i].start < tokens[j].start

(***************************************************************************)
(* A parsed text has no character that is neither a separator nor part of  *)
(* a token: the parser that was stopped for want of tokens and called      *)
(* again skips nothing (jsmn_parse_string and jsmn_parse_primitive take    *)
(* their position back).                                                   *)
(***************************************************************************)
NothingSkipped ==
  Parsed =>
    \A p \in Positions :
      Char(p) \in Blank \/ \E i \in Used :
        LET q == IF tokens[i].type = "STRING" THEN 1 ELSE 0
        IN  tokens[i].start - q <= p /\ p < tokens[i].end + q

(***************************************************************************)
(* A hashtag that TweetFinder reports is part of one string that follows a *)
(* string beginning with text, and holds one '#' only.                     *)
(***************************************************************************)
HashtagIsInTheText ==
  hashtag # <<>> =>
    /\ \E i \in Used \ {0} :
         /\ tokens[i].type = "STRING"
         /\ IsTextKey(tokens[i - 1])
         /\ tokens[i].start <= hashtag[1] /\ hashtag[2] < tokens[i].end
    /\ {k \in hashtag[1]..hashtag[2] : Char(k) = "#"} = {hashtag[1]}

-----------------------------------------------------------------------------
(***************************************************************************)
(* The Twitter trending application: TweetReader deals the lines of a file *)
(* round robin to its gates, a TweetFinder behind each gate collects the   *)
(* hashtags of its tweets in one batch per WordCounter, chosen by a hash   *)
(* of the hashtag, and sends a batch when it is full; a WordCounter counts *)
(* the words it receives.  How a tweet is parsed is module Jsmn; here a    *)
(* tweet is the hashtag found in it, or None.                              *)
(***************************************************************************)
CONSTANTS
  Words,      \* the hashtags
  None,       \* a tweet without hashtag, or one that is not valid
  Hash,       \* std::hash, a function on Words
  Finders,    \* the number of gates of TweetReader
  NGates,     \* the number of gates of each TweetFinder
  BathSize,   \* BATH_SIZE, the words of a batch
  MaxTweets,  \* bound on the lines of the file
  MaxEmpty    \* bound on the empty tweets sent after the end of the file

VARIABLES
  read,           \* lines of the file read so far, in order
  next_out_port,  \* TweetReader's next gate
  eof,            \* the file has ended
  empties,        \* empty tweets sent since
  tweets,         \* tweets on their way to each finder
  hashtag_batch,  \* the batches of each finder
  sentTuple,      \* batches each finder has sent
  records,        \* WordRecords on their way to each counter
  words           \* the counts of each counter

TweetPipeVars == <<read, next_out_port, eof, empties, tweets, hashtag_batch, sentTuple,
                   records, words>>

Ports == 0..(Finders - 1)
Gates == 0..(NGates - 1)

\* TweetReader::_do_async: one line goes to the next gate
Read(w) ==
  /\ ~eof /\ Len(read) < MaxTweets
  /\ read' = Append(read, w)
  /\ tweets' = [tweets EXCEPT ![next_out_port] = Append(@, w)]
  /\ next_out_port' = (next_out_port + 1) % Finders
  /\ UNCHANGED <<eof, empties, hashtag_batch, sentTuple, records, words>>

\* The file has ended: the reader sleeps, reads an empty line and sends it
ReadAtEnd ==
  /\ empties < MaxEmpty
  /\ eof' = TRUE
  /\ empties' = empties + 1
  /\ tweets' = [tweets EXCEPT ![next_out_port] = Append(@, None)]
  /\ next_out_port' = (next_out_port + 1) % Finders
  /\ UNCHANGED <<read, hashtag_batch, sentTuple, records, words>>

\* The gate of a word
GateByHash(f, w) == Hash[w] % NGates

\* Mutant: each finder keeps to one gate.
GateByFinder(f, w) == f % NGates

Gate(f, w) == GateByHash(f, w)

\* A batch that was sent is replaced by an empty one
Replaced(batch) == <<>>

\* Mutant: the batch that was sent is filled further.
NotReplaced(batch) == Tail(batch)

Fresh(batch) == Replaced(batch)

\* TweetFinder::_receive_msg after the parse
Find(f) ==
  /\ tweets[f] # <<>>
  /\ tweets' = [tweets EXCEPT ![f] = Tail(@)]
  /\ LET w == Head(tweets[f])
         g == Gate(f, w)
         batch == Append(hashtag_batch[f][g], w)
     IN  IF w = None
         THEN UNCHANGED <<hashtag_batch, sentTuple, records>>
         ELSE IF Len(batch) < BathSize
         THEN /\ hashtag_batch' = [hashtag_batch EXCEPT ![f][g] = batch]
              /\ UNCHANGED <<sentTuple, records>>
         ELSE /\ records' = [records EXCEPT ![g] = Append(@, batch)]
              /\ sentTuple' = [sentTuple EXCEPT ![f] = @ + 1]
              /\ hashtag_batch' = [hashtag_batch EXCEPT ![f][g] = Fresh(batch)]
  /\ UNCHANGED <<read, next_out_port, eof, empties, words>>

Occurrences(w, s) == Cardinality({i \in DOMAIN s : s[i] = w})

\* WordCounter::_receive_msg: every word of the record is counted
Count(g) ==
  /\ records[g] # <<>>
  /\ words' = [words EXCEPT ![g] =
                 [w \in Words |-> @[w] + Occurrences(w, Head(records[g]))]]
  /\ records' = [records EXCEPT ![g] = Tail(@)]
  /\ UNCHANGED <<read, next_out_port, eof, empties, tweets, hashtag_batch, sentTuple>>

TweetPipeInit ==
  /\ read = <<>> /\ next_out_port = 0 /\ eof = FALSE /\ empties = 0
  /\ tweets = [f \in Ports |-> <<>>]
  /\ hashtag_batch = [f \in Ports |-> [g \in Gates |-> <<>>]]
  /\ sentTuple = [f \in Ports |-> 0]
  /\ records = [g \in Gates |-> <<>>]
  /\ words = [g \in Gates |-> [w \in Words |-> 0]]

TweetPipeNext ==
  \/ \E w \in Words \cup {None} : Read(w)
  \/ ReadAtEnd
  \/ \E f \in Ports : Find(f)
  \/ \E g \in Gates : Count(g)

TweetPipeSpec == TweetPipeInit /\ [][TweetPipeNext]_TweetPipeVars
-----------------------------------------------------------------------------
SumOver(S, F(_)) == FoldFunctionOnSet(LAMBDA a, b : a + b, 0, [x \in S |-> F(x)], S)
Pending(w) ==
  LET inTweets(f) == Occurrences(w, tweets[f])
      inBatches(f) == LET n(g) == Occurrences(w, hashtag_batch[f][g]) IN SumOver(Gates, n)
      inRecords(g) == Occurrences(w, FlattenSeq(records[g]))
  IN  SumOver(Ports, inTweets) + SumOver(Ports, inBatches) + SumOver(Gates, inRecords)

(***************************************************************************)
(* Every hashtag that was read is counted once, or still on its way: in a  *)
(* queue, or in a batch that is not full (a batch that is sent is moved    *)
(* away and replaced, TweetFinder.cpp:205-211).                            *)
(***************************************************************************)
HashtagsConserved ==
  \A w \in Words :
    LET counted(g) == words[g][w]
    IN  Occurrences(w, read) = SumOver(Gates, counted) + Pending(w)

(***************************************************************************)
(* A hashtag is counted by one WordCounter only, whichever finders saw it: *)
(* the count of a word is not split over counters.                         *)
(***************************************************************************)
OneCounterPerHashtag ==
  \A w \in Words : Cardinality({g \in Gates : words[g][w] > 0}) <= 1
=============================================================================
