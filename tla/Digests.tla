------------------------------ MODULE Digests -------------------------------
(***************************************************************************)
(* The cryptographic digests, two machines: the C functions of lib/hash    *)
(* with their keyed and file variants, and the class SHA1 of lib/bloom.    *)
(***************************************************************************)
EXTENDS Integers, Sequences, SequencesExt

-----------------------------------------------------------------------------
(***************************************************************************)
(* The message digests of lib/hash/C (md5.c, sha1.c, sha2.c, sha4.c) and   *)
(* their keyed variants.  The compression function is left abstract: the   *)
(* digest state is the sequence of blocks it was applied to.  What is      *)
(* modelled is what surrounds it: the buffer that collects a block from    *)
(* calls of any size, the byte counter in two words, the padding.  One     *)
(* model byte stands for 4 bytes, so a block has 16 (sha4: 32) of them.    *)
(***************************************************************************)
CONSTANTS Algorithms,   \* a subset of the names below
          Chunk,        \* algorithm -> sizes of the pieces handed to update
          KeyLens,      \* algorithm -> lengths of the keys
          W,            \* bits of a word of the byte counter (32; 64 in sha4)
          FileBuf,      \* size of the buffer a file is read through (1024 bytes)
          MaxChunks     \* pieces of the first message of a context

VARIABLES alg, ctx, phase, key, given, chunks, round, out,
          ret           \* what the last call of *_file returned
DigestsVars == <<alg, ctx, phase, key, given, chunks, round, out, ret>>

(* Block size, size of the length field, size of the digest. *)
Size == [md5  |-> [block |-> 16, len |-> 2, digest |-> 4],
         sha1 |-> [block |-> 16, len |-> 2, digest |-> 5],
         sha2 |-> [block |-> 16, len |-> 2, digest |-> 8],
         sha4 |-> [block |-> 32, len |-> 4, digest |-> 16],
         sha2_224 |-> [block |-> 16, len |-> 2, digest |-> 7],
         sha4_384 |-> [block |-> 32, len |-> 4, digest |-> 12]]

Byte(kind, v)   == [kind |-> kind, v |-> v]
Bytes(kind, n)  == [i \in 1..n |-> Byte(kind, <<i>>)]
(* The digest is used as a whole: its first byte stands for the content. *)
DigestOf(a, st) ==
  [i \in 1..Size[a].digest |-> Byte("digest", IF i = 1 THEN <<i, st>> ELSE <<i>>)]
Zero == Byte("zero", <<>>)
-----------------------------------------------------------------------------
(* memcpy of s into the buffer, at offset left. *)
Put(buffer, left, s) ==
  [i \in 1..Len(buffer) |-> IF i \in left + 1..left + Len(s) THEN s[i - left] ELSE buffer[i]]

(* starts keeps the buffer of an earlier message. *)
Starts(c) == [c EXCEPT !.total = <<0, 0>>, !.state = <<>>]

md5_starts(c)  == Starts(c)
sha1_starts(c) == Starts(c)

(* Mutant of Add: the carry into the second word is forgotten. *)
AddNoCarry(total, n) == <<(total[1] + n) % 2^W, total[2]>>

Add(total, n) ==
  LET low == (total[1] + n) % 2^W
  IN  <<low, IF low < n THEN total[2] + 1 ELSE total[2]>>

(* The compression functions: the state is all the blocks it has absorbed. *)
md5_process(state, data)  == Append(state, data)
sha1_process(state, data) == Append(state, data)
sha2_process(state, data) == Append(state, data)
sha4_process(state, data) == Append(state, data)

(* Fill the buffer and process it, then whole blocks of the input, and     *)
(* keep the rest.                                                          *)
UpdateBlocks(B, process(_, _), c, input) ==
  LET n     == Len(input)
      left  == c.total[1] % B
      fill  == B - left
      whole == left > 0 /\ n >= fill
      full  == Put(c.buffer, left, SubSeq(input, 1, fill))
      rest  == IF whole THEN SubSeq(input, fill + 1, n) ELSE input
      at    == IF whole THEN 0 ELSE left
      k     == Len(rest) \div B
  IN  [c EXCEPT
        !.total  = Add(c.total, n),
        !.state  = FoldLeft(process, @, (IF whole THEN <<full>> ELSE <<>>)
                     \o [i \in 1..k |-> SubSeq(rest, (i - 1) * B + 1, i * B)]),
        !.buffer = Put(IF whole THEN full ELSE @, at, SubSeq(rest, k * B + 1, Len(rest)))]

md5_update(c, input)  == UpdateBlocks(16, md5_process, c, input)
sha1_update(c, input) == UpdateBlocks(16, sha1_process, c, input)
sha2_update(c, input) == UpdateBlocks(16, sha2_process, c, input)
sha4_update(c, input) == UpdateBlocks(32, sha4_process, c, input)

Update(c, input) ==
  CASE alg = "md5"  -> md5_update(c, input)
    [] alg = "sha1" -> sha1_update(c, input)
    [] alg \in {"sha2", "sha2_224"} -> sha2_update(c, input)
    [] alg \in {"sha4", "sha4_384"} -> sha4_update(c, input)
-----------------------------------------------------------------------------
(* The length field: the count of bytes, shifted by three, in two words. *)
MsgLen(total, n) ==
  LET high == (total[1] \div 2^(W - 3) + total[2] * 8) % 2^W
      low  == (total[1] * 8) % 2^W
  IN  [i \in 1..n |-> Byte("len", <<i, high, low>>)]

Padding(n) == <<Byte("0x80", <<>>)>> \o [i \in 1..n - 1 |-> Zero]

PadTo(last, limit, limit2) == IF last < limit THEN limit - last ELSE limit2 - last

FinishWith(update_(_, _), c, padn, n) == update_(update_(c, Padding(padn)), MsgLen(c.total, n))

md5_finish(c)  == FinishWith(md5_update, c, PadTo(c.total[1] % 16, 14, 30), 2)
sha1_finish(c) == FinishWith(sha1_update, c, PadTo(c.total[1] % 16, 14, 30), 2)
sha2_finish(c) == FinishWith(sha2_update, c, PadTo(c.total[1] % 16, 14, 30), 2)
sha4_finish(c) == FinishWith(sha4_update, c, PadTo(c.total[1] % 32, 28, 60), 4)

Finish(c) ==
  CASE alg = "md5"  -> md5_finish(c)
    [] alg = "sha1" -> sha1_finish(c)
    [] alg \in {"sha2", "sha2_224"} -> sha2_finish(c)
    [] alg \in {"sha4", "sha4_384"} -> sha4_finish(c)

(* md5(), sha1(), ...: the digest of one input. *)
md5(c, input)  == md5_finish(md5_update(md5_starts(c), input))
sha1(c, input) == sha1_finish(sha1_update(sha1_starts(c), input))
sha2(c, input) == sha2_finish(sha2_update(Starts(c), input))
sha4(c, input) == sha4_finish(sha4_update(Starts(c), input))

(* What fread returns for the bytes s of a file, call after call. *)
Reads(s) ==
  [i \in 1..(Len(s) + FileBuf - 1) \div FileBuf |->
     SubSeq(s, (i - 1) * FileBuf + 1, IF i * FileBuf < Len(s) THEN i * FileBuf ELSE Len(s))]

(* Mutant of FileCode: only the failure of fopen is reported. *)
FileCodeNoError(fault) == IF fault = "open" THEN 1 ELSE 0

FileCode(fault) == CASE fault = "open" -> 1 [] fault = "read" -> 2 [] OTHER -> 0

(* *_file: the bytes read before the end or an error are digested. *)
md5_file(c, s)  == md5_finish(FoldLeft(md5_update, Starts(c), Reads(s)))
sha1_file(c, s) == sha1_finish(FoldLeft(sha1_update, Starts(c), Reads(s)))
sha2_file(c, s) == sha2_finish(FoldLeft(sha2_update, Starts(c), Reads(s)))
sha4_file(c, s) == sha4_finish(FoldLeft(sha4_update, Starts(c), Reads(s)))

FileDigest(c, s) ==
  DigestOf(alg, (CASE alg = "md5"  -> md5_file(c, s)
                   [] alg = "sha1" -> sha1_file(c, s)
                   [] alg \in {"sha2", "sha2_224"} -> sha2_file(c, s)
                   [] alg \in {"sha4", "sha4_384"} -> sha4_file(c, s)).state)
-----------------------------------------------------------------------------
(* A key longer than a block is replaced by its digest; ipad and opad are  *)
(* the block-sized pads with the key in front.                             *)
Pad(kind, k, B) == [i \in 1..B |-> Byte(kind, IF i <= Len(k) THEN <<i, k[i]>> ELSE <<i>>)]

WithKey(update_(_, _), digest(_, _), c, k, B) ==
  LET kk == IF Len(k) > B THEN DigestOf(alg, digest(c, k).state) ELSE k
      c1 == [Starts(c) EXCEPT !.ipad = Pad("ipad", kk, B), !.opad = Pad("opad", kk, B)]
  IN  update_(c1, c1.ipad)

md5_hmac_starts(c, k)  == WithKey(md5_update, md5, c, k, 16)
sha1_hmac_starts(c, k) == WithKey(sha1_update, sha1, c, k, 16)
sha2_hmac_starts(c, k) == WithKey(sha2_update, sha2, c, k, 16)
sha4_hmac_starts(c, k) == WithKey(sha4_update, sha4, c, k, 32)

HmacStarts(c, k) ==
  CASE alg = "md5"  -> md5_hmac_starts(c, k)
    [] alg = "sha1" -> sha1_hmac_starts(c, k)
    [] alg \in {"sha2", "sha2_224"} -> sha2_hmac_starts(c, k)
    [] alg \in {"sha4", "sha4_384"} -> sha4_hmac_starts(c, k)

Outer(update_(_, _), finish_(_), c) ==
  LET c1 == update_(Starts(c), c.opad)
  IN  finish_(update_(c1, DigestOf(alg, finish_(c).state)))

md5_hmac_finish(c)  == Outer(md5_update, md5_finish, c)
sha1_hmac_finish(c) == Outer(sha1_update, sha1_finish, c)
sha2_hmac_finish(c) == Outer(sha2_update, sha2_finish, c)
sha4_hmac_finish(c) == Outer(sha4_update, sha4_finish, c)

HmacFinish(c) ==
  CASE alg = "md5"  -> md5_hmac_finish(c)
    [] alg = "sha1" -> sha1_hmac_finish(c)
    [] alg \in {"sha2", "sha2_224"} -> sha2_hmac_finish(c)
    [] alg \in {"sha4", "sha4_384"} -> sha4_hmac_finish(c)

(* *_hmac(): the keyed digest of one input. *)
md5_hmac(c, k, input)  == md5_hmac_finish(md5_update(md5_hmac_starts(c, k), input))
sha1_hmac(c, k, input) == sha1_hmac_finish(sha1_update(sha1_hmac_starts(c, k), input))
sha2_hmac(c, k, input) == sha2_hmac_finish(sha2_update(sha2_hmac_starts(c, k), input))
sha4_hmac(c, k, input) == sha4_hmac_finish(sha4_update(sha4_hmac_starts(c, k), input))

(* The classes of lib/hash: compute with a key and without. *)
MD5(c, k, input)    == IF k = <<>> THEN md5(c, input) ELSE md5_hmac(c, k, input)
SHA1(c, k, input)   == IF k = <<>> THEN sha1(c, input) ELSE sha1_hmac(c, k, input)
SHA224(c, k, input) == IF k = <<>> THEN sha2(c, input) ELSE sha2_hmac(c, k, input)
SHA256(c, k, input) == IF k = <<>> THEN sha2(c, input) ELSE sha2_hmac(c, k, input)
SHA384(c, k, input) == IF k = <<>> THEN sha4(c, input) ELSE sha4_hmac(c, k, input)
SHA512(c, k, input) == IF k = <<>> THEN sha4(c, input) ELSE sha4_hmac(c, k, input)

Computed(c, k, input) ==
  DigestOf(alg, (CASE alg = "md5"  -> MD5(c, k, input)
                   [] alg = "sha1" -> SHA1(c, k, input)
                   [] alg = "sha2_224" -> SHA224(c, k, input)
                   [] alg = "sha2" -> SHA256(c, k, input)
                   [] alg = "sha4_384" -> SHA384(c, k, input)
                   [] alg = "sha4" -> SHA512(c, k, input)).state)

(* Mutant of HmacReset: the inner pad is not fed again. *)
HmacResetBare(c) == Starts(c)

HmacReset(c) == Update(Starts(c), c.ipad)
-----------------------------------------------------------------------------
DigestsInit ==
  /\ alg \in Algorithms
  /\ LET B == Size[alg].block
         junk == [i \in 1..B |-> Byte("stale", <<i>>)]
     IN  ctx = [total |-> <<0, 0>>, state |-> <<>>, buffer |-> junk, ipad |-> <<>>, opad |-> <<>>]
  /\ phase = "idle" /\ key = <<>> /\ given = <<>> /\ chunks = 0 /\ round = 0 /\ out = <<>>
  /\ ret = 0

Begin(c, p) ==
  /\ phase \in {"idle", "done"} /\ round < 2
  /\ ctx' = c /\ phase' = p
  /\ round' = round + 1 /\ given' = <<>> /\ chunks' = 0 /\ out' = <<>>
  /\ UNCHANGED <<alg, ret>>

starts == Begin(Starts(ctx), "plain") /\ key' = <<>>
hmac_starts(n) == LET k == Bytes("key", n) IN Begin(HmacStarts(ctx, k), "keyed") /\ key' = k
hmac_reset == Begin(HmacReset(ctx), "keyed") /\ key # <<>> /\ UNCHANGED key

update(n) ==
  /\ phase \in {"plain", "keyed"} /\ chunks + round <= MaxChunks
  /\ LET input == [i \in 1..n |-> Byte("msg", <<round, Len(given) + i>>)]
     IN  ctx' = Update(ctx, input) /\ given' = given \o input
  /\ chunks' = chunks + 1
  /\ UNCHANGED <<alg, phase, key, round, out, ret>>

finish ==
  /\ phase \in {"plain", "keyed"} /\ phase' = "done"
  /\ ctx' = IF phase = "plain" THEN Finish(ctx) ELSE HmacFinish(ctx)
  /\ out' = DigestOf(alg, ctx'.state)
  /\ UNCHANGED <<alg, key, given, chunks, round, ret>>

(* The digest of a file of n bytes, of which `got` can be read.  The       *)
(* context is a local variable, unrelated to ctx, and starts as ctx does,  *)
(* so these calls are explored on their own.                               *)
file(n, got, fault) ==
  /\ phase = "idle" /\ phase' = "file"
  /\ IF fault = "read" THEN got < n ELSE got = n
  /\ LET content == [i \in 1..n |-> Byte("msg", <<round + 1, i>>)]
     IN  /\ given' = content
         /\ out' = IF fault = "open" THEN <<>> ELSE FileDigest(ctx, SubSeq(content, 1, got))
  /\ ret' = FileCode(fault)
  /\ UNCHANGED <<alg, ctx, key, chunks, round>>

(* HASH::compute, also on a context of its own. *)
compute(k, n) ==
  /\ phase = "idle" /\ phase' = "done" /\ round' = 2
  /\ key' = Bytes("key", k)
  /\ given' = [i \in 1..n |-> Byte("msg", <<1, i>>)]
  /\ out' = Computed(ctx, key', given')
  /\ UNCHANGED <<alg, ctx, chunks, ret>>

DigestsNext ==
  \/ \E k \in KeyLens[alg] \cup {0}, n \in Chunk[alg] : compute(k, n)
  \/ starts \/ hmac_reset \/ finish
  \/ \E n, got \in Chunk[alg], fault \in {"none", "open", "read"} : file(n, got, fault)
  \/ \E n \in KeyLens[alg] : hmac_starts(n)
  \/ \E n \in Chunk[alg] : update(n)
-----------------------------------------------------------------------------
(* What the standards ask for: the message, 0x80, zeros up to the length   *)
(* field, the bit length; cut into blocks.                                 *)
RefBlocks(msg) ==
  LET B == Size[alg].block
      L == Size[alg].len
      zeros == CHOOSE z \in 0..B : (Len(msg) + 1 + z + L) % B = 0
      bits == 8 * Len(msg)
      all == msg \o Padding(zeros + 1)
             \o [i \in 1..L |-> Byte("len", <<i, (bits \div 2^W) % 2^W, bits % 2^W>>)]
  IN  [j \in 1..Len(all) \div B |-> SubSeq(all, (j - 1) * B + 1, j * B)]
RefDigest(msg) == DigestOf(alg, RefBlocks(msg))
RefHmac(k, msg) ==
  LET B == Size[alg].block
      kk == IF Len(k) > B THEN RefDigest(k) ELSE k
  IN  RefDigest(Pad("opad", kk, B) \o RefDigest(Pad("ipad", kk, B) \o msg))

(* However the message is cut into calls of update, and whatever an        *)
(* earlier message left in the context, the compression function sees the  *)
(* blocks of the padded message, with the length also when the low word of *)
(* the counter has overflowed.                                             *)
DigestOfMessage == phase = "done" /\ key = <<>> => out = RefDigest(given)

(* The keyed digest is the nested one, for short and long keys, and        *)
(* hmac_reset keeps the key for the next message.                          *)
DigestOfKeyed == phase = "done" /\ key # <<>> => out = RefHmac(key, given)

(* When *_file returns 0 the digest is that of the whole file, through     *)
(* whatever pieces it was read and whatever the stack held before.         *)
DigestOfFile == phase = "file" /\ ret = 0 => out = RefDigest(given)

-----------------------------------------------------------------------------
(***************************************************************************)
(* The class SHA1 of lib/bloom/sha1.cpp: a message taken byte by byte, a   *)
(* length in two words, and the flags Computed and Corrupted.  As in the   *)
(* module Digests, the compression function is abstract (the state is the  *)
(* sequence of blocks it was given) and a model byte stands for 4 bytes.   *)
(***************************************************************************)
CONSTANTS ShaChunk,    \* sizes of the pieces handed to Input
          ShaW,        \* bits of Length_Low and of Length_High
          MaxCalls     \* calls of Input and Result on one object

VARIABLES sha, fed, calls, late, result
Sha1ClassVars == <<sha, fed, calls, late, result>>

None == <<>>   \* Result returned false
ResetState(block) ==
  [low |-> 0, high |-> 0, index |-> 0, block |-> block, H |-> <<>>,
   computed |-> FALSE, corrupted |-> FALSE]

ProcessMessageBlock(s) == [s EXCEPT !.H = Append(@, s.block), !.index = 0]

InputByte(s, b) ==
  LET low  == (s.low + 8) % 2^ShaW
      high == IF low = 0 THEN (s.high + 1) % 2^ShaW ELSE s.high
      s1   == [s EXCEPT !.block[s.index + 1] = b, !.index = @ + 1, !.low = low, !.high = high,
                        !.corrupted = low = 0 /\ high = 0]
  IN  IF s.corrupted THEN s
      ELSE IF s1.index = 16 THEN ProcessMessageBlock(s1) ELSE s1

(* Mutant of Input: more input after the result is accepted. *)
InputAfterResult(s, bytes) == FoldLeft(InputByte, s, bytes)

Input(s, bytes) ==
  IF bytes = <<>> THEN s
  ELSE IF s.computed \/ s.corrupted THEN [s EXCEPT !.corrupted = TRUE]
  ELSE FoldLeft(InputByte, s, bytes)

(* 0x80 is byte 0, a zero is byte -1 and the length is written as two words. *)
Fill(s, upto) == [s EXCEPT !.block = [i \in 1..16 |-> IF i \in s.index + 1..upto THEN -1 ELSE @[i]],
                           !.index = upto]
Mark(s) == [s EXCEPT !.block[s.index + 1] = 0, !.index = @ + 1]

(* Mutant of PadMessage: a message that ends one byte below the length     *)
(* field is given a second block.                                          *)
PadMessageLate(s) ==
  LET s1 == IF s.index > 14 THEN Fill(ProcessMessageBlock(Fill(Mark(s), 16)), 14)
            ELSE Fill(Mark(s), 14)
  IN  ProcessMessageBlock([s1 EXCEPT !.block[15] = -10 - s.high, !.block[16] = -10 - s.low])

PadMessage(s) ==
  LET s1 == IF s.index > 13 THEN Fill(ProcessMessageBlock(Fill(Mark(s), 16)), 14)
            ELSE Fill(Mark(s), 14)
  IN  ProcessMessageBlock([s1 EXCEPT !.block[15] = -10 - s.high, !.block[16] = -10 - s.low])

ResultState(s) ==
  IF s.corrupted \/ s.computed THEN s ELSE [PadMessage(s) EXCEPT !.computed = TRUE]
-----------------------------------------------------------------------------
Sha1ClassInit ==
  /\ sha = ResetState([i \in 1..16 |-> -2])
  /\ fed = <<>> /\ calls = 0 /\ late = FALSE /\ result = None

Call == calls < MaxCalls /\ calls' = calls + 1

DoInput(n) ==
  /\ Call
  /\ LET bytes == [i \in 1..n |-> Len(fed) + i]
     IN  /\ sha' = Input(sha, bytes)
         /\ fed' = IF sha.computed THEN fed ELSE fed \o bytes
  /\ late' = (late \/ (sha.computed /\ n > 0))
  /\ UNCHANGED result

DoResult ==
  /\ Call
  /\ sha' = ResultState(sha)
  /\ result' = IF sha'.corrupted THEN None ELSE sha'.H
  /\ UNCHANGED <<fed, late>>

Reset ==
  /\ Call
  /\ sha' = ResetState(sha.block)
  /\ fed' = <<>> /\ late' = FALSE /\ result' = None

Sha1ClassNext == (\E n \in ShaChunk : DoInput(n)) \/ DoResult \/ Reset
-----------------------------------------------------------------------------
ShaRefBlocks(msg) ==
  LET zeros == CHOOSE z \in 0..15 : (Len(msg) + 3 + z) % 16 = 0
      bits == 8 * Len(msg)
      all == msg \o <<0>> \o [i \in 1..zeros |-> -1] \o <<-10 - (bits \div 2^ShaW), -10 - (bits % 2^ShaW)>>
  IN  [j \in 1..Len(all) \div 16 |-> SubSeq(all, (j - 1) * 16 + 1, j * 16)]

(* A result the class hands out is the digest of the bytes given since     *)
(* Reset, also when Result is called twice.                                *)
ResultOfMessage == result # None => result = ShaRefBlocks(fed)

(* Input after a result, or more than the length can count, is noticed:    *)
(* the object reports corruption until Reset.                              *)
MisuseIsNoticed == late \/ 8 * Len(fed) >= 2^(2 * ShaW) => sha.corrupted
=============================================================================
