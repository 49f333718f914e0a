------------------------------- MODULE Hashes -------------------------------
(***************************************************************************)
(* The hash functions, four machines: lookup3, the short digests of        *)
(* lib/hash and of lib/bloom, and the multiply-add hash of 31 bits.        *)
(***************************************************************************)
EXTENDS Integers, Sequences, FiniteSets, SequencesExt

-----------------------------------------------------------------------------
(***************************************************************************)
(* Bob Jenkins' hash functions (lib/hash/C/bob.c).  mix and final are      *)
(* abstract: what a hash depends on is the initial state, what was added   *)
(* to a, b and c before each of them, and how many there were.  What is    *)
(* added is a set of <<byte, shift>>; a load of a word gives the bytes     *)
(* their shifts by the endianness of the machine.                          *)
(***************************************************************************)
CONSTANTS MaxLength    \* bytes of a key

VARIABLES function,    \* hashword, hashword2, hashlittle, hashlittle2, hashbig
          machine,     \* "little", "big"
          align,       \* the key's address modulo 4
          length, pos, \* of the key; bytes consumed
          initial, rounds, finals, reads, pc
Lookup3Vars == <<function, machine, align, length, pos, initial, rounds, finals, reads, pc>>

Words == function \in {"hashword", "hashword2"}
Order == IF Words THEN machine ELSE IF function = "hashbig" THEN "big" ELSE "little"
Left == length - pos
-----------------------------------------------------------------------------
(* A load of size bytes at offset i, moved left by shift bits. *)
Load(i, size, shift) ==
  {<<i + j, shift + 8 * (IF machine = "little" THEN j ELSE size - 1 - j)>> : j \in 0..(size - 1)}
(* The mask of a partial word keeps the bits of its n first bytes. *)
Mask(word, n) == {x \in word : IF machine = "little" THEN x[2] < 8 * n ELSE x[2] >= 32 - 8 * n}
ByteShift(i) == IF Order = "little" THEN 8 * (i % 4) ELSE 24 - 8 * (i % 4)

(* Mutant of Wide: every even address is read by 32 bits. *)
WideEven == IF Words THEN 4
            ELSE IF machine = Order /\ align % 2 = 0 THEN 4 ELSE 1
(* Which of the three ways of reading the key the function takes. *)
Wide == IF Words THEN 4
        ELSE IF machine = Order /\ align = 0 THEN 4
        ELSE IF machine = "little" /\ Order = "little" /\ align % 2 = 0 THEN 2 ELSE 1
(* What register r (0..2) is given in a full block. *)
Full(r) ==
  LET i == pos + 4 * r
  IN  CASE Wide = 4 -> Load(i, 4, 0)
        [] Wide = 2 -> Load(i, 2, 0) \cup Load(i + 2, 2, 16)
        [] Wide = 1 -> UNION {Load(i + j, 1, ByteShift(j)) : j \in 0..3}
(* Mutant of Partial: the odd byte of a key read by 16 bits is forgotten. *)
PartialEven(r, n) ==
  LET i == pos + 4 * r
  IN  CASE n <= 0 -> {}
        [] n >= 4 -> Full(r)
        [] n \in 1..3 /\ Wide = 4 -> Mask(Load(i, 4, 0), n)
        [] n \in 1..3 /\ Wide = 2 -> IF n >= 2 THEN Load(i, 2, 0) ELSE Load(i, 1, 0)
        [] n \in 1..3 /\ Wide = 1 -> UNION {Load(i + j, 1, ByteShift(j)) : j \in 0..(n - 1)}
(* What it is given of the last block, n bytes of its word being left, and *)
(* the bytes that are read for it.                                         *)
Partial(r, n) ==
  LET i == pos + 4 * r
  IN  CASE n <= 0 -> {}
        [] n >= 4 -> Full(r)
        [] n \in 1..3 /\ Wide = 4 -> Mask(Load(i, 4, 0), n)
        [] n \in 1..3 /\ Wide = 2 -> (IF n >= 2 THEN Load(i, 2, 0) ELSE {})
                                       \cup (IF n = 3 THEN Load(i + 2, 1, 16) ELSE IF n = 1 THEN Load(i, 1, 0) ELSE {})
        [] n \in 1..3 /\ Wide = 1 -> UNION {Load(i + j, 1, ByteShift(j)) : j \in 0..(n - 1)}
Touched(r, n) == IF n <= 0 THEN {} ELSE IF n < 4 /\ Wide # 4 THEN pos + 4 * r .. pos + 4 * r + n - 1
                 ELSE pos + 4 * r .. pos + 4 * r + 3

(* a = b = c, and c is given the second seed of the functions with two. *)
Seed == [length |-> length, c |-> IF function \in {"hashword2", "hashlittle2"} THEN {"pc", "pb"} ELSE {"initval"}]

Lookup3Init ==
  /\ function \in {"hashword", "hashword2", "hashlittle", "hashlittle2", "hashbig"}
  /\ machine \in {"little", "big"}
  /\ align \in IF Words THEN {0} ELSE 0..3
  /\ length \in IF Words THEN {4 * n : n \in 0..(MaxLength \div 4)} ELSE 0..MaxLength
  /\ pos = 0
  /\ initial = Seed
  /\ rounds = <<>> /\ finals = 0 /\ reads = {}
  /\ pc = "mix"

Block ==
  /\ pc = "mix" /\ Left > 12
  /\ rounds' = Append(rounds, [r \in 0..2 |-> Full(r)])
  /\ reads' = reads \cup pos..(pos + 11)
  /\ pos' = pos + 12
  /\ UNCHANGED <<function, machine, align, length, initial, finals, pc>>

LastBlock ==
  /\ pc = "mix" /\ Left <= 12
  /\ IF Left = 0 THEN UNCHANGED <<rounds, finals, reads>>
     ELSE /\ rounds' = Append(rounds, [r \in 0..2 |-> Partial(r, Left - 4 * r)])
          /\ reads' = reads \cup UNION {Touched(r, Left - 4 * r) : r \in 0..2}
          /\ finals' = 1
  /\ pos' = length
  /\ pc' = "done"
  /\ UNCHANGED <<function, machine, align, length, initial>>

Blocks == Block \/ LastBlock
hashword == function = "hashword" /\ Blocks
hashword2 == function = "hashword2" /\ Blocks
hashlittle == function = "hashlittle" /\ Blocks
hashlittle2 == function = "hashlittle2" /\ Blocks
hashbig == function = "hashbig" /\ Blocks

Lookup3Next == hashword \/ hashword2 \/ hashlittle \/ hashlittle2 \/ hashbig
-----------------------------------------------------------------------------
(* The hash is one of the bytes of the key, each once and in its place,    *)
(* whatever the alignment and the way they were read; hashword is          *)
(* hashlittle on little-endian machines and hashbig on the others; only an *)
(* empty key skips the final mix.                                          *)
Number == (length + 11) \div 12
HashOfBytes ==
  pc = "done" =>
    /\ rounds = [k \in 1..Number |-> [r \in 0..2 |->
         {<<i, ByteShift(i)>> : i \in {i \in 12 * (k - 1) + 4 * r .. 12 * (k - 1) + 4 * r + 3 : i < length}}]]
    /\ finals = IF length = 0 THEN 0 ELSE 1
    /\ initial.length = length

(* No byte is read that is not in an aligned word of the key: the reads    *)
(* beyond the end stay where the key already is.                           *)
ReadsStayInWords ==
  \A i \in reads : \E j \in 0..(length - 1) : (i + align) \div 4 = (j + align) \div 4

-----------------------------------------------------------------------------
(***************************************************************************)
(* class KHASH (lib/hash/khash.cpp): nhash short digests of shash bits cut *)
(* out of a digest that is hashed again until it has enough bits.  A bit   *)
(* of the buffer is <<byte, bit>>; the first byte of a digest carries what *)
(* was hashed, the others only their place.                                *)
(***************************************************************************)
CONSTANTS DigestLengths, Sizes, Counts,   \* hashdiglen, shash, nhash
          Keys, MaxCalls

VARIABLES hashdiglen, shash, nhash, hashtodo,
          msgdig, res,
          grown,     \* inc_nhash was called: the buffer was not enlarged
          memo,      \* what compute gave for a key, from a buffer of the right size
          calls
KHashVars == <<hashdiglen, shash, nhash, hashtodo, msgdig, res, grown, memo, calls>>

Zero == <<"zero">>
Outside == <<"outside">>

(* Mutant of Todo: the incomplete digest is not counted. *)
TodoDown(bits, diglen) == bits \div (8 * diglen)
(* The test was meant to ask for an exact division; it adds one always but *)
(* when a single digest has exactly the bits.                              *)
Todo(bits, diglen) ==
  LET q == bits \div (8 * diglen)
  IN  IF q * bits # 8 * diglen THEN q + 1 ELSE q
Buffer(todo, diglen) == [i \in 0..(todo * diglen + 3) |-> Zero]

KHashInit ==
  /\ hashdiglen \in DigestLengths /\ shash \in Sizes /\ nhash \in Counts
  /\ shash <= 32 /\ shash <= 8 * hashdiglen
  /\ hashtodo = Todo(shash * nhash, hashdiglen)
  /\ msgdig = Buffer(hashtodo, hashdiglen)
  /\ res = <<>> /\ grown = FALSE /\ calls = 0
  /\ memo = [k \in Keys |-> {}]

ByteAt(b, i) == IF i \in DOMAIN b THEN b[i] ELSE Outside
(* hash->compute(input): written to the buffer at the place at. *)
Hash(b, input, at) ==
  [i \in DOMAIN b |-> IF i = at THEN <<"first", input>>
                      ELSE IF i \in at..(at + hashdiglen - 1) THEN <<"rest", i - at>> ELSE b[i]]
(* Mutant of Rehash: what is hashed is two digests long. *)
RehashWide(b, len) ==
  FoldLeft(LAMBDA buf, i : Hash(buf, [j \in 1..(2 * hashdiglen) |-> ByteAt(buf, (i - 1) * hashdiglen + j - 1)], i * hashdiglen),
           b, [i \in 1..(hashtodo - 1) |-> i])
(* Each digest is hashed over the length of the key, not over its own. *)
Rehash(b, len) ==
  FoldLeft(LAMBDA buf, i : Hash(buf, [j \in 1..len |-> ByteAt(buf, (i - 1) * hashdiglen + j - 1)], i * hashdiglen),
           b, [i \in 1..(hashtodo - 1) |-> i])

(* Bits of the short digest number i (from 0): a word, moved down, and for *)
(* what it lacks the byte behind it, moved up; a bit is <<byte, bit, to>>. *)
Word(start) == {<<(start \div 8) + (n \div 8), n % 8, n - (start % 8)>> : n \in (start % 8)..31}
(* Mutant of Extra: the byte is not needed when its word is exceeded by    *)
(* less than a whole byte.                                                 *)
ExtraNever(start, end) == {}
Extra(start, end) ==
  IF shash + (start % 8) > 32 THEN {<<end \div 8, n, n + shash - (end % 8)>> : n \in 0..7} ELSE {}
Bits(i) ==
  LET start == shash * i IN {x \in Word(start) \cup Extra(start, start + shash) : x[3] < shash}

(* What a short digest is made of. *)
Cut(b, bits) == {<<ByteAt(b, x[1]), x[2], x[3]>> : x \in bits}

compute(k) ==
  /\ calls < MaxCalls
  /\ msgdig' = Rehash(Hash(msgdig, <<k>>, 0), k.len)
  /\ res' = [i \in 1..nhash |-> Cut(msgdig', Bits(i - 1))]
  /\ memo' = IF grown THEN memo ELSE [memo EXCEPT ![k] = @ \cup {res'}]
  /\ calls' = calls + 1
  /\ UNCHANGED <<hashdiglen, shash, nhash, hashtodo, grown>>

inc_nhash ==
  /\ calls < MaxCalls
  /\ nhash' = nhash + 1
  /\ res' = <<>> /\ grown' = TRUE /\ calls' = calls + 1
  /\ UNCHANGED <<hashdiglen, shash, hashtodo, msgdig, memo>>

dec_nhash ==
  /\ calls < MaxCalls /\ nhash > 1
  /\ nhash' = nhash - 1
  /\ hashtodo' = Todo(8 * shash * nhash', hashdiglen)
  /\ msgdig' = Buffer(hashtodo', hashdiglen)
  /\ res' = <<>> /\ grown' = FALSE /\ calls' = calls + 1
  /\ UNCHANGED <<hashdiglen, shash, memo>>

KHashNext == (\E k \in Keys : compute(k)) \/ inc_nhash \/ dec_nhash
-----------------------------------------------------------------------------
(* The short digests are consecutive pieces of shash bits, each bit of the *)
(* digest in one place of one of them.                                     *)
BitsInOrder ==
  \A i \in DOMAIN res :
    Bits(i - 1) = {<<n \div 8, n % 8, n - shash * (i - 1)>> : n \in shash * (i - 1)..shash * i - 1}

(* A key no longer than the digest gives the same short digests whatever   *)
(* was hashed before, and with one more or one less of them.  (A longer    *)
(* key makes the second digest depend on what an earlier key left.)        *)
SameKeySameDigests ==
  \A k \in Keys : k.len <= hashdiglen =>
    \A r, s \in memo[k] : \A i \in DOMAIN r \cap DOMAIN s : r[i] = s[i]

(* The buffer holds every byte that is cut, unless it should have grown.   *)
CutsStayInBuffer ==
  ~grown => \A i \in DOMAIN res :
     \A x \in Word(shash * (i - 1)) \cup Extra(shash * (i - 1), shash * i) : x[1] \in DOMAIN msgdig

-----------------------------------------------------------------------------
(***************************************************************************)
(* class khash (lib/bloom/khash.cpp), under the Bloom filters: short       *)
(* digests cut out of a digest of NBlocks words, which is hashed again     *)
(* when its bits are used up; with norep a value that repeats is replaced  *)
(* by the next one.  A digest is any sequence of bits.                     *)
(***************************************************************************)
CONSTANTS WordBits, NBlocks,    \* 32 and 5 in the code
          BloomSizes, BloomCounts,        \* shash and nhash
          MaxDigests            \* digests computed for one input

VARIABLES bloom_shash, bloom_nhash, norep, bloom_msgdig, stream, bloom_res, bloom_k, ptr, bloom_pc
BloomHashVars == <<bloom_shash, bloom_nhash, norep, bloom_msgdig, stream, bloom_res, bloom_k, ptr, bloom_pc>>

BloomBits == WordBits * NBlocks
Digests == [1..BloomBits -> {0, 1}]
(* Bits from..to-1 of a digest, as a sequence. *)
Slice(d, from, to) == [i \in 1..(to - from) |-> d[from + i]]

BloomHashInit ==
  /\ bloom_shash \in BloomSizes /\ bloom_nhash \in BloomCounts /\ norep \in {0, 1}
  /\ norep = 1 => bloom_nhash <= 2^bloom_shash
  /\ bloom_msgdig \in Digests /\ stream = <<bloom_msgdig>>
  /\ bloom_res = <<>> /\ bloom_k = 1 /\ ptr = 0 /\ bloom_pc = "cut"

carry == (ptr % WordBits) + bloom_shash - WordBits
(* Mutant of NextSha: a piece that ends with the digest does not ask for   *)
(* the next one.                                                           *)
NextShaLate == carry > 0 /\ ptr \div WordBits = NBlocks - 1
NextSha == carry >= 0 /\ ptr \div WordBits = NBlocks - 1

(* What the piece has of the word it begins in, and of the word after it,  *)
(* which may be the first of the next digest.                              *)
Head_(d) == Slice(d, ptr, ptr + (IF carry > 0 THEN bloom_shash - carry ELSE bloom_shash))
Rest_(d) == IF carry > 0 THEN LET at == IF NextSha THEN 0 ELSE (ptr \div WordBits + 1) * WordBits
                              IN  Slice(d, at, at + carry)
            ELSE <<>>

Repeated(r, v) == \E i \in 1..(bloom_k - 1) : r[i] = v
(* Mutant of Advance: a value that repeats is kept. *)
AdvanceAlways(v) == bloom_k + 1
Advance(v) == IF norep = 1 /\ Repeated(bloom_res, v) THEN bloom_k ELSE bloom_k + 1

bloom_compute ==
  /\ bloom_pc = "cut" /\ bloom_k <= bloom_nhash
  /\ NextSha => Len(stream) < MaxDigests
  /\ bloom_msgdig' \in IF NextSha THEN Digests ELSE {bloom_msgdig}
  /\ stream' = IF NextSha THEN Append(stream, bloom_msgdig') ELSE stream
  /\ LET v == Head_(bloom_msgdig) \o Rest_(bloom_msgdig')
     IN  bloom_res' = SubSeq(bloom_res, 1, bloom_k - 1) \o <<v>> /\ bloom_k' = Advance(v)
  /\ ptr' = (IF NextSha THEN ptr - BloomBits ELSE ptr) + bloom_shash
  /\ bloom_pc' = IF bloom_k' > bloom_nhash THEN "done" ELSE "cut"
  /\ UNCHANGED <<bloom_shash, bloom_nhash, norep>>

BloomHashNext == bloom_compute
-----------------------------------------------------------------------------
(* The assertion of the loop: the pointer stays in the digest, so that the *)
(* next piece begins in one of its words.                                  *)
PointerInDigest == ptr >= 0 /\ (bloom_pc = "cut" => ptr < BloomBits)

(* The short digests are the pieces of the stream of digests in order,     *)
(* without the repetitions when they are not wanted.                       *)
AllBits == FoldLeft(LAMBDA s, d : s \o d, <<>>, stream)
Pieces == [i \in 1..(((Len(stream) - 1) * BloomBits + ptr) \div bloom_shash) |-> SubSeq(AllBits, (i - 1) * bloom_shash + 1, i * bloom_shash)]
First(s) == FoldLeft(LAMBDA r, v : IF norep = 1 /\ v \in ToSet(r) THEN r ELSE Append(r, v), <<>>, s)
PiecesInOrder == bloom_pc = "done" => bloom_res = First(Pieces) /\ Len(bloom_res) = bloom_nhash

-----------------------------------------------------------------------------
(***************************************************************************)
(* The multiply-add hash of lib/hash/ACHash31.cpp.  Key bytes are packed   *)
(* into words, little end first, the words are added, and the sum is       *)
(* hashed.  Bytes and words are smaller than the code's 8 and 32 bits; the *)
(* arithmetic wraps where the code's does.                                 *)
(***************************************************************************)
CONSTANTS ByteVals,   \* values of a byte (256)
          WordBytes,  \* bytes of a word (4)
          Half,       \* 2^31
          MaskBits,   \* bits of SMOD_MOD: 0..27 and 29 (0x2FFFFFFF)
          A, B,       \* the constructor's parameters
          MaxLen, MaxInt

VARIABLES call,       \* the call: [op, key, input] or [op, ints, newline]
          ac_i, key_int, key_int_temp, phase, output

ACHash31Vars == <<call, ac_i, key_int, key_int_temp, phase, output>>

ACWord == ByteVals ^ WordBytes
Bytes == UNION {[1..n -> 0..(ByteVals - 1)] : n \in 0..MaxLen}
Ints == UNION {[1..n -> 0..MaxInt] : n \in 1..2}

Calls == [op : {"hmac"}, key : Bytes, input : Bytes]
           \cup [op : {"file"}, ints : Ints, newline : BOOLEAN]

ACHash31Init ==
  /\ call \in Calls
  /\ ac_i = 0 /\ key_int = 0 /\ key_int_temp = 0 /\ output = <<>>
  /\ phase = IF call.op = "hmac" THEN "key" ELSE "read"

And(x, bits) ==
  LET bit[n \in 0..4] == IF n \in bits /\ (x \div 2^n) % 2 = 1 THEN 2^n ELSE 0
  IN  bit[0] + bit[1] + bit[2] + bit[3] + bit[4]

(* compute(key): a 64-bit product, folded once and masked. *)
ACHash(key) ==
  LET result == (A * key + B) % (ACWord * ACWord)
  IN  And(((result \div Half) + result) % (ACWord * ACWord), MaskBits)

(* Mutant: the bytes come big end first. *)
DigestBig(h) == [n \in 1..WordBytes |-> (h \div ByteVals^(WordBytes - n)) % ByteVals]

(* The loop that stores the hash into the output, low byte first. *)
Digest(h) == [n \in 1..WordBytes |-> (h \div ByteVals^(n - 1)) % ByteVals]
-----------------------------------------------------------------------------
FlushNever(s) ==         \* mutant: a word that is full is not added
  /\ ac_i < Len(s)
  /\ key_int' = key_int
  /\ key_int_temp' = ((IF ac_i % WordBytes = 0 THEN 0 ELSE key_int_temp)
                        + s[ac_i + 1] * ByteVals^(ac_i % WordBytes)) % ACWord
  /\ ac_i' = ac_i + 1
  /\ UNCHANGED <<call, phase, output>>

(* A byte of the key, or of the message: a word that is full is added      *)
(* first.                                                                  *)
Byte(s) ==
  /\ ac_i < Len(s)
  /\ key_int' = IF ac_i % WordBytes = 0 THEN (key_int + key_int_temp) % ACWord ELSE key_int
  /\ key_int_temp' = ((IF ac_i % WordBytes = 0 THEN 0 ELSE key_int_temp)
                        + s[ac_i + 1] * ByteVals^(ac_i % WordBytes)) % ACWord
  /\ ac_i' = ac_i + 1
  /\ UNCHANGED <<call, phase, output>>

(* compute(key, keylen, input, ilen): the last word of the key is added    *)
(* before the message starts a new one.  The hash of a message without a   *)
(* key (compute(key, len)) is the same with an empty key.                  *)
EndOfKey ==
  /\ phase = "key" /\ ac_i = Len(call.key)
  /\ phase' = "input" /\ ac_i' = 0
  /\ key_int' = (key_int + key_int_temp) % ACWord /\ key_int_temp' = 0
  /\ UNCHANGED <<call, output>>

EndOfInput ==
  /\ phase = "input" /\ ac_i = Len(call.input)
  /\ key_int' = (key_int + key_int_temp) % ACWord
  /\ output' = Digest(ACHash(key_int')) /\ phase' = "done"
  /\ UNCHANGED <<call, ac_i, key_int_temp>>

ReadOnce ==              \* mutant of Read: the stream is tested after the read
  /\ phase = "read" /\ ac_i < Len(call.ints)
  /\ key_int_temp' = call.ints[ac_i + 1] /\ key_int' = (key_int + key_int_temp') % ACWord
  /\ ac_i' = ac_i + 1
  /\ phase' = IF ac_i' = Len(call.ints) THEN "close" ELSE "read"
  /\ UNCHANGED <<call, output>>

(* computeFile: while (!eof) { input >> tmp; key += tmp }.  The end of the *)
(* file is noticed with the last integer only when nothing follows it;     *)
(* after a newline one more read fails, and tmp is added again.            *)
Read ==
  /\ phase = "read"
  /\ key_int_temp' = IF ac_i < Len(call.ints) THEN call.ints[ac_i + 1] ELSE key_int_temp
  /\ key_int' = (key_int + key_int_temp') % ACWord
  /\ ac_i' = ac_i + 1
  /\ phase' = IF ac_i' > Len(call.ints) \/ (ac_i' = Len(call.ints) /\ ~call.newline)
              THEN "close" ELSE "read"
  /\ UNCHANGED <<call, output>>

Close ==
  /\ phase = "close" /\ phase' = "done"
  /\ output' = Digest(ACHash(key_int))
  /\ UNCHANGED <<call, ac_i, key_int, key_int_temp>>

ACHash31Next ==
  \/ phase = "key" /\ Byte(call.key)
  \/ phase = "input" /\ Byte(call.input)
  \/ EndOfKey \/ EndOfInput \/ Read \/ Close
-----------------------------------------------------------------------------
Value(s) ==      \* sum of s[n] * ByteVals^((n - 1) % WordBytes), the words of s added
  LET f[n \in 0..Len(s)] == IF n = 0 THEN 0
                            ELSE f[n - 1] + s[n] * ByteVals^((n - 1) % WordBytes)
  IN  f[Len(s)]
Total(s) == LET f[n \in 0..Len(s)] == IF n = 0 THEN 0 ELSE f[n - 1] + s[n] IN f[Len(s)]

(* Key and message are split into words, a partial last word filled with   *)
(* zeros, and all the words added: no byte is lost where the key ends and  *)
(* the message begins, at whatever lengths.                                *)
AllWordsAdded == phase = "done" /\ call.op = "hmac" =>
  key_int = (Value(call.key) + Value(call.input)) % ACWord

(* The bytes of the digest are the hash of that sum, and lie below the     *)
(* mask.                                                                   *)
DigestIsHash == phase = "done" =>
  /\ Value(output) = ACHash(key_int)
  /\ \A n \in 0..4 : n \notin MaskBits => (Value(output) \div 2^n) % 2 = 0

(* "it adds all the integer": true of a file that ends with its last       *)
(* digit; one that ends with a newline has its last integer added twice.   *)
FileAdded == phase = "done" /\ call.op = "file" =>
  key_int = (Total(call.ints)
               + IF call.newline THEN call.ints[Len(call.ints)] ELSE 0) % ACWord
=============================================================================
