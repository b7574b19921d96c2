------------------------------ MODULE Hashing -------------------------------
(***************************************************************************)
(* Hashes that are fed piece by piece: the four digests of digest.cpp, the *)
(* MACs and the key derivation built on them (hmac.cpp, kdf.cpp), the hash *)
(* tree of blake3.cpp, and the bitwise checksums of crc.cpp.               *)
(* What becomes of a message must not depend on how it was cut, nor on     *)
(* what the object was used for before.                                    *)
(*                                                                         *)
(* A byte is a tuple that says where it comes from.  What a compression    *)
(* function computes is left open: its result is the term of what it was   *)
(* given, so that two results are equal only where the inputs are.  Sizes  *)
(* are scaled, and keep their order: a block of the code has 64 or 128     *)
(* bytes and ends in a length of 8 or 16, a chunk of the tree has 16 pages *)
(* of 64, and a checksum's register has 16 or 64 bits.                     *)
(***************************************************************************)
EXTENDS Integers, Sequences, SequencesExt

CONSTANTS
  Block, Field,       \* bytes of a block, and of the length at the end
  DigestSize,         \* bytes of a digest
  Wrap,               \* the values of one word of the bit count
  PageSize, Pages,    \* the tree's pages, and how many make a chunk
  MinRounds, MaxRounds, MinSalt,   \* of the key derivation
  MaxPiece,           \* the most bytes given at once, fewer than a count can tell
  MaxMessage,         \* bound on the bytes fed
  MaxSummed,          \* the same for checksums, whose bits are worked out
  MaxUses             \* bound on the messages fed to one object

ASSUME HashingAssumption ==
  /\ Block \in Nat /\ Field \in 1..(Block - 2) /\ DigestSize \in 1..Block
  /\ Wrap \in Nat \ {0, 1} /\ PageSize \in Nat \ {0} /\ Pages \in Nat \ {0}
  /\ MinRounds \in Nat \ {0} /\ MaxRounds \in Nat /\ MinRounds <= MaxRounds /\ MinSalt \in Nat
  /\ MaxPiece < Wrap /\ MaxMessage \in Nat /\ MaxSummed \in Nat /\ MaxUses \in Nat

VARIABLES
  hasher,    \* what is used: "Md5", ..., "Hmac", "Blake3", "Crc"
  hashing,   \* the object
  mode,      \* the key or context it was last reset with
  fed,       \* the bytes it was given since
  digested,  \* what finish() returned, or "nothing" before
  uses       \* how often it was reset

hashVars == <<hasher, hashing, mode, fed, digested, uses>>

Zero == <<"zero">>

\* The k-th byte given to the object after its n-th reset.
DataByte(n, k) == <<"data", n, k>>

Zeros(n) == [i \in 1..n |-> Zero]

Cut(s, size) == [i \in 1..(Len(s) \div size) |-> SubSeq(s, (i - 1) * size + 1, i * size)]

Shorter(a, b) == IF a < b THEN a ELSE b

-----------------------------------------------------------------------------
(* Digests.  The four classes are one scheme, written out four times: they *)
(* differ in the order of the length's bytes, in the words of the count,   *)
(* which is one of bytes here, and in their compression, of which only the *)
(* name is left.                                                           *)

Scheme(name, low_first, words) == [name |-> name, low_first |-> low_first, words |-> words]

Md5    == Scheme("Md5", TRUE, 1)
Sha256 == Scheme("Sha256", FALSE, 1)
Sha1   == Scheme("Sha1", FALSE, 1)
Sha512 == Scheme("Sha512", FALSE, 2)

Digests == {Md5, Sha1, Sha256, Sha512}

\* reset(): chain is what the blocks so far were made into.
NewDigest(c) == [of |-> c, chain |-> <<>>, buffer |-> <<>>, low |-> 0, high |-> 0]

\* The count is of 2^64 values in the code; only Sha512 keeps the carry.
CountedCarryLost(d, n) == [d EXCEPT !.low = (@ + n) % Wrap]   \* Mutant: no second word.

Counted(d, n) ==
  [d EXCEPT !.low = (@ + n) % Wrap,
            !.high = IF d.of.words = 2 /\ (d.low + n) % Wrap < d.low THEN @ + 1 ELSE @]

\* Mutant: a buffer that has just become full is not emptied.
UpdateKeepsFull(d, p) ==
  LET take  == IF d.buffer = <<>> THEN 0 ELSE Shorter(Block - Len(d.buffer), Len(p))
      begun == d.buffer \o SubSeq(p, 1, take)
      rest  == SubSeq(p, take + 1, Len(p))
      whole == Cut(rest, Block)
      tail  == SubSeq(rest, Len(whole) * Block + 1, Len(rest))
  IN [Counted(d, Len(p)) EXCEPT
        !.chain = @ \o (IF Len(begun) = Block THEN <<begun>> ELSE <<>>) \o whole,
        !.buffer = IF tail # <<>> THEN tail ELSE begun]

Update(d, p) ==
  LET take  == IF d.buffer = <<>> THEN 0 ELSE Shorter(Block - Len(d.buffer), Len(p))
      begun == d.buffer \o SubSeq(p, 1, take)
      full  == Len(begun) = Block
      rest  == SubSeq(p, take + 1, Len(p))
      whole == Cut(rest, Block)
      tail  == SubSeq(rest, Len(whole) * Block + 1, Len(rest))
  IN [Counted(d, Len(p)) EXCEPT
        !.chain = @ \o (IF full THEN <<begun>> ELSE <<>>) \o whole,
        !.buffer = IF tail # <<>> THEN tail ELSE IF full THEN <<>> ELSE begun]

LengthBytes(c, low, high) ==
  LET byte(i) == <<"length", low, high, IF c.low_first THEN i ELSE Field + 1 - i>>
  IN [i \in 1..Field |-> byte(i)]

DigestBytes(c, chain) == [i \in 1..DigestSize |-> <<"digest", c.name, chain, i>>]

\* Mutant: a block that has just no room for the length is taken to have it.
PadBytesTooFew(used) == IF used <= Block - Field THEN Block - Field - used - 1
                                                 ELSE 2 * Block - Field - used - 1

PadBytes(used) == IF used < Block - Field THEN Block - Field - used - 1
                                          ELSE 2 * Block - Field - used - 1

\* finish(): the object after it, whose chain is the digest.
FinishDigest(d) ==
  Update(d, <<(<<"mark">>)>> \o Zeros(PadBytes(Len(d.buffer)))
              \o LengthBytes(d.of, d.low, d.high))

DigestOf(d) == DigestBytes(d.of, FinishDigest(d).chain)

\* What the standards say: the least padding that fills the last block.
Padded(c, m) ==
  LET n    == Len(m)
      fill == CHOOSE k \in 0..(Block - 1) : (n + 1 + k + Field) % Block = 0
  IN m \o <<(<<"mark">>)>> \o Zeros(fill)
       \o LengthBytes(c, n % Wrap, IF c.words = 2 THEN n \div Wrap ELSE 0)

TrueDigest(c, m) == DigestBytes(c, Cut(Padded(c, m), Block))

-----------------------------------------------------------------------------
(* MACs: HmacSha256, and HmacMd5 with another digest. *)

Xored(pad, key) == [i \in DOMAIN key |-> <<pad, key[i]>>]

FillKey(key) == key \o Zeros(Block - Len(key))

DigestAlone(c, m) == DigestOf(Update(NewDigest(c), m))

KeyBlock(c, key) == FillKey(IF Len(key) > Block THEN DigestAlone(c, key) ELSE key)

\* Mutant: the objects are not reset first.
SetKeyOnTop(h, key) ==
  [inner |-> Update(h.inner, Xored("ipad", KeyBlock(h.inner.of, key))),
   outer |-> Update(h.outer, Xored("opad", KeyBlock(h.inner.of, key)))]

SetKey(h, key) ==
  LET c == h.inner.of IN
  [inner |-> Update(NewDigest(c), Xored("ipad", KeyBlock(c, key))),
   outer |-> Update(NewDigest(c), Xored("opad", KeyBlock(c, key)))]

NewHmac(c) == [inner |-> NewDigest(c), outer |-> NewDigest(c)]

UpdateHmac(h, p) == [h EXCEPT !.inner = Update(@, p)]

\* finish() leaves both objects as their finish() leaves them.
FinishHmac(h) ==
  [inner |-> FinishDigest(h.inner),
   outer |-> FinishDigest(Update(h.outer, DigestOf(h.inner)))]

MacOf(h) == DigestBytes(h.outer.of, FinishHmac(h).outer.chain)

\* RFC 2104.
TrueMac(c, key, m) ==
  LET k == FillKey(IF Len(key) > Block THEN TrueDigest(c, key) ELSE key) IN
  TrueDigest(c, Xored("opad", k) \o TrueDigest(c, Xored("ipad", k) \o m))

HmacMd5    == NewHmac(Md5)
HmacSha256 == NewHmac(Sha256)

-----------------------------------------------------------------------------
(* Pbkdf2HmacSha256::derive().  The exclusive or of blocks is the set of   *)
(* those that went in an odd number of times.                              *)

SetXor(s, t) == (s \ t) \cup (t \ s)

Index(i) == <<(<<"index", i>>)>>

\* One MAC object serves all rounds of a block of the key.
Round(r, password) ==
  LET h == UpdateHmac(SetKey(r.mac, password), r.u)
  IN [mac |-> FinishHmac(h), u |-> MacOf(h), sum |-> SetXor(r.sum, {MacOf(h)})]

KeyPart(password, salt, iterations, i) ==
  LET first == Round([mac |-> HmacSha256, u |-> salt \o Index(i), sum |-> {}], password)
  IN FoldLeft(LAMBDA r, n : Round(r, password), first, [n \in 1..(iterations - 1) |-> n]).sum

\* Mutant: all parts of the key are made from the first index.
DerivedByteSame(password, salt, iterations, k) ==
  <<KeyPart(password, salt, iterations, 1), ((k - 1) % DigestSize) + 1>>

\* A byte of the key: the block it comes from, and its place there.
DerivedByte(password, salt, iterations, k) ==
  <<KeyPart(password, salt, iterations, ((k - 1) \div DigestSize) + 1),
    ((k - 1) % DigestSize) + 1>>

\* The number of rounds is clamped; a short salt is refused.
RoundsOf(n) == IF n < MinRounds THEN MinRounds ELSE Shorter(n, MaxRounds)

Derive(password, salt, iterations, bytes) ==
  IF Len(salt) < MinSalt THEN <<>>
  ELSE [k \in 1..bytes |-> DerivedByte(password, salt, RoundsOf(iterations), k)]

\* RFC 2898.
TrueU(password, salt, n, i) ==
  LET u[k \in 1..n] == TrueMac(Sha256, password, IF k = 1 THEN salt \o Index(i) ELSE u[k - 1])
  IN {u[k] : k \in 1..n}

TrueKey(password, salt, iterations, bytes) ==
  [k \in 1..bytes |->
     LET i == CHOOSE j \in 1..bytes : (j - 1) * DigestSize < k /\ k <= j * DigestSize
     IN <<TrueU(password, salt, iterations, i), k - (i - 1) * DigestSize>>]

-----------------------------------------------------------------------------
(* Blake3: pages are chained into chunks, chunks are leaves of a tree. *)

Compress(cv, page, t, flags) == <<"compressed", cv, page, t, flags>>

Iv == <<"iv">>

\* init_mode().
NewTree(key, flags) ==
  [key |-> key, flags |-> flags, cv |-> key, counter |-> 0, page |-> <<>>,
   compressed |-> 0, stack |-> <<>>]

StartFlag(h) == IF h.compressed = 0 THEN {"start"} ELSE {}

ParentCv(h, left, right) == Compress(h.key, <<left, right>>, 0, h.flags \cup {"parent"})

\* Mutant: a chunk is paired with one equal only.
PairedOnce(stack) ==
  IF stack # <<>> /\ stack[Len(stack)].chunks = 1 THEN 1 ELSE 0

\* Subtrees of one size are paired at once: so many of the stack's top go into
\* the subtree that the new chunk completes.
Paired(stack) ==
  CHOOSE n \in 0..Len(stack) :
    /\ \A k \in 0..(n - 1) : stack[Len(stack) - k].chunks = 2^k
    /\ n < Len(stack) => stack[Len(stack) - n].chunks # 2^n

LastChunk(h) == Compress(h.cv, h.page, h.counter, h.flags \cup StartFlag(h) \cup {"end"})

FinishChunk(h) ==
  LET n   == Paired(h.stack)
      top == SubSeq(h.stack, (Len(h.stack) - n) + 1, Len(h.stack))
      cv  == FoldRight(LAMBDA e, right : ParentCv(h, e.cv, right), top, LastChunk(h))
  IN [h EXCEPT !.stack = SubSeq(@, 1, Len(@) - n) \o <<[cv |-> cv, chunks |-> 2^n]>>,
               !.cv = h.key, !.counter = @ + 1, !.compressed = 0, !.page = <<>>]

\* Mutant: the last page of a chunk is taken for one of its middle.
FlushNoChunk(h) ==
  [h EXCEPT !.cv = Compress(@, h.page, h.counter, h.flags \cup StartFlag(h)),
            !.compressed = @ + 1, !.page = <<>>]

\* A page that is full is used up when more comes.
Flush(h) ==
  IF h.compressed = Pages - 1 THEN FinishChunk(h)
  ELSE [h EXCEPT !.cv = Compress(@, h.page, h.counter, h.flags \cup StartFlag(h)),
                 !.compressed = @ + 1, !.page = <<>>]

\* update() copies runs of bytes, which is taken byte by byte here.
UpdateTree(h, p) ==
  FoldLeft(LAMBDA g, byte :
             IF Len(g.page) = PageSize THEN [Flush(g) EXCEPT !.page = <<byte>>]
             ELSE [g EXCEPT !.page = Append(@, byte)], h, p)

\* What the root's compression is given; the counter of its output replaces t.
TreeRoot(h) ==
  IF h.stack = <<>>
    THEN [cv |-> h.cv, page |-> h.page, t |-> h.counter,
          flags |-> h.flags \cup StartFlag(h) \cup {"end", "root"}]
  ELSE [cv |-> h.key, t |-> 0, flags |-> h.flags \cup {"parent", "root"},
        page |-> <<h.stack[1].cv,
                   FoldRight(LAMBDA e, right : ParentCv(h, e.cv, right),
                             Tail(h.stack), LastChunk(h))>>]

Output(root, n) == [i \in 1..n |-> Compress(root.cv, root.page, root.t + i - 1, root.flags)]

AfterTree(h) == [h EXCEPT !.stack = <<>>]

\* reset_derive(): a key made of the context by a tree of its own.
DerivedKey(context) ==
  <<"key of", Output(TreeRoot(UpdateTree(NewTree(Iv, {"context"}), context)), 1)>>

\* The specification of BLAKE3: the left subtree is full and as large as can be.
TrueChunkCv(key, flags, chunk, t) ==
  LET pages == IF chunk = <<>> THEN <<chunk>>
               ELSE [i \in 1..(((Len(chunk) + PageSize) - 1) \div PageSize) |->
                       SubSeq(chunk, (i - 1) * PageSize + 1, Shorter(i * PageSize, Len(chunk)))]
      FlagsOf(i) == flags \cup (IF i = 1 THEN {"start"} ELSE {})
                          \cup (IF i = Len(pages) THEN {"end"} ELSE {})
      cv[i \in 0..Len(pages)] ==
        IF i = 0 THEN key ELSE Compress(cv[i - 1], pages[i], t, FlagsOf(i))
  IN [cv |-> cv[Len(pages) - 1], page |-> pages[Len(pages)], t |-> t,
      flags |-> FlagsOf(Len(pages))]

TrueRoot(key, flags, m) ==
  LET size == PageSize * Pages
      n == IF m = <<>> THEN 1 ELSE ((Len(m) + size) - 1) \div size
      Left(k) == CHOOSE l \in 1..(k - 1) : (\E e \in 0..k : l = 2^e) /\ 2 * l >= k
      Chained(node) == Compress(node.cv, node.page, node.t, node.flags)
      \* The subtree of the chunks from first on, so many of them.
      node[first \in 1..n, count \in 1..n] ==
        IF count = 1
          THEN TrueChunkCv(key, flags,
                 SubSeq(m, (first - 1) * size + 1, Shorter(first * size, Len(m))), first - 1)
        ELSE [cv |-> key, t |-> 0, flags |-> flags \cup {"parent"},
              page |-> <<Chained(node[first, Left(count)]),
                         Chained(node[first + Left(count), count - Left(count)])>>]
  IN [node[1, n] EXCEPT !.flags = @ \cup {"root"}]

-----------------------------------------------------------------------------
(* Checksums, computed bit by bit.  A register is the sequence of its bits *)
(* with the lowest first, a byte too.                                      *)

Nibble(n) == [i \in 1..4 |-> (n \div 2^(i - 1)) % 2]

\* The bits of a number that is given by its hexadecimal digits.
BitsOf(digits) == FlattenSeq(Reverse([i \in DOMAIN digits |-> Nibble(digits[i])]))

BitXor(a, b) == [i \in DOMAIN a |-> (a[i] + b[i]) % 2]

Crc16Poly == BitsOf(<<10, 0, 0, 1>>)
Crc64Poly == BitsOf(<<12, 9, 6, 12, 5, 7, 9, 5, 13, 7, 8, 7, 0, 15, 4, 2>>)

NewCrc(poly) == [poly |-> poly, value |-> [i \in DOMAIN poly |-> 1]]

ShiftBit(crc, poly) ==
  LET down == Append(Tail(crc), 0) IN IF crc[1] = 1 THEN BitXor(down, poly) ELSE down

\* Mutant: the byte is added at the upper end.
CrcByteHigh(crc, poly, byte) ==
  FoldLeft(LAMBDA c, n : ShiftBit(c, poly),
           BitXor(crc, [i \in DOMAIN crc |-> IF i > Len(crc) - 8
                                              THEN byte[i - (Len(crc) - 8)] ELSE 0]),
           [n \in 1..8 |-> n])

CrcByte(crc, poly, byte) ==
  FoldLeft(LAMBDA c, n : ShiftBit(c, poly),
           BitXor(crc, [i \in DOMAIN crc |-> IF i <= 8 THEN byte[i] ELSE 0]),
           [n \in 1..8 |-> n])

UpdateCrc(h, p) ==
  [h EXCEPT !.value = FoldLeft(LAMBDA c, byte : CrcByte(c, h.poly, byte), @, p)]

\* Only CRC-64 inverts the register at the end.
CrcValue(h) ==
  IF h.poly = Crc64Poly THEN [i \in DOMAIN h.value |-> 1 - h.value[i]] ELSE h.value

\* The remainder of the message, lengthened by the register's width, in the long
\* division by the polynomial; the first bits are inverted.
TrueCrc(poly, m) ==
  LET bits == FlattenSeq(m)
      w    == Len(poly)
      long == [i \in 1..(Len(bits) + w) |->
                 ((IF i <= Len(bits) THEN bits[i] ELSE 0) + (IF i <= w THEN 1 ELSE 0)) % 2]
      Subtract(r) == [i \in DOMAIN r |-> IF i \in 2..(w + 1) THEN (r[i] + poly[i - 1]) % 2
                                          ELSE r[i]]
      remainder == FoldLeft(LAMBDA r, bit : Tail(IF r[1] = 1 THEN Subtract(r) ELSE r),
                            long, bits)
  IN IF poly = Crc64Poly THEN [i \in 1..w |-> 1 - remainder[i]] ELSE remainder

\* The bytes that the checksum is fed with.
CrcData(n, k) == BitsOf(<<(3 * k) + n, (7 * k + 5) % 16>>)

-----------------------------------------------------------------------------
(* One object in use. *)

Names == {"Md5", "Sha1", "Sha256", "Sha512", "HmacMd5", "HmacSha256", "Pbkdf2",
          "Blake3", "Crc16", "Crc64"}

DigestScheme == CHOOSE c \in Digests : c.name = hasher

KeyBytes(n) == [k \in 1..n |-> <<"key", uses + 1, k>>]

\* The keys, contexts and parameters of a use.
Modes ==
  CASE hasher \in {"HmacMd5", "HmacSha256"} -> {KeyBytes(n) : n \in {0, 2, Block, Block + 1}}
    [] hasher = "Pbkdf2" -> {<<KeyBytes(2), n, b>> : n \in (MinRounds - 1)..(MaxRounds + 1),
                                                     b \in 1..(DigestSize + 1)}
    [] hasher = "Blake3" -> {<<"plain">>, <<"keyed">>, <<"derived", KeyBytes(PageSize + 1)>>}
    [] OTHER -> {<<>>}

Constructed(name) ==
  CASE name \in {"Md5", "Sha1", "Sha256", "Sha512"} ->
         NewDigest(CHOOSE c \in Digests : c.name = name)
    [] name = "HmacMd5" -> HmacMd5
    [] name = "HmacSha256" -> HmacSha256
    [] name = "Blake3" -> NewTree(Iv, {})
    [] name = "Crc16" -> NewCrc(Crc16Poly)
    [] name = "Crc64" -> NewCrc(Crc64Poly)
    [] name = "Pbkdf2" -> <<>>

HashInit ==
  /\ hasher \in Names /\ hashing = Constructed(hasher)
  /\ mode = <<>> /\ fed = <<>> /\ digested = <<>> /\ uses = 0

\* The object is used again: reset(), set_key(), reset_derive(), or reset_keyed(),
\* which leaves the object alone if the key has not the right size; a checksum is
\* assigned a new one.
Restarted(m) ==
  CASE hasher \in {"HmacMd5", "HmacSha256"} -> SetKey(hashing, m)
    [] hasher = "Blake3" /\ m[1] = "keyed" -> NewTree(<<"key", uses>>, {"keyed"})
    [] hasher = "Blake3" /\ m[1] = "derived" -> NewTree(DerivedKey(m[2]), {"material"})
    [] OTHER -> Constructed(hasher)

BeginUse(m) ==
  /\ uses < MaxUses /\ m \in Modes
  /\ hashing' = Restarted(m) /\ mode' = m
  /\ fed' = <<>> /\ digested' = <<>> /\ uses' = uses + 1
  /\ UNCHANGED hasher

\* update(), before finish().
Feed(n) ==
  LET first == Len(fed)
      piece == [k \in 1..n |-> IF hasher \in {"Crc16", "Crc64"}
                               THEN CrcData(uses, first + k) ELSE DataByte(uses, first + k)]
  IN /\ uses > 0 /\ digested = <<>>
     /\ first + n <= IF hasher \in {"Crc16", "Crc64"} THEN MaxSummed ELSE MaxMessage
     /\ fed' = fed \o piece
     /\ hashing' = CASE hasher \in {"HmacMd5", "HmacSha256"} -> UpdateHmac(hashing, piece)
                      [] hasher = "Blake3" -> UpdateTree(hashing, piece)
                      [] hasher \in {"Crc16", "Crc64"} -> UpdateCrc(hashing, piece)
                      [] hasher = "Pbkdf2" -> hashing
                      [] OTHER -> Update(hashing, piece)
     /\ UNCHANGED <<hasher, mode, digested, uses>>

\* finish().
FinishHash ==
  /\ uses > 0 /\ digested = <<>>
  /\ CASE hasher \in {"HmacMd5", "HmacSha256"} ->
            hashing' = FinishHmac(hashing) /\ digested' = <<MacOf(hashing)>>
       [] hasher = "Blake3" ->
            \E n \in 1..2 :
              hashing' = AfterTree(hashing) /\ digested' = <<Output(TreeRoot(hashing), n)>>
       [] hasher \in {"Crc16", "Crc64"} ->
            hashing' = hashing /\ digested' = <<CrcValue(hashing)>>
       [] hasher = "Pbkdf2" ->
            hashing' = hashing /\ digested' = <<Derive(mode[1], fed, mode[2], mode[3])>>
       [] OTHER -> hashing' = FinishDigest(hashing) /\ digested' = <<DigestOf(hashing)>>
  /\ UNCHANGED <<hasher, mode, fed, uses>>

HashNext ==
  \/ \E m \in Modes : BeginUse(m)
  \/ \E n \in 1..MaxPiece : Feed(n)
  \/ FinishHash

HashSpec == HashInit /\ [][HashNext]_hashVars

-----------------------------------------------------------------------------
(* Properties. *)

\* What finish() returns is what the standard defines of the whole message: it
\* depends on the key and the bytes, and not on how they were cut, on how the
\* last block was filled, or on what the object was used for before.
HashInv ==
  digested # <<>> =>
    CASE hasher = "HmacMd5" -> digested[1] = TrueMac(Md5, mode, fed)
      [] hasher = "HmacSha256" -> digested[1] = TrueMac(Sha256, mode, fed)
      [] hasher = "Blake3" ->
           LET key   == CASE mode[1] = "plain" -> Iv
                          [] mode[1] = "keyed" -> <<"key", uses - 1>>
                          [] OTHER -> <<"key of", Output(TrueRoot(Iv, {"context"}, mode[2]), 1)>>
               flags == CASE mode[1] = "plain" -> {}
                          [] mode[1] = "keyed" -> {"keyed"}
                          [] OTHER -> {"material"}
           IN digested[1] = Output(TrueRoot(key, flags, fed), Len(digested[1]))
      [] hasher = "Crc16" -> digested[1] = TrueCrc(Crc16Poly, fed)
      [] hasher = "Crc64" -> digested[1] = TrueCrc(Crc64Poly, fed)
      [] hasher = "Pbkdf2" ->
           digested[1] = IF Len(fed) < MinSalt THEN <<>>
                         ELSE TrueKey(mode[1], fed, RoundsOf(mode[2]), mode[3])
      [] OTHER -> digested[1] = TrueDigest(DigestScheme, fed)
=============================================================================
