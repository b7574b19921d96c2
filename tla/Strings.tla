------------------------------ MODULE Strings -------------------------------
(***************************************************************************)
(* The library's work on strings: taking apart and putting together, and   *)
(* UTF-8 (string_algo.cpp, utf8_codec.h), clusters of characters           *)
(* (grapheme.cpp), Base64, hexadecimal and URL encodings (encoding.cpp),   *)
(* endpoints and addresses (net_addr.cpp), and conversion by iconv         *)
(* (charset.cpp).  Bytes and digits are scaled down and keep their         *)
(* structure: what was 8 bits in 6-bit digits is 4 bits in 3-bit digits,   *)
(* and a byte of UTF-8 has five bits.                                      *)
(***************************************************************************)
EXTENDS Integers, Sequences, SequencesExt, FiniteSets, FiniteSetsExt

CONSTANTS
  MaxLetters,    \* bound on the strings that are taken apart
  MaxBytes,      \* bound on the bytes that are encoded or decoded
  MaxSigns,      \* bound on the characters of a cluster's neighbourhood
  MaxEndpoint,   \* bound on an endpoint's characters
  MaxUnits16,    \* bound on the characters iconv converts
  Slack          \* iconv_convert(): 16, the room beyond the input's size

ASSUME StringsAssumption ==
  /\ MaxLetters \in Nat /\ MaxBytes \in Nat /\ MaxSigns \in Nat /\ MaxEndpoint \in Nat
  /\ MaxUnits16 \in Nat /\ Slack \in Nat \ {0}

VARIABLES
  art,        \* "letters", "digits", "url", "utf8", "clusters", "endpoint", "ipv4", "charset",
              \* "utf16"
  given_text, \* the input
  made,       \* <<>>, or <<what came out>>
  conversion  \* the loop around iconv(): input read, output written, the buffer's size

stringVars == <<art, given_text, made, conversion>>

Upto(set, n) == UNION {[1..k -> set] : k \in 0..n}
Sub(s, i, j) == SubSeq(s, i, j)
StartsAt(s, i, t) == i + Len(t) <= Len(s) + 1 /\ Sub(s, i, i + Len(t) - 1) = t

-----------------------------------------------------------------------------
(* Taking apart and putting together. *)

\* str.find(): where t begins in s at i or later, 0 if nowhere.
FindFrom(s, t, i) ==
  LET found == {k \in i..Len(s) + 1 : StartsAt(s, k, t)} IN
  IF found = {} THEN 0 ELSE Min(found)

\* Mutant: the search goes on one character on, not behind what was found.
RECURSIVE PiecesOverlapping(_, _, _)
PiecesOverlapping(s, delimiter, i) ==
  LET found == FindFrom(s, delimiter, i) IN
  IF found = 0 THEN <<Sub(s, i, Len(s))>>
  ELSE <<Sub(s, i, found - 1)>> \o PiecesOverlapping(s, delimiter, found + 1)

RECURSIVE PiecesFrom(_, _, _)
PiecesFrom(s, delimiter, i) ==
  LET found == FindFrom(s, delimiter, i) IN
  IF found = 0 THEN <<Sub(s, i, Len(s))>>
  ELSE <<Sub(s, i, found - 1)>> \o PiecesFrom(s, delimiter, found + Len(delimiter))

SplitString(s, delimiter, skip_empty) ==
  IF delimiter = <<>> THEN <<s>>
  ELSE LET pieces == PiecesFrom(s, delimiter, 1) IN
       IF skip_empty THEN SelectSeq(pieces, LAMBDA p : p # <<>>) ELSE pieces

JoinStrings(parts, delimiter) ==
  FlattenSeq([i \in DOMAIN parts |-> IF i > 1 THEN delimiter \o parts[i] ELSE parts[i]])

RECURSIVE ReplaceFrom(_, _, _, _)
ReplaceFrom(s, from, to, i) ==
  LET found == FindFrom(s, from, i) IN
  IF found = 0 THEN Sub(s, i, Len(s))
  ELSE Sub(s, i, found - 1) \o to \o ReplaceFrom(s, from, to, found + Len(from))
ReplaceAllOf(s, from, to) == IF from = <<>> THEN s ELSE ReplaceFrom(s, from, to, 1)

ReplaceFirstOf(s, from, to) ==
  LET found == FindFrom(s, from, 1) IN
  IF found = 0 THEN s ELSE Sub(s, 1, found - 1) \o to \o Sub(s, found + Len(from), Len(s))

\* split_whitespace(): "." stands for a blank.
RECURSIVE TokensFrom(_, _)
TokensFrom(s, i) ==
  LET solid == {k \in i..Len(s) : s[k] # "."} IN
  IF solid = {} THEN <<>>
  ELSE LET blanks == {k \in Min(solid)..Len(s) : s[k] = "."} IN
       IF blanks = {} THEN <<Sub(s, Min(solid), Len(s))>>
       ELSE <<Sub(s, Min(solid), Min(blanks) - 1)>> \o TokensFrom(s, Min(blanks))

Letters == {"a", "b", "."}
Marks   == Upto({"a", "."}, 2)

TakeApart ==
  /\ art = "letters" /\ made = <<>>
  /\ made' = <<[d \in Marks |->
                 [split |-> SplitString(given_text, d, FALSE), full |-> SplitString(given_text, d, TRUE),
                  all |-> [to \in Marks |-> ReplaceAllOf(given_text, d, to)],
                  first |-> [to \in Marks |-> ReplaceFirstOf(given_text, d, to)]]]>>
  /\ UNCHANGED <<art, given_text, conversion>>

\* What is split is joined again, its pieces are free of the delimiter, replacing
\* is splitting and joining with something else, and blanks split like delimiters
\* of which the empty pieces are skipped.
LettersInv ==
  art = "letters" /\ made # <<>> =>
    /\ \A d \in Marks :
         LET r == made[1][d] IN
         /\ JoinStrings(r.split, d) = given_text
         /\ d # <<>> => \A p \in Range(r.split) : FindFrom(p, d, 1) = 0
         /\ \A to \in Marks :
              /\ d # <<>> => r.all[to] = JoinStrings(r.split, to)
              /\ Len(r.split) = 2 \/ Len(d) = 0 \/ Len(r.split) = 1 =>
                   (d # <<>> => r.first[to] = r.all[to])
    /\ TokensFrom(given_text, 1) = made[1][<<".">>].full

-----------------------------------------------------------------------------
(* Base64 with bytes of four bits and eight digits, of which the last two are *)
(* spelled otherwise in URLs; hexadecimal with two digits of two bits.        *)

Pad == "="
Digits64 == <<"0", "1", "2", "3", "4", "5", "+", "/">>
Value64(ch) == IF ch \in Range(Digits64) THEN (CHOOSE i \in DOMAIN Digits64 : Digits64[i] = ch) - 1
               ELSE -1

\* A group of three bytes, or what is left.
Group64(g) ==
  LET byte(i) == IF i <= Len(g) THEN g[i] ELSE 0
      n == 256 * byte(1) + 16 * byte(2) + byte(3) IN
  [i \in 1..4 |-> IF i <= Len(g) + 1 THEN Digits64[((n \div 8^(4 - i)) % 8) + 1] ELSE Pad]

RECURSIVE Encode64(_)
Encode64(bytes) ==
  IF bytes = <<>> THEN <<>>
  ELSE Group64(Sub(bytes, 1, Min({3, Len(bytes)}))) \o Encode64(Sub(bytes, 4, Len(bytes)))

Pads(text) == {i \in DOMAIN text : \A k \in i..Len(text) : text[k] = Pad}

\* decode()'s loop: three bits in, four out.
Bits64(text) ==
  FoldLeft(LAMBDA st, ch :
             LET buf == st.buf * 8 + Value64(ch)  n == st.n + 3 IN
             CASE ~st.ok \/ Value64(ch) < 0 -> [st EXCEPT !.ok = FALSE]
               [] n < 4 -> [st EXCEPT !.buf = buf % 2^12, !.n = n]
               [] OTHER -> [ok |-> TRUE, buf |-> buf % 2^12, n |-> n - 4,
                            out |-> Append(st.out, (buf \div 2^(n - 4)) % 16)],
           [ok |-> TRUE, buf |-> 0, n |-> 0, out |-> <<>>],
           Sub(text, 1, Len(text) - Cardinality(Pads(text))))

\* Mutant: the bits left over may be anything.
Decode64Loose(text) ==
  [ok |-> Cardinality(Pads(text)) <= 2 /\ Len(text) % 4 = 0 /\ Bits64(text).ok,
   out |-> Bits64(text).out]

Decode64(text) ==
  LET bits == Bits64(text) IN
  [ok |-> /\ Cardinality(Pads(text)) <= 2 /\ Len(text) % 4 = 0
          /\ bits.ok /\ bits.buf % 2^bits.n = 0,
   out |-> bits.out]

EncodeUrl64(bytes, padded) ==
  LET spelled == [i \in DOMAIN Encode64(bytes) |->
                    CASE Encode64(bytes)[i] = "+" -> "-" [] Encode64(bytes)[i] = "/" -> "_"
                      [] OTHER -> Encode64(bytes)[i]]
  IN IF padded THEN spelled ELSE SelectSeq(spelled, LAMBDA ch : ch # Pad)

DecodeUrl64(text) ==
  LET norm == [i \in DOMAIN text |-> CASE text[i] = "-" -> "+" [] text[i] = "_" -> "/"
                                       [] OTHER -> text[i]]
      rem == Len(text) % 4 IN
  IF rem = 1 THEN [ok |-> FALSE, out |-> <<>>]
  ELSE Decode64(norm \o [i \in 1..(IF rem = 0 THEN 0 ELSE 4 - rem) |-> Pad])

\* Hexadecimal has two alphabets, and reads both.
Large == <<"0", "1", "C", "D">>
Small == <<"0", "1", "c", "d">>
HexOf(bytes, alphabet) ==
  FlattenSeq([i \in DOMAIN bytes |-> <<alphabet[(bytes[i] \div 4) + 1], alphabet[(bytes[i] % 4) + 1]>>])
HexValue(ch) == (CHOOSE i \in 1..4 : ch \in {Large[i], Small[i]}) - 1
HexRead(text) ==
  [i \in 1..Len(text) \div 2 |-> HexValue(text[2 * i - 1]) * 4 + HexValue(text[2 * i])]

EncodeBytes ==
  /\ art = "digits" /\ made = <<>>
  /\ made' = <<IF given_text.bytes
                 THEN LET b == given_text.text IN
                      [code |-> Encode64(b), url |-> EncodeUrl64(b, FALSE),
                       padded |-> EncodeUrl64(b, TRUE), hex |-> HexOf(b, Large),
                       small |-> HexOf(b, Small)]
                 ELSE Decode64(given_text.text)>>
  /\ UNCHANGED <<art, given_text, conversion>>

\* Every encoding is read again as what it was, in each of its forms, and nothing
\* is accepted as Base64 that encoding would have spelled otherwise.
DigitsInv ==
  art = "digits" /\ made # <<>> =>
    LET r == made[1]  t == given_text.text IN
    IF given_text.bytes
      THEN /\ Decode64(r.code).ok /\ Decode64(r.code).out = t
           /\ \A form \in {r.url, r.padded} : DecodeUrl64(form).ok /\ DecodeUrl64(form).out = t
           /\ HexRead(r.hex) = t /\ HexRead(r.small) = t
      ELSE r.ok => Encode64(r.out) = t

\* URLs.  A byte has two digits of two bits; the bytes 0 to 3 are the digits'
\* own signs, 8 is another that may stand, 9 to 11 may not.
Percent == 4
PlusSign == 5
BlankSign == 6
MayStand(ch) == ch \in {0, 1, 2, 3, 8}
EncodeUrl(bytes) ==
  FlattenSeq([i \in DOMAIN bytes |->
                IF bytes[i] = BlankSign THEN <<PlusSign>>
                ELSE IF MayStand(bytes[i]) THEN <<bytes[i]>>
                ELSE <<Percent, bytes[i] \div 4, bytes[i] % 4>>])

RECURSIVE DecodeUrl(_, _)
DecodeUrl(t, i) ==
  IF i > Len(t) THEN <<>>
  ELSE IF t[i] = PlusSign THEN <<BlankSign>> \o DecodeUrl(t, i + 1)
  ELSE IF t[i] = Percent /\ i + 2 <= Len(t) /\ t[i + 1] \in 0..3 /\ t[i + 2] \in 0..3
    THEN <<t[i + 1] * 4 + t[i + 2]>> \o DecodeUrl(t, i + 3)
  ELSE <<t[i]>> \o DecodeUrl(t, i + 1)

EncodeForUrl ==
  /\ art = "url" /\ made = <<>>
  /\ made' = <<EncodeUrl(given_text)>>
  /\ UNCHANGED <<art, given_text, conversion>>

\* What is encoded for a URL has only signs that may stand there, and is read again.
UrlInv ==
  art = "url" /\ made # <<>> =>
    /\ DecodeUrl(made[1], 1) = given_text
    /\ \A i \in DOMAIN made[1] : MayStand(made[1][i]) \/ made[1][i] \in {Percent, PlusSign}

-----------------------------------------------------------------------------
(* UTF-8, with bytes of five bits: 0xxxx, 10xxx for a continuation, 110xx,    *)
(* 1110x and 11110 for what begins two, three and four bytes.                 *)

LastCode == 300
IsSurrogate(c) == c \in 100..103
LeadOf(b) == CASE b < 16 -> 1 [] b \in 24..27 -> 2 [] b \in 28..29 -> 3 [] b = 30 -> 4 [] OTHER -> 0
LeadBits(b) == CASE b < 16 -> b [] b \in 24..27 -> b - 24 [] b \in 28..29 -> b - 28 [] OTHER -> 0
Shortest == <<0, 16, 32, 128>>

CodeAt(s, i, n) ==
  FoldLeft(LAMBDA c, b : c * 8 + (b - 16), LeadBits(s[i]), Sub(s, i + 1, i + n - 1))
IsSpelled(s, i, n) ==
  n > 0 /\ i + n - 1 <= Len(s) /\ \A k \in i + 1..i + n - 1 : s[k] \in 16..23

\* Mutant: a code may be spelled longer than it needs.
DecodeOverlong(s, i) ==
  LET n == LeadOf(s[i]) IN
  IF ~IsSpelled(s, i, n) THEN 0
  ELSE IF CodeAt(s, i, n) > LastCode \/ IsSurrogate(CodeAt(s, i, n)) THEN 0 ELSE n

\* utf8_detail::decode(): how many bytes the character at i has, 0 if it is none.
DecodeUtf8(s, i) ==
  LET n == LeadOf(s[i])  code == CodeAt(s, i, n) IN
  IF ~IsSpelled(s, i, n) THEN 0
  ELSE IF code < Shortest[n] \/ code > LastCode \/ IsSurrogate(code) THEN 0 ELSE n

StepUtf8(s, i) == Max({1, DecodeUtf8(s, i)})

RECURSIVE ValidFrom(_, _)
ValidFrom(s, i) == i > Len(s) \/ (DecodeUtf8(s, i) # 0 /\ ValidFrom(s, i + DecodeUtf8(s, i)))

\* Where the characters from i on begin, and the end.
RECURSIVE Beginnings(_, _)
Beginnings(s, i) == IF i > Len(s) THEN <<i>> ELSE <<i>> \o Beginnings(s, i + StepUtf8(s, i))
LengthUtf8(s) == Len(Beginnings(s, 1)) - 1
OffsetUtf8(s, index) ==       \* 0 for npos
  IF index <= LengthUtf8(s) THEN Beginnings(s, 1)[index + 1] ELSE 0
SubstrUtf8(s, index, count) ==
  LET begin == OffsetUtf8(s, index) IN
  IF begin = 0 THEN <<>>
  ELSE Sub(s, begin, Beginnings(s, begin)[Min({count, Len(Beginnings(s, begin)) - 1}) + 1] - 1)
TailUtf8(s, max) ==
  IF LengthUtf8(s) <= max THEN s ELSE SubstrUtf8(s, LengthUtf8(s) - max, LengthUtf8(s))
TruncateBytes(s, max) ==
  IF Len(s) <= max THEN s
  ELSE Sub(s, 1, Max({b \in Range(Beginnings(s, 1)) : b <= max + 1}) - 1)

CutUtf8 ==
  /\ art = "utf8" /\ made = <<>>
  /\ made' = <<[valid |-> ValidFrom(given_text, 1),
                head |-> [n \in 0..MaxBytes |-> SubstrUtf8(given_text, 0, n)],
                rest |-> [n \in 0..MaxBytes |-> SubstrUtf8(given_text, n, MaxBytes)],
                tail |-> [n \in 0..MaxBytes |-> TailUtf8(given_text, n)],
                short |-> [n \in 0..MaxBytes |-> TruncateBytes(given_text, n)]]>>
  /\ UNCHANGED <<art, given_text, conversion>>

\* The one spelling of a code.
SpellUtf8(c) ==
  CASE c < 16 -> <<c>>
    [] c \in 16..31 -> <<24 + (c \div 8), 16 + (c % 8)>>
    [] c \in 32..127 -> <<28 + (c \div 64), 16 + ((c \div 8) % 8), 16 + (c % 8)>>
    [] OTHER -> <<30, 16 + (c \div 64), 16 + ((c \div 8) % 8), 16 + (c % 8)>>
Spellings == {SpellUtf8(c) : c \in {x \in 0..LastCode : ~IsSurrogate(x)}}
RECURSIVE SpelledFrom(_, _)
SpelledFrom(s, i) ==
  i > Len(s) \/ \E w \in {x \in Spellings : StartsAt(s, i, x)} : SpelledFrom(s, i + Len(w))

\* What is valid is a sequence of shortest spellings; head and rest make the whole,
\* no cut falls into a character or is longer than asked for, and a part of what is
\* valid is valid.
Utf8Inv ==
  art = "utf8" /\ made # <<>> =>
    LET r == made[1] IN
    /\ r.valid = SpelledFrom(given_text, 1)
    /\ \A n \in 0..MaxBytes :
         /\ r.head[n] \o r.rest[n] = given_text
         /\ LengthUtf8(r.head[n]) <= n /\ LengthUtf8(r.tail[n]) = Min({n, LengthUtf8(given_text)})
         /\ Len(r.short[n]) <= n
         /\ r.valid => \A part \in {r.head[n], r.rest[n], r.tail[n], r.short[n]} : ValidFrom(part, 1)

-----------------------------------------------------------------------------
(* Clusters: what is seen as one character.  A sign is its class of           *)
(* Grapheme_Cluster_Break; "pict", "cons" and "link" are of no class of their  *)
(* own but pictographic, a consonant, and a linker (which extends); "bad" is a *)
(* byte that is none.                                                          *)

Signs == {"other", "CR", "LF", "control", "extend", "zwj", "ri", "prepend", "spacing",
          "L", "V", "T", "LV", "LVT", "pict", "cons", "link", "bad"}
IsControl(x) == x \in {"CR", "LF", "control"}
Extends(x)   == x \in {"extend", "link"}      \* GCB=Extend
InExtend(x)  == x \in {"extend", "zwj"}       \* InCB=Extend

\* What is remembered of a cluster.
Remember(m, x) ==
  [prev |-> x,
   linker |-> x = "link" \/ (InExtend(x) /\ m.linker),
   pict |-> CASE x = "pict" -> 1
              [] Extends(x) -> IF m.pict = 1 THEN 1 ELSE 0
              [] x = "zwj" -> IF m.pict = 1 THEN 2 ELSE 0
              [] OTHER -> 0,
   ri |-> IF x = "ri" THEN m.ri + 1 ELSE 0]
NothingSeen == [prev |-> "none", linker |-> FALSE, pict |-> 0, ri |-> 0]

\* Mutant: flags of three regional indicators and more.
JoinsRuns(m, x) ==
  LET p == m.prev IN
  \/ p = "CR" /\ x = "LF"
  \/ /\ ~IsControl(p) /\ ~IsControl(x)
     /\ \/ p = "L" /\ x \in {"L", "V", "LV", "LVT"}
        \/ p \in {"LV", "V"} /\ x \in {"V", "T"}
        \/ p \in {"LVT", "T"} /\ x = "T"
        \/ Extends(x) \/ x \in {"zwj", "spacing"} \/ p = "prepend"
        \/ m.linker /\ x = "cons"
        \/ m.pict = 2 /\ x = "pict"
        \/ p = "ri" /\ x = "ri"

\* is_grapheme_break() says no: x goes on with what is remembered.
Joins(m, x) ==
  LET p == m.prev IN
  \/ p = "CR" /\ x = "LF"
  \/ /\ ~IsControl(p) /\ ~IsControl(x)
     /\ \/ p = "L" /\ x \in {"L", "V", "LV", "LVT"}
        \/ p \in {"LV", "V"} /\ x \in {"V", "T"}
        \/ p \in {"LVT", "T"} /\ x = "T"
        \/ Extends(x) \/ x \in {"zwj", "spacing"} \/ p = "prepend"
        \/ m.linker /\ x = "cons"
        \/ m.pict = 2 /\ x = "pict"
        \/ p = "ri" /\ x = "ri" /\ m.ri % 2 = 1

\* grapheme_cluster_step(), to the end of the text: where clusters begin.
RECURSIVE ClustersFrom(_, _, _)
ClustersFrom(s, i, m) ==
  IF i > Len(s) THEN {}
  ELSE IF m.prev \notin {"none", "bad"} /\ s[i] # "bad" /\ Joins(m, s[i])
    THEN ClustersFrom(s, i + 1, Remember(m, s[i]))
  ELSE {i} \cup ClustersFrom(s, i + 1, Remember(NothingSeen, s[i]))

CutClusters ==
  /\ art = "clusters" /\ made = <<>>
  /\ made' = <<ClustersFrom(given_text, 1, NothingSeen)>>
  /\ UNCHANGED <<art, given_text, conversion>>

\* The rules of UAX 29 on the whole text before i, not on a cluster of it.
Before(s, i, led, between) ==     \* what leads, then any number of what is between, before i
  \E k \in 1..i - 1 : led[s[k]] /\ \A j \in k + 1..i - 1 : between[s[j]]
RunOf(s, i) == i - 1 - Max({0} \cup {k \in 1..i - 1 : s[k] # "ri"})
NoBreak(s, i) ==
  LET p == s[i - 1]  x == s[i]
      is(set) == [y \in Signs |-> y \in set] IN
  \/ p = "CR" /\ x = "LF"                                                \* GB3
  \/ /\ ~IsControl(p) /\ ~IsControl(x) /\ p # "bad" /\ x # "bad"         \* GB4, GB5
     /\ \/ p = "L" /\ x \in {"L", "V", "LV", "LVT"}                     \* GB6
        \/ p \in {"LV", "V"} /\ x \in {"V", "T"}                        \* GB7
        \/ p \in {"LVT", "T"} /\ x = "T"                               \* GB8
        \/ x \in {"extend", "link", "zwj", "spacing"} \/ p = "prepend"  \* GB9, 9a, 9b
        \/ x = "cons" /\ Before(s, i, is({"link"}), is({"extend", "zwj"}))        \* GB9c
        \/ /\ x = "pict" /\ p = "zwj"                                   \* GB11
           /\ Before(s, i - 1, is({"pict"}), is({"extend", "link"}))
        \/ p = "ri" /\ x = "ri" /\ RunOf(s, i) % 2 = 1                   \* GB12, GB13

\* Clusters begin where the rules of the whole text say, though the code looks at
\* the cluster in hand only; but GB9c does without the consonant before the linker.
ClustersInv ==
  art = "clusters" /\ made # <<>> =>
    \A i \in DOMAIN given_text : (i \in made[1]) = (i = 1 \/ ~NoBreak(given_text, i))

-----------------------------------------------------------------------------
(* Endpoints.  strtol() skips a blank and takes a sign; ports go up to 88.    *)

MaxPortNumber == 88
\* The number a text is, -1 if it is none or out of range.
PortOf(t) ==
  LET unsigned == IF t # <<>> /\ t[1] = "+" THEN Tail(t) ELSE t IN
  IF unsigned = <<>> \/ \E i \in DOMAIN unsigned : unsigned[i] # "8" THEN -1
  ELSE LET n == FoldLeft(LAMBDA v, ch : v * 10 + 8, 0, unsigned) IN
       IF n > MaxPortNumber THEN -1 ELSE n

AnyHost == <<"0">>     \* 0.0.0.0
Endpoint(ok, host, port) == [ok |-> ok, host |-> host, port |-> port]
Where(s, ch) == {i \in DOMAIN s : s[i] = ch}

\* Mutant: the first colon parts host and port.
ParsePlainFirst(s) ==
  IF Where(s, ":") = {}
    THEN IF PortOf(s) >= 0 THEN Endpoint(TRUE, <<>>, PortOf(s)) ELSE Endpoint(TRUE, s, 0)
  ELSE LET colon == Min(Where(s, ":"))
           host == Sub(s, 1, colon - 1)  port == Sub(s, colon + 1, Len(s)) IN
       CASE port = <<>> -> Endpoint(host # <<>>, host, 0)
         [] port # <<>> /\ PortOf(port) < 0 -> Endpoint(FALSE, host, 0)
         [] OTHER -> Endpoint(TRUE, IF host = <<>> THEN AnyHost ELSE host, PortOf(port))

ParsePlain(s) ==
  IF Where(s, ":") = {}
    THEN IF PortOf(s) >= 0 THEN Endpoint(TRUE, <<>>, PortOf(s)) ELSE Endpoint(TRUE, s, 0)
  ELSE LET colon == Max(Where(s, ":"))
           host == Sub(s, 1, colon - 1)  port == Sub(s, colon + 1, Len(s)) IN
       CASE port = <<>> -> Endpoint(host # <<>>, host, 0)
         [] port # <<>> /\ PortOf(port) < 0 -> Endpoint(FALSE, host, 0)
         [] OTHER -> Endpoint(TRUE, IF host = <<>> THEN AnyHost ELSE host, PortOf(port))

ParseBracketed(s) ==
  LET close == Min(Where(s, "]"))  host == Sub(s, 2, close - 1)
      port == Sub(s, close + 2, Len(s)) IN
  CASE Where(s, "]") = {} -> Endpoint(FALSE, <<>>, 0)
    [] Where(s, "]") # {} /\ host = <<>> -> Endpoint(FALSE, <<>>, 0)
    [] OTHER -> IF close = Len(s) THEN Endpoint(TRUE, host, 0)
                ELSE IF s[close + 1] # ":" THEN Endpoint(FALSE, host, 0)
                ELSE IF port = <<>> THEN Endpoint(TRUE, host, 0)
                ELSE Endpoint(PortOf(port) >= 0, host, Max({0, PortOf(port)}))

ParseEndpoint(s) ==
  IF s = <<>> THEN Endpoint(FALSE, <<>>, 0)
  ELSE IF s[1] = "[" THEN ParseBracketed(s) ELSE ParsePlain(s)

OrDefault(e) == IF ~e.ok THEN Endpoint(TRUE, AnyHost, 0)
                ELSE IF e.host = <<>> THEN [e EXCEPT !.host = AnyHost] ELSE e

FindEndpoint ==
  /\ art = "endpoint" /\ made = <<>>
  /\ made' = <<[parsed |-> ParseEndpoint(given_text), used |-> OrDefault(ParseEndpoint(given_text))]>>
  /\ UNCHANGED <<art, given_text, conversion>>

\* An endpoint is where its host, written in brackets with its port, says; one with
\* a colon that is not in brackets ends with its port, a host's own colons before.
EndpointInv ==
  art = "endpoint" /\ made # <<>> =>
    LET e == made[1].parsed  u == made[1].used
        spelled == <<"[">> \o u.host \o <<"]", ":">>
                   \o (CASE u.port = 0 -> <<>> [] u.port = 8 -> <<"8">> [] OTHER -> <<"8", "8">>) IN
    /\ u.host # <<>> /\ u.port \in {0, 8, 88}
    /\ "]" \notin Range(u.host) => ParseEndpoint(spelled) = u
    /\ e.ok /\ e.port > 0 => Last(given_text) = "8"
    /\ (/\ Len(given_text) > 1 /\ given_text[1] # "["
        /\ Sub(given_text, Len(given_text) - 1, Len(given_text)) = <<":", "8">>)
         => e.ok /\ e.port = 8
    /\ e.ok /\ given_text[1] # "[" /\ e.host \notin {<<>>, AnyHost} => StartsAt(given_text, 1, e.host)
    /\ e.ok /\ given_text[1] # "[" /\ Where(given_text, ":") # {} =>
         Cardinality(Where(e.host, ":")) = Cardinality(Where(given_text, ":")) - 1

\* IPv4: a text in parts, of which each is a number without a zero before it.
Parts4 == {<<>>, <<"0">>, <<"2">>, <<"0", "2">>, <<"2", "5", "5">>, <<"2", "5", "6">>, <<"h">>}
PartValue(p) ==
  CASE p = <<"0">> -> 0 [] p = <<"2">> -> 2 [] p = <<"2", "5", "5">> -> 255 [] OTHER -> -1
Ipv4(parts) == IF Len(parts) = 4 /\ \A i \in 1..4 : PartValue(parts[i]) >= 0
                 THEN [i \in 1..4 |-> PartValue(parts[i])] ELSE <<>>
Ipv4Text(ip) == [i \in DOMAIN ip |-> CHOOSE p \in Parts4 : PartValue(p) = ip[i]]

\* resolve_host() puts the IPv4 entries first, and resolve_ipv4_net() takes one.
Sorted4First(addrs) ==
  SelectSeq(addrs, LAMBDA e : ~e.v6) \o SelectSeq(addrs, LAMBDA e : e.v6)
ResolveIpv4(parts, addrs) ==
  IF Ipv4(parts) # <<>> THEN Ipv4(parts)
  ELSE LET four == SelectSeq(Sorted4First(addrs), LAMBDA e : ~e.v6) IN
       IF four = <<>> THEN <<>> ELSE Ipv4(four[1].ip)

Answers == Upto({[v6 |-> FALSE, ip |-> [i \in 1..4 |-> <<"2">>]], [v6 |-> TRUE, ip |-> << <<"h">> >>]}, 2)

Resolve ==
  /\ art = "ipv4" /\ made = <<>>
  /\ made' = <<ResolveIpv4(given_text.parts, given_text.answers)>>
  /\ UNCHANGED <<art, given_text, conversion>>

\* A literal is what it says, and no name server is believed about it; an address
\* of another kind is never taken for one of four bytes.
Ipv4Inv ==
  art = "ipv4" /\ made # <<>> =>
    /\ made[1] # <<>> => made[1] \in [1..4 -> {0, 2, 255}]
    /\ Ipv4(given_text.parts) # <<>> => Ipv4Text(made[1]) = given_text.parts
    /\ made[1] = <<>> => \A i \in DOMAIN given_text.answers : given_text.answers[i].v6

-----------------------------------------------------------------------------
(* Conversion.  iconv() turns a character into as many bytes as its number     *)
(* says, 0 is no character; it stops where the next does not fit.              *)

Illegal == 0
Room == Len(given_text) + Slack
Start16 == [read |-> 0, out |-> <<>>, size |-> 0, end |-> "none"]

Converted(n) == FlattenSeq([i \in 1..n |-> [k \in 1..given_text[i] |-> <<i, k>>]])

\* How far a call gets from where it is, in a buffer of the given size.
Gets(c, size) ==
  Max({n \in c.read..Len(given_text) :
         /\ \A i \in c.read + 1..n : given_text[i] # Illegal
         /\ Len(c.out) + Len(Converted(n)) - Len(Converted(c.read)) <= size})

\* Mutant: after E2BIG the conversion begins anew behind what was written.
IconvAgain ==
  /\ art = "charset" /\ conversion.end = "none"
  /\ LET size == IF conversion.size = 0 THEN Room ELSE conversion.size
         n == Gets([conversion EXCEPT !.read = 0], size) IN
     conversion' = [read |-> n, out |-> conversion.out \o Converted(n),
                    size |-> IF n < Len(given_text) /\ given_text[n + 1] # Illegal
                               THEN size * 2 ELSE size,
                    end |-> IF n = Len(given_text) THEN "ok"
                            ELSE IF given_text[n + 1] = Illegal THEN "invalid" ELSE "none"]
  /\ UNCHANGED <<art, given_text, made>>

\* A call of iconv(); if the buffer was too small it is doubled.
IconvCall ==
  /\ art = "charset" /\ conversion.end = "none"
  /\ LET size == IF conversion.size = 0 THEN Room ELSE conversion.size
         n == Gets(conversion, size) IN
     conversion' = [read |-> n,
                    out |-> conversion.out \o Sub(Converted(n), Len(Converted(conversion.read)) + 1,
                                                 Len(Converted(n))),
                    size |-> IF n < Len(given_text) /\ given_text[n + 1] # Illegal
                               THEN size * 2 ELSE size,
                    end |-> IF n = Len(given_text) THEN "ok"
                            ELSE IF given_text[n + 1] = Illegal THEN "invalid" ELSE "none"]
  /\ UNCHANGED <<art, given_text, made>>

\* All that is read is written, once and in order, in a buffer that has the room;
\* a conversion that ends well has read all, and one that fails met what is illegal.
CharsetInv ==
  art = "charset" =>
    /\ conversion.out = Converted(conversion.read)
    /\ conversion.size > 0 => Len(conversion.out) <= conversion.size
    /\ conversion.end = "ok" => conversion.read = Len(given_text)
    /\ conversion.end = "invalid" => given_text[conversion.read + 1] = Illegal

\* valid_utf16(): a high surrogate is followed by a low one.
RECURSIVE ValidUtf16(_)
ValidUtf16(units) ==
  CASE units = <<>> -> TRUE
    [] units # <<>> /\ Head(units) = "high" ->
         Len(units) > 1 /\ units[2] = "low" /\ ValidUtf16(Sub(units, 3, Len(units)))
    [] OTHER -> Head(units) # "low" /\ ValidUtf16(Tail(units))

Utf16Inv ==
  art = "utf16" /\ made # <<>> =>
    made[1] = \A i \in DOMAIN given_text :
                /\ given_text[i] = "high" => i < Len(given_text) /\ given_text[i + 1] = "low"
                /\ given_text[i] = "low" => i > 1 /\ given_text[i - 1] = "high"

CheckUtf16 ==
  /\ art = "utf16" /\ made = <<>>
  /\ made' = <<ValidUtf16(given_text)>>
  /\ UNCHANGED <<art, given_text, conversion>>

-----------------------------------------------------------------------------
SomeBytes == {1, 16, 20, 23, 24, 26, 28, 29, 30, 31}

StringsInit ==
  /\ made = <<>> /\ conversion = Start16
  /\ \/ art = "letters" /\ given_text \in Upto(Letters, MaxLetters)
     \/ /\ art = "digits"
        /\ \/ given_text \in [bytes: {TRUE}, text: Upto({0, 1, 6, 7, 9, 15}, MaxBytes)]
           \/ given_text \in [bytes: {FALSE}, text: Upto({"0", "1", "4", "+", "-", Pad}, MaxBytes)]
     \/ art = "url" /\ given_text \in Upto(0..11, 3)
     \/ art = "utf8" /\ given_text \in Upto(SomeBytes, MaxBytes)
     \/ /\ art = "clusters"
        /\ \/ given_text \in Upto(Signs, 3)
           \/ given_text \in Upto({"other", "CR", "extend", "zwj", "ri", "pict", "cons", "link", "bad"},
                                 MaxSigns)
     \/ art = "endpoint" /\ given_text \in Upto({"[", "]", ":", "h", "8", "+"}, MaxEndpoint)
     \/ art = "ipv4" /\ given_text \in [parts: UNION {[1..k -> Parts4] : k \in 3..4}, answers: Answers]
     \/ art = "charset" /\ given_text \in Upto(0..3, MaxUnits16)
     \/ art = "utf16" /\ given_text \in Upto({"high", "low", "other"}, MaxUnits16)

\* Where another tool is used.
StringsIdle ==
  art = "letters" /\ given_text = <<>> /\ made = <<>> /\ conversion = Start16

StringsNext ==
  \/ TakeApart \/ EncodeBytes \/ EncodeForUrl \/ CutUtf8 \/ CutClusters
  \/ FindEndpoint \/ Resolve \/ IconvCall \/ CheckUtf16
StringsSpec == StringsInit /\ [][StringsNext]_stringVars

StringsInv ==
  /\ LettersInv /\ DigitsInv /\ UrlInv /\ Utf8Inv /\ ClustersInv /\ EndpointInv
  /\ Ipv4Inv /\ CharsetInv /\ Utf16Inv

=============================================================================
