------------------------------ MODULE Formats -------------------------------
(***************************************************************************)
(* Values written down and read back: tables as CSV (csv.cpp), JSON as     *)
(* protobuf messages without a schema (proto_buf.cpp) and as XML           *)
(* (serialization.cpp), bytes in base 32 (base32.cpp).                     *)
(*                                                                         *)
(* A value is written and then read, or something that nobody wrote is     *)
(* read.  Values are tuples that begin with their kind.  Sizes are scaled: *)
(* a group of a varint has 16 values (128 in the code), a number 6 bits    *)
(* (64), so that it takes at most two groups (ten) of which the last is    *)
(* cut, and a field's number is at most MaxField (2^29 - 1).               *)
(*                                                                         *)
(* The second part has the frames in which bytes travel on a stream.       *)
(***************************************************************************)
EXTENDS Integers, Sequences, SequencesExt, FiniteSetsExt

CONSTANTS
  MaxField,     \* the largest number of a field that is written
  MaxText,      \* bound on the CSV texts read
  MaxRaw        \* bound on the bytes read as a message, and in base 32

ASSUME FormatsAssumption == MaxField \in 1..7 /\ MaxText \in Nat /\ MaxRaw \in Nat

VARIABLES
  codec,     \* "csv", "proto", "xml", "base32"
  options,   \* CsvOptions, and use_crlf
  origin,    \* <<"value", what is written>> or <<"raw", what is read>>
  written,   \* <<>>, or <<what was written>>
  readBack   \* <<>>, or <<what was read>>; "refused" if it could not be

formatVars == <<codec, options, origin, written, readBack>>

Refused == <<"refused">>

-----------------------------------------------------------------------------
(* CSV.  Characters: "," and the quote, CR, LF, the BOM, any other.        *)

Chars    == {",", "quote", "cr", "lf", "bom", "x"}
LineEnds == {"cr", "lf"}

Special(o) == {","} \cup LineEnds \cup (IF o.quoting THEN {"quote"} ELSE {})

CsvField(f, o) ==
  IF o.quoting /\ \E i \in DOMAIN f : f[i] \in Special(o)
    THEN <<"quote">>
         \o FlattenSeq([i \in DOMAIN f |-> IF f[i] = "quote" THEN <<"quote", "quote">> ELSE <<f[i]>>])
         \o <<"quote">>
    ELSE f

CsvRow(row, o) ==
  FlattenSeq([i \in DOMAIN row |-> (IF i > 1 THEN <<",">> ELSE <<>>) \o CsvField(row[i], o)])

CsvText(rows, o) ==
  FlattenSeq([i \in DOMAIN rows |->
                CsvRow(rows[i], o) \o (IF o.crlf THEN <<"cr", "lf">> ELSE <<"lf">>)])

\* The parser's state.  skip: the turn before took this character too.
CsvStart == [quoted |-> FALSE, closed |-> FALSE, started |-> FALSE, skip |-> FALSE,
             field |-> <<>>, row |-> <<>>, table |-> <<>>]

PutChar(s, c) == [s EXCEPT !.field = Append(@, c)]

\* Mutant: the next field goes on as if something of it had been read.
EndFieldStarted(s) == [s EXCEPT !.row = Append(@, s.field), !.field = <<>>]

EndField(s) ==
  [s EXCEPT !.row = Append(@, s.field), !.field = <<>>, !.started = FALSE, !.closed = FALSE]

Blank(s) == ~s.started /\ s.field = <<>> /\ s.row = <<>>

EndRow(s, o) ==
  LET row == IF Blank(s) THEN <<>> ELSE Append(s.row, s.field)
  IN [s EXCEPT !.table = IF o.skip_blank /\ Blank(s) THEN @ ELSE Append(@, row),
               !.row = <<>>, !.field = <<>>, !.started = FALSE, !.closed = FALSE]

\* A turn of the loop at character i.
CsvTurn(text, o, s, i) ==
  LET c    == text[i]
      next == IF i < Len(text) THEN text[i + 1] ELSE "end"
  IN CASE s.skip -> [s EXCEPT !.skip = FALSE]
       [] s.quoted /\ c = "quote" ->
            IF next = "quote" THEN [PutChar(s, c) EXCEPT !.skip = TRUE]
                              ELSE [s EXCEPT !.quoted = FALSE, !.closed = TRUE]
       [] s.quoted -> PutChar(s, c)
       [] ~s.quoted /\ c = "," -> EndField(s)
       [] ~s.quoted /\ c \in LineEnds -> [EndRow(s, o) EXCEPT !.skip = (c = "cr" /\ next = "lf")]
       [] s.closed -> [PutChar(s, c) EXCEPT !.started = TRUE]
       [] c = "quote" /\ o.quoting /\ s.field = <<>> /\ ~s.started ->
            [s EXCEPT !.quoted = TRUE, !.started = TRUE]
       [] OTHER -> [PutChar(s, c) EXCEPT !.started = TRUE]

ReadCsv(text, o) ==
  LET body == IF text # <<>> /\ text[1] = "bom" THEN Tail(text) ELSE text
      s    == FoldLeft(LAMBDA t, i : CsvTurn(body, o, t, i), CsvStart, [i \in DOMAIN body |-> i])
  IN IF s.quoted THEN Refused
     ELSE <<"table", IF Blank(s) THEN s.table ELSE Append(s.table, Append(s.row, s.field))>>

-----------------------------------------------------------------------------
(* Messages.  A value is <<"null">>, <<"bool", b>>, <<"num", n>>,          *)
(* <<"float", f>>, <<"text", bytes>>, <<"list", values>>, or               *)
(* <<"object", f>> where f maps the numbers of fields to values.           *)

GroupSize == 16
Word      == 64      \* so many numbers; the upper half are negative ones

Varint(n) == IF n < GroupSize THEN <<n>> ELSE <<GroupSize + (n % GroupSize), n \div GroupSize>>

WireTag(field, type) == Varint((8 * field) + type)

\* put_fixed64(): eight bytes in the code.
Fixed(f) == <<f, 0>>

Counted8(bytes) == Varint(Len(bytes)) \o bytes

RECURSIVE WriteValue(_, _)
Message(f) ==
  FlattenSeq([i \in DOMAIN SetToSortSeq(DOMAIN f, <) |->
                LET k == SetToSortSeq(DOMAIN f, <)[i] IN WriteValue(k, f[k])])

\* A list is written as its elements, each with the field's number.
WriteValue(k, v) ==
  CASE v[1] = "null"   -> WireTag(k, 2) \o <<0>>
    [] v[1] = "bool"   -> WireTag(k, 0) \o Varint(IF v[2] THEN 1 ELSE 0)
    [] v[1] = "num"    -> WireTag(k, 0) \o Varint(v[2] % Word)
    [] v[1] = "float"  -> WireTag(k, 1) \o Fixed(v[2])
    [] v[1] = "text"   -> WireTag(k, 2) \o Counted8(v[2])
    [] v[1] = "list"   -> FlattenSeq([i \in DOMAIN v[2] |-> WriteValue(k, v[2][i])])
    [] v[1] = "object" -> WireTag(k, 2) \o Counted8(Message(v[2]))

RECURSIVE Writable(_)
Writable(v) ==
  CASE v[1] = "object" -> \A k \in DOMAIN v[2] : k \in 1..MaxField /\ Writable(v[2][k])
    [] v[1] = "list"   -> \A i \in DOMAIN v[2] : Writable(v[2][i])
    [] OTHER           -> TRUE

\* json_to_proto(): the fields are numbered, also in a message within.
JsonProto(v) ==
  IF v[1] = "object" /\ Writable(v) THEN <<"bytes", Message(v[2])>> ELSE Refused

\* read_varint() at place p: <<number, the place behind>>; the group that ends a
\* number of the full length is cut.
ReadVarint(b, p) ==
  LET last == {k \in {0, 1} : p + k <= Len(b) /\ b[p + k] < GroupSize} IN
  CASE last = {}        -> Refused
    [] Min(last \cup {2}) = 0 -> <<b[p], p + 1>>
    [] OTHER            -> <<(b[p] % GroupSize) + GroupSize * (b[p + 1] % (Word \div GroupSize)), p + 2>>

ReadFixed(b, p) == IF p + 1 > Len(b) THEN Refused ELSE <<b[p], p + 2>>

\* Mutant: a field that comes again replaces what there was.
LastOfField(f, k, v) == [j \in DOMAIN f \cup {k} |-> IF j = k THEN v ELSE f[j]]

\* append_to_field().
AppendToField(f, k, v) ==
  LET old == f[k] IN
  [j \in DOMAIN f \cup {k} |->
     CASE j # k            -> f[j]
       [] k \notin DOMAIN f -> v
       [] old[1] = "list"  -> <<"list", Append(old[2], v)>>
       [] OTHER            -> <<"list", <<old, v>>>>]

\* read_message() from place p on, with the fields read before; the bytes that a
\* field holds are tried as a message first.
RECURSIVE ReadFields(_, _, _)
ReadMessage(b) == ReadFields(b, 1, [k \in {} |-> <<"null">>])
Probed(payload) ==
  LET trial == ReadMessage(payload) IN
  IF payload = <<>> THEN <<"null">> ELSE IF trial # Refused THEN trial ELSE <<"text", payload>>

ReadFields(b, p, f) ==
  LET tag   == ReadVarint(b, p)
      type  == tag[1] % 8
      field == tag[1] \div 8
      num   == ReadVarint(b, tag[2])
      fixed == ReadFixed(b, tag[2])
      Then(v, q) == ReadFields(b, q, AppendToField(f, field, v))
  IN IF p > Len(b) THEN <<"object", f>>
     ELSE IF tag = Refused THEN Refused
     ELSE IF field = 0 \/ type \notin {0, 1, 2, 5} THEN Refused
     ELSE IF type = 0 THEN IF num = Refused THEN Refused ELSE Then(<<"num", num[1]>>, num[2])
     ELSE IF type = 1 THEN IF fixed = Refused THEN Refused
                           ELSE Then(<<"float", fixed[1]>>, fixed[2])
     ELSE IF type = 5 THEN IF tag[2] > Len(b) THEN Refused   \* half as long
                           ELSE Then(<<"float", b[tag[2]]>>, tag[2] + 1)
     ELSE IF num = Refused THEN Refused
     ELSE IF num[1] > Len(b) - num[2] + 1 THEN Refused
     ELSE Then(Probed(SubSeq(b, num[2], num[2] + num[1] - 1)), num[2] + num[1])

\* unpack_packed(): numbers one behind the other, after those read before.
RECURSIVE Unpacked(_, _, _)
Unpacked(b, p, before) ==
  LET num == ReadVarint(b, p) IN
  IF p > Len(b) THEN <<"list", before>>
  ELSE IF num = Refused THEN Refused
  ELSE Unpacked(b, num[2], Append(before, <<"num", num[1]>>))

UnfoldPacked(v, k) ==
  IF k \notin DOMAIN v[2] THEN v
  ELSE IF v[2][k][1] # "text" THEN Refused
  ELSE LET list == Unpacked(v[2][k][2], 1, <<>>) IN
       IF list = Refused THEN Refused ELSE <<"object", [v[2] EXCEPT ![k] = list]>>

-----------------------------------------------------------------------------
(* XML.  An element is <<its type attribute, its text, its children>>, a   *)
(* child a pair of its name and itself; names here are the fields' numbers *)
(* and "item" is 0.  Of a text only its shape counts: a digit is a number  *)
(* below Word, and other numbers stand for what dump() has beside digits.  *)

Dump(v) ==
  CASE v[1] = "bool"  -> IF v[2] THEN <<101>> ELSE <<100>>
    [] v[1] = "num"   -> IF v[2] < 0 THEN <<102, -v[2]>> ELSE <<v[2]>>
    [] v[1] = "float" -> <<103, v[2]>>

RECURSIVE Element(_)
Element(v) ==
  CASE v[1] = "object" ->
         LET keys == SetToSortSeq(DOMAIN v[2], <)
         IN <<"object", <<>>, [i \in DOMAIN keys |-> <<keys[i], Element(v[2][keys[i]])>>]>>
    [] v[1] = "list"   -> <<"array", <<>>, [i \in DOMAIN v[2] |-> <<0, Element(v[2][i])>>]>>
    [] v[1] = "text"   -> <<"string", v[2], <<>>>>
    [] v[1] = "null"   -> <<"null", <<>>, <<>>>>
    [] OTHER           -> <<"", Dump(v), <<>>>>

\* What a text without a type looks like; <<104>> is "null".
Guess(t) ==
  CASE t \in {<<100>>, <<101>>}       -> <<"bool", t = <<101>>>>
    [] t = <<104>>                    -> <<"null">>
    [] Len(t) = 1 /\ t[1] < Word      -> <<"num", t[1]>>
    [] Len(t) = 2 /\ t[1] = 102       -> <<"num", -t[2]>>
    [] Len(t) = 2 /\ t[1] = 103       -> <<"float", t[2]>>
    [] OTHER                          -> <<"text", t>>

\* Mutant: what is inferred does not depend on what the writer noted.
ScalarGuessed(e) == Guess(e[2])

\* scalar_to_json().
ScalarOf(e) ==
  CASE e[1] = "string" -> <<"text", e[2]>>
    [] e[1] = "null"   -> <<"null">>
    [] OTHER           -> Guess(e[2])

\* json_from_element(): of children of the same name the last one stays.
RECURSIVE JsonOf(_)
JsonOf(e) ==
  LET names    == {e[3][i][1] : i \in DOMAIN e[3]}
      Named(n) == e[3][Max({i \in DOMAIN e[3] : e[3][i][1] = n})][2]
  IN CASE e[1] = "array" -> <<"list", [i \in DOMAIN e[3] |-> JsonOf(e[3][i][2])]>>
       [] e[1] = "object" \/ (e[1] # "array" /\ e[3] # <<>>) ->
            <<"object", [n \in names |-> JsonOf(Named(n))]>>
       [] OTHER -> ScalarOf(e)

-----------------------------------------------------------------------------
(* Base 32.  A digit is its value, -1 the padding, -2 another character.   *)

BitsHigh(n, width) == [i \in 1..width |-> (n \div 2^(width - i)) % 2]

NumberOf(bits) == FoldLeft(LAMBDA v, d : (2 * v) + d, 0, bits)

\* The whole pieces of a sequence.
Pieces(s, size) == [i \in 1..(Len(s) \div size) |-> SubSeq(s, (i - 1) * size + 1, i * size)]

\* Mutant: what is left of the last byte is not written.
Digits5Whole(bits) == [i \in DOMAIN Pieces(bits, 5) |-> NumberOf(Pieces(bits, 5)[i])]

Digits5(bits) ==
  LET full == bits \o [i \in 1..((5 - (Len(bits) % 5)) % 5) |-> 0]
  IN [i \in DOMAIN Pieces(full, 5) |-> NumberOf(Pieces(full, 5)[i])]

EncodeBase32(bytes) ==
  LET digits == Digits5(FlattenSeq([i \in DOMAIN bytes |-> BitsHigh(bytes[i], 8)]))
  IN digits \o [i \in 1..((8 - (Len(digits) % 8)) % 8) |-> -1]

\* The counter of paddings starts again when the lenient reader meets a digit.
DecodeBase32(text, strict) ==
  LET digits  == SelectSeq(text, LAMBDA d : d >= 0)
      bits    == FlattenSeq([i \in DOMAIN digits |-> BitsHigh(digits[i], 5)])
      left    == SubSeq(bits, (Len(bits) - (Len(bits) % 8)) + 1, Len(bits))
      TooMany == \E i, j \in DOMAIN text :
                    /\ i <= j /\ \A k \in i..j : text[k] < 0
                    /\ Cardinality({k \in i..j : text[k] = -1}) > 6
  IN IF \/ TooMany
        \/ strict /\ \E i \in DOMAIN text :
             \/ text[i] = -2
             \/ text[i] >= 0 /\ \E j \in 1..(i - 1) : text[j] = -1
        \/ strict /\ \E i \in DOMAIN left : left[i] = 1
       THEN Refused
       ELSE <<"bytes", [i \in DOMAIN Pieces(bits, 8) |-> NumberOf(Pieces(bits, 8)[i])]>>

-----------------------------------------------------------------------------
(* What is written and read.                                               *)

NoOptions == [quoting |-> TRUE, skip_blank |-> TRUE, crlf |-> FALSE]

Fields(n) == BoundedSeq(Chars, n)

Tables ==
  {<<>>, <<(<<>>)>>} \cup {<<(<<f>>)>> : f \in Fields(2)}
  \cup {<<(<<f, g>>)>> : f \in Fields(1), g \in Fields(1)}
  \cup {<<(<<f>>), (<<g>>)>> : f \in Fields(1), g \in Fields(1)}
  \cup {<<(<<f>>), (<<>>), (<<f, f>>)>> : f \in Fields(1)}

CsvTexts == LET t == BoundedSeq(Chars \ {"bom"}, MaxText) IN t \cup {<<"bom">> \o u : u \in t}

\* Texts that look like numbers, words of JSON, and messages.
Scalars ==
  {<<"null">>, <<"bool", TRUE>>, <<"bool", FALSE>>}
  \cup {<<"num", n>> : n \in {-1, 0, 15, 16, 33}} \cup {<<"float", f>> : f \in {1, 9}}
  \cup {<<"text", t>> : t \in {<<>>, <<7>>, <<8>>, <<104>>, <<103, 1>>, <<8, 1>>, <<10, 0>>,
                               <<10, 2, 8, 1>>, <<8, 1, 8>>}}

Few == {<<"num", 33>>, <<"text", <<7>>>>, <<"text", <<8, 1>>>>, <<"null">>}

Lists   == {<<"list", l>> : l \in BoundedSeq(Few, 2)}
Nested  == {<<"object", [k \in {1} |-> v]>> : v \in Few \cup {<<"list", <<>>>>}}
Objects ==
  {<<"object", [k \in {} |-> <<"null">>]>>}
  \cup {<<"object", [j \in {k} |-> v]>> : k \in 1..(MaxField + 1), v \in Scalars}
  \cup {<<"object", [k \in {1, 2} |-> IF k = 1 THEN v ELSE w]>> :
          v \in Few \cup Lists, w \in Few \cup Nested}
  \cup {<<"object", [k \in {3} |-> <<"list", <<v, w>>>>]>> :
          v \in Nested \cup Lists, w \in Nested \cup Few}

RawBytes == BoundedSeq({0, 1, 8, 10, 12, 24}, MaxRaw)

\* Elements by hand: names that come twice, and no types.
Leaves   == {<<t, x, <<>>>> : t \in {"", "string", "null"}, x \in {<<>>, <<7>>, <<104>>}}
ByHand   == Leaves \cup {<<t, <<>>, <<(<<k, e>>), (<<1, f>>)>>>> :
                           t \in {"", "object", "array"}, k \in {1, 2}, e \in Leaves, f \in Leaves}

Origins(c) ==
  CASE c = "csv"    -> {<<"value", t>> : t \in Tables} \cup {<<"raw", t>> : t \in CsvTexts}
    [] c = "proto"  -> {<<"value", v>> : v \in Objects} \cup {<<"raw", b>> : b \in RawBytes}
                       \cup {<<"packed", l>> : l \in BoundedSeq({1, 8, 33}, 3)}
    [] c = "xml"    -> {<<"value", v>> : v \in Objects \cup Lists \cup Scalars}
                       \cup {<<"raw", e>> : e \in ByHand}
    [] c = "base32" -> {<<"value", b>> : b \in BoundedSeq({0, 129, 255}, MaxRaw)}
                       \cup {<<"raw", t>> : t \in BoundedSeq({0, 1, 31, -1, -2}, MaxRaw)}

\* A writer elsewhere writes the numbers of a list one behind the other.
PackedField(l) == WireTag(1, 2) \o Counted8(FlattenSeq([i \in DOMAIN l |-> Varint(l[i])]))

FormatInit ==
  /\ codec \in {"csv", "proto", "xml", "base32"}
  /\ options \in (IF codec = "csv" THEN [quoting : BOOLEAN, skip_blank : BOOLEAN, crlf : BOOLEAN]
                                   ELSE {NoOptions})
  /\ origin \in Origins(codec)
  /\ origin[1] = "raw" => ~options.crlf
  /\ written = (CASE origin[1] = "raw"    -> <<origin[2]>>
              [] origin[1] = "packed" -> <<PackedField(origin[2])>>
              [] origin[1] = "value"  -> <<>>)
  /\ readBack = <<>>

\* The module is part of a composition that does not use it.
FormatIdle ==
  /\ codec = "proto" /\ options = NoOptions /\ origin = <<"packed", <<>>>>
  /\ written = <<>> /\ readBack = <<>>

Written(w) ==
  /\ written = <<>> /\ readBack = <<>> /\ written' = w
  /\ UNCHANGED <<codec, options, origin, readBack>>

ReadAs(v) ==
  /\ written # <<>> /\ readBack = <<>> /\ readBack' = v
  /\ UNCHANGED <<codec, options, origin, written>>

CsvSerialize == codec = "csv" /\ Written(<<CsvText(origin[2], options)>>)
CsvParse     == codec = "csv" /\ ReadAs(ReadCsv(written[1], options))

\* json_to_proto() throws where a key is no number of a field.
JsonToProto ==
  /\ codec = "proto" /\ origin[1] = "value" /\ written = <<>> /\ readBack = <<>>
  /\ LET b == JsonProto(origin[2]) IN
     IF b = Refused THEN readBack' = Refused /\ UNCHANGED written
                    ELSE written' = <<b[2]>> /\ UNCHANGED readBack
  /\ UNCHANGED <<codec, options, origin>>

ProtoToJson == codec = "proto" /\ ReadAs(ReadMessage(written[1]))

UnfoldField ==
  /\ codec = "proto" /\ origin[1] = "packed" /\ readBack # <<>> /\ readBack # Refused
  /\ readBack[2][1][1] # "list"
  /\ readBack' = UnfoldPacked(readBack, 1)
  /\ UNCHANGED <<codec, options, origin, written>>

JsonToXml == codec = "xml" /\ Written(<<Element(origin[2])>>)
XmlToJson == codec = "xml" /\ ReadAs(JsonOf(written[1]))

Base32Encode == codec = "base32" /\ Written(<<EncodeBase32(origin[2])>>)
Base32Decode == codec = "base32" /\ ReadAs(DecodeBase32(written[1], TRUE))

FormatNext ==
  \/ CsvSerialize \/ CsvParse \/ JsonToProto \/ ProtoToJson \/ UnfoldField
  \/ JsonToXml \/ XmlToJson \/ Base32Encode \/ Base32Decode

FormatSpec == FormatInit /\ [][FormatNext]_formatVars

-----------------------------------------------------------------------------
\* What of a table survives: a row without fields and one with a single empty
\* field are the same line, which is left out or read as the former; and the BOM
\* of a first field that needs no quotes is taken for that of the file.
Kept(rows, o) ==
  LET Begun(f) == IF f # <<>> /\ f[1] = "bom" /\ CsvField(f, o) = f THEN Tail(f) ELSE f
      clean    == [i \in DOMAIN rows |->
                     [j \in DOMAIN rows[i] |->
                        IF i = 1 /\ j = 1 THEN Begun(rows[i][j]) ELSE rows[i][j]]]
      Same(r)  == IF r = <<(<<>>)>> THEN <<>> ELSE r
      all      == [i \in DOMAIN clean |-> Same(clean[i])]
  IN IF o.skip_blank THEN SelectSeq(all, LAMBDA r : r # <<>>) ELSE all

Sayable(rows, o) ==
  o.quoting \/ \A i \in DOMAIN rows : \A j \in DOMAIN rows[i] : \A k \in DOMAIN rows[i][j] :
                 rows[i][j][k] \notin Special(o)

\* What is written as CSV is read as what it was, but for the rows above; the
\* text of two files one behind the other is read as the rows of both; and what
\* was read can be written and read again.
CsvInv ==
  codec = "csv" /\ readBack # <<>> =>
    /\ origin[1] = "value" /\ Sayable(origin[2], options) =>
         readBack = <<"table", Kept(origin[2], options)>>
    /\ readBack # Refused /\ Sayable(readBack[2], options) =>
         ReadCsv(CsvText(readBack[2], options), options) = <<"table", Kept(readBack[2], options)>>
    /\ origin[1] = "raw" =>
         \A k \in 1..(Len(origin[2]) - 1) :
           LET first  == ReadCsv(SubSeq(origin[2], 1, k), options)
               second == ReadCsv(SubSeq(origin[2], k + 1, Len(origin[2])), options)
           IN origin[2][k] = "lf" /\ first # Refused =>
                readBack = IF second = Refused THEN Refused
                         ELSE <<"table", first[2] \o second[2]>>

\* The elements of a list, and of the lists in it.
RECURSIVE Elements(_)
Elements(v) ==
  IF v[1] = "list" THEN FlattenSeq([i \in DOMAIN v[2] |-> Elements(v[2][i])]) ELSE <<v>>

\* What of a value survives in a message: no list of less than two, no difference
\* between what is empty, no sign, no text that could be a message itself.
RECURSIVE Survives(_)
AsRead(f) ==
  [k \in {j \in DOMAIN f : Elements(f[j]) # <<>>} |->
     LET e == Elements(f[k]) IN
     IF Len(e) = 1 THEN Survives(e[1]) ELSE <<"list", [i \in DOMAIN e |-> Survives(e[i])]>>]
Survives(v) ==
  CASE v[1] = "bool"   -> <<"num", IF v[2] THEN 1 ELSE 0>>
    [] v[1] = "num"    -> <<"num", v[2] % Word>>
    [] v[1] = "text"   -> Probed(v[2])
    [] v[1] = "object" -> IF DOMAIN AsRead(v[2]) = {} THEN <<"null">> ELSE <<"object", AsRead(v[2])>>
    [] OTHER           -> v

\* A message is read as what it was, as far as it survives; only what has no
\* number is refused; what was read from anywhere can be written and is read the
\* same again, unknown fields included; and packed numbers are unfolded to what
\* they were, or not at all.
ProtoInv ==
  codec = "proto" /\ readBack # <<>> =>
    /\ origin[1] = "value" =>
         readBack = IF Writable(origin[2]) THEN <<"object", AsRead(origin[2][2])>> ELSE Refused
    /\ origin[1] = "raw" /\ readBack # Refused /\ Writable(readBack) =>
         ReadMessage(Message(readBack[2])) = readBack
    /\ origin[1] = "packed" /\ readBack # Refused /\ readBack[2][1][1] = "list" =>
         readBack[2][1][2] = [i \in DOMAIN origin[2] |-> <<"num", origin[2][i]>>]

\* What is written as XML is read as what it was, texts that look like numbers
\* included; and an element by hand is read as something that can be written.
XmlInv ==
  codec = "xml" /\ readBack # <<>> =>
    /\ origin[1] = "value" => readBack = origin[2]
    /\ JsonOf(Element(readBack)) = readBack

\* The bytes come back, by the strict reading too, from a text that is a multiple
\* of eight long; and what the strict reading takes, the lenient one reads alike.
Base32Inv ==
  codec = "base32" /\ readBack # <<>> =>
    /\ origin[1] = "value" => readBack = <<"bytes", origin[2]>> /\ Len(written[1]) % 8 = 0
    /\ readBack # Refused => DecodeBase32(written[1], FALSE) = readBack

FormatInv == CsvInv /\ ProtoInv /\ XmlInv /\ Base32Inv

-----------------------------------------------------------------------------
(***************************************************************************)
(* Frames on a stream of bytes: those of the TCP library (tcp.cpp), of     *)
(* WebSocket (websocket.cpp) and of the RPC over local sockets (rpc.cpp).  *)
(* The stream hands the bytes over in pieces of any size; the receiver     *)
(* keeps what is not a whole frame yet, or, on a local socket, reads the   *)
(* bytes of one frame until it has them.                                   *)
(*                                                                         *)
(* Bytes are numbers in base Base, or marks where the value has no part in *)
(* the cutting.  A local socket's and a TCP frame's length takes four of   *)
(* them, the lowest first.  WebSocket's is a seven-bit number up to Short, *)
(* or a sign for two bytes or for eight, the highest first; in the code    *)
(* Base is 256 and Short is 125.                                           *)
(***************************************************************************)

CONSTANTS
  Base, Short,   \* see above
  MaxFrame,      \* max_frame_bytes, kMaxFrameBytes
  Payloads,      \* the lengths of the payloads sent
  MaxFrames      \* bound on the frames sent

ASSUME FramingAssumption ==
  /\ Base \in Nat \ {0, 1} /\ Short \in Nat
  /\ MaxFrame \in Nat /\ MaxFrame < Base * Base * Base
  /\ Payloads \subseteq Nat /\ MaxFrames \in Nat

VARIABLES
  format,    \* "tcp", "websocket" or "local"
  masked,    \* WebSocket: the sender is the client
  frames,    \* the frames sent
  arrived,   \* how many of their bytes were read
  unread,    \* the receiver's buffer
  extracted, \* the frames it has taken out
  refused    \* it has found a violation

framingVars == <<format, masked, frames, arrived, unread, extracted, refused>>

Kinds == {"text", "ping", "reserved"}

\* A frame; len is the length of its payload.  Its payload is told from others
\* by the frame's number and the positions in it.
Frame == [kind : Kinds, len : Payloads]

-----------------------------------------------------------------------------
(* Sending. *)

\* put_u32_le().
Length4(n) == <<n % Base, (n \div Base) % Base, n \div (Base * Base), 0>>

\* The payload of frame i, under the key or not.
Body(i, len, mask) ==
  [k \in 1..len |-> [of |-> i, byte |-> k, key |-> IF mask THEN ((k - 1) % 4) + 1 ELSE 0]]

Key(i) == [k \in 1..4 |-> [of |-> i, byte |-> 0, key |-> k]]

\* make_frame() of websocket.cpp.
WebSocketHead(f, mask) ==
  <<f.kind>> \o
  (IF f.len <= Short THEN <<[mask |-> mask, len |-> f.len]>>
   ELSE IF f.len < Base * Base
     THEN <<[mask |-> mask, len |-> Short + 1], f.len \div Base, f.len % Base>>
   ELSE <<[mask |-> mask, len |-> Short + 2], 0, 0, 0, 0, 0,
          f.len \div (Base * Base), (f.len \div Base) % Base, f.len % Base>>)

Encode(i, f) ==
  CASE format = "tcp" -> Length4(f.len + 1) \o <<f.kind>> \o Body(i, f.len, FALSE)
    [] format = "local" -> Length4(f.len) \o Body(i, f.len, FALSE)
    [] format = "websocket" ->
         WebSocketHead(f, masked) \o (IF masked THEN Key(i) ELSE <<>>) \o Body(i, f.len, masked)

Wire == FlattenSeq([i \in DOMAIN frames |-> Encode(i, frames[i])])

-----------------------------------------------------------------------------
(* Receiving. *)

\* What the receiver makes of the beginning of its buffer: a frame of so many
\* bytes, "wait" for more, or "bad".
Wait == [is |-> "wait"]
Bad  == [is |-> "bad"]
Found(kind, first, size) ==
  [is |-> "frame", kind |-> kind, first |-> first, size |-> size]

Value(b, first, n) == FoldLeft(LAMBDA v, d : (v * Base) + d, 0, SubSeq(b, first, first + n - 1))

\* extract_frames() of tcp.cpp; the length counts the byte of the type.
TcpNext(b) ==
  LET len == Value(Reverse(SubSeq(b, 1, 4)), 1, 4) IN
  IF Len(b) < 5 THEN Wait
  ELSE IF len < 1 \/ len > MaxFrame THEN Bad
  ELSE IF Len(b) < len + 4 THEN Wait
  ELSE Found(b[5], 6, len + 4)

\* uds_recv_frame(), which blocks until it has what it waits for.
LocalNext(b) ==
  LET len == Value(Reverse(SubSeq(b, 1, 4)), 1, 4) IN
  IF Len(b) < 4 THEN Wait
  ELSE IF len > MaxFrame THEN Bad
  ELSE IF Len(b) < len + 4 THEN Wait
  ELSE Found("none", 5, len + 4)

\* extract_frames() of websocket.cpp: the checks in the order of the code.
WebSocketNext(b) ==
  LET short == b[2].len
      wide  == IF short = Short + 1 THEN 2 ELSE IF short = Short + 2 THEN 8 ELSE 0
      len   == IF wide = 0 THEN short ELSE Value(b, 3, wide)
      first == 3 + wide + (IF masked THEN 4 ELSE 0)
  IN IF Len(b) < 2 THEN Wait
     ELSE IF b[2].mask # masked \/ b[1] = "reserved" THEN Bad
     ELSE IF Len(b) < 2 + wide THEN Wait
     ELSE IF (b[1] = "ping" /\ len > Short) \/ len > MaxFrame THEN Bad
     ELSE IF Len(b) < first + len - 1 THEN Wait
     ELSE Found(b[1], first, first + len - 1)

NextFrame(b) ==
  CASE format = "tcp" -> TcpNext(b)
    [] format = "local" -> LocalNext(b)
    [] format = "websocket" -> WebSocketNext(b)

\* Mutant: the key begins with the length's last byte.
KeyShifted(k) == (k % 4) + 1

\* apply_mask(): the byte of the key for byte k.
KeyByte(k) == ((k - 1) % 4) + 1

\* The payload of the frame at the beginning of b, without its mask.
Payload(b, found) ==
  LET key == SubSeq(b, found.first - 4, found.first - 1)
      raw == SubSeq(b, found.first, found.size)
  IN IF format = "websocket" /\ masked
       THEN [k \in DOMAIN raw |->
               IF key[KeyByte(k)].key = raw[k].key THEN [raw[k] EXCEPT !.key = 0] ELSE raw[k]]
       ELSE raw

\* One turn of the loop: a frame leaves the buffer.
TakeFrame ==
  LET found == NextFrame(unread) IN
  /\ ~refused /\ found.is = "frame"
  /\ extracted' = Append(extracted, [kind |-> found.kind, payload |-> Payload(unread, found)])
  /\ unread' = SubSeq(unread, found.size + 1, Len(unread))
  /\ UNCHANGED <<format, masked, frames, arrived, refused>>

RefuseFrame ==
  /\ ~refused /\ NextFrame(unread).is = "bad"
  /\ refused' = TRUE
  /\ UNCHANGED <<format, masked, frames, arrived, unread, extracted>>

\* The loop is over, and more bytes come, as many as the stream likes.  For a
\* local socket unread is what the receiver has and what the socket holds, of
\* which it reads no more than its frame.
ReadBytes(n) ==
  /\ ~refused /\ NextFrame(unread).is = "wait"
  /\ arrived + n <= Len(Wire)
  /\ unread' = unread \o SubSeq(Wire, arrived + 1, arrived + n)
  /\ arrived' = arrived + n
  /\ UNCHANGED <<format, masked, frames, extracted, refused>>

FramingInit ==
  /\ format \in {"tcp", "websocket", "local"}
  /\ masked \in (IF format = "websocket" THEN BOOLEAN ELSE {FALSE})
  /\ frames \in UNION {[1..n -> Frame] : n \in 0..MaxFrames}
  /\ arrived = 0 /\ unread = <<>> /\ extracted = <<>> /\ refused = FALSE

FramingNext ==
  \/ TakeFrame \/ RefuseFrame
  \/ \E n \in 1..Len(Wire) : ReadBytes(n)

FramingSpec == FramingInit /\ [][FramingNext]_framingVars

-----------------------------------------------------------------------------
\* What the sender sent wrongly.
Wrong(f) ==
  \/ format = "websocket" /\ (f.kind = "reserved" \/ f.len > MaxFrame
                              \/ (f.kind = "ping" /\ f.len > Short))
  \/ format = "tcp" /\ f.len + 1 > MaxFrame
  \/ format = "local" /\ f.len > MaxFrame

\* The number of bytes up to and with frame i.
UpTo(i) == Len(FlattenSeq([j \in 1..i |-> Encode(j, frames[j])]))

\* However the stream is cut, the frames taken out are the first ones sent, with
\* their payloads byte by byte, none lost and none twice; a receiver that waits
\* has taken every frame that has arrived; and only a frame against the rules is
\* refused, after all before it were taken out.
CuttingInv ==
  /\ Len(extracted) <= Len(frames)
  /\ \A i \in DOMAIN extracted :
       /\ extracted[i].payload = Body(i, frames[i].len, FALSE)
       /\ (format # "local" => extracted[i].kind = frames[i].kind)
       /\ ~Wrong(frames[i])
  /\ (~refused /\ NextFrame(unread).is = "wait") =>
       \A i \in DOMAIN frames : UpTo(i) <= arrived => i <= Len(extracted)
  /\ refused => (Len(extracted) < Len(frames) /\ Wrong(frames[Len(extracted) + 1]))
=============================================================================
