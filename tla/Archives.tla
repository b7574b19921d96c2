------------------------------ MODULE Archives ------------------------------
(***************************************************************************)
(* The archives of tar.cpp and zip.cpp: a writer that is given entries one *)
(* by one, what becomes of the archive on its way, and the reader.         *)
(*                                                                         *)
(* A tar archive is a sequence of blocks, and a header is one block.  A    *)
(* zip archive is a sequence of records, and offsets count records.  The   *)
(* sizes of fields are constants, so that names, sizes and counts that do  *)
(* not fit are within reach.  What a name consists of matters to tar only. *)
(***************************************************************************)
EXTENDS Integers, Sequences, SequencesExt, FiniteSetsExt

CONSTANTS
  NameField, PrefixField, LinkField,   \* 100, 155 and 100 bytes
  TarBlock,        \* kBlockSize, 512 bytes
  SizeField,       \* 8^11: what 11 octal digits can tell
  CountField,      \* 2^16: what the end record of a zip can tell
  MaxTarName,      \* bound on names
  MaxTarEntries, MaxZipEntries

ASSUME ArchivesAssumption ==
  /\ {NameField, PrefixField, LinkField, TarBlock, SizeField, CountField} \subseteq Nat \ {0}
  /\ {MaxTarName, MaxTarEntries, MaxZipEntries} \subseteq Nat

VARIABLES
  packer,          \* the writer in use: "tar" or "zip"
  added,           \* the entries that were accepted
  packed,          \* TarWriter::data_, or ZipWriter::Impl::body and records
  damage,          \* what became of the finished archive; "open" before finish()
  unpacked         \* what the reader made of it

archiveVars == <<packer, added, packed, damage, unpacked>>

Min2(a, b) == IF a < b THEN a ELSE b

-----------------------------------------------------------------------------
(* TarWriter.  The content of a file is its size and what fills it; "tar" is *)
(* an archive within the archive, whose first block is a header.             *)

Inner == [kind |-> "head", head |-> <<"b">>, prefix |-> <<>>, type |-> "dir", size |-> 0,
          link |-> <<>>, sound |-> TRUE]
BlockOf(fill) == IF fill = "tar" THEN Inner ELSE [kind |-> fill]
ZeroBlock == BlockOf("zero")

\* The last block of the content is only begun.
BlocksRoundedDown(n) == n \div TarBlock   \* Mutant
BlocksOf(n) == (n + TarBlock - 1) \div TarBlock
Content(data) == [i \in 1..((data.size + TarBlock - 1) \div TarBlock) |-> BlockOf(data.fill)]

\* Where a name that is too long for its field may be cut: at the first '/' that leaves
\* neither part empty nor too long.
Cuts(name) ==
  LET n  == Len(name)
      lo == IF n > NameField + 1 THEN n - NameField - 1 ELSE 1
  IN  {i \in lo..Min2(n - 2, PrefixField) : name[i + 1] = "/"}

AcceptsName(name) == name # <<>> /\ (Len(name) <= NameField \/ Cuts(name) # {})

\* add_header(): 11 octal digits are written, the lowest ones.
Header(e) ==
  LET cut == IF Len(e.name) <= NameField THEN 0 ELSE Min(Cuts(e.name))
  IN  [kind |-> "head",
       head |-> IF cut = 0 THEN e.name ELSE SubSeq(e.name, cut + 2, Len(e.name)),
       prefix |-> SubSeq(e.name, 1, cut),
       type |-> e.type, size |-> e.data.size % SizeField, link |-> e.link, sound |-> TRUE]

\* add_file(), add_dir() and add_symlink(): what is refused leaves no trace.
TarEntryOf(e) ==
  IF e.type = "dir" /\ e.name # <<>> /\ Last(e.name) # "/"
    THEN [e EXCEPT !.name = Append(@, "/")] ELSE e

AddToTar(asked) ==
  /\ packer = "tar" /\ damage = "open" /\ Len(added) < MaxTarEntries
  /\ LET e == TarEntryOf(asked)
     IN  IF AcceptsName(e.name) /\ (e.type = "link" => Len(e.link) <= LinkField)
           THEN /\ added' = Append(added, e)
                /\ packed' = packed \o <<Header(e)>> \o Content(e.data)
           ELSE UNCHANGED <<added, packed>>
  /\ UNCHANGED <<packer, damage, unpacked>>

FinishedTar == packed \o <<ZeroBlock, ZeroBlock>>

-----------------------------------------------------------------------------
(* TarReader *)

NoSlash(h) == h.prefix \o h.head   \* Mutant
TarName(h) == IF h.prefix = <<>> THEN h.head ELSE h.prefix \o <<"/">> \o h.head

RECURSIVE ReadBlocks(_, _, _, _)
ReadBlocks(b, pos, saw_eof, entries) ==
  IF pos > Len(b) THEN [ok |-> entries # <<>>, entries |-> entries]
  ELSE LET h == b[pos]
       IN  IF h = ZeroBlock THEN ReadBlocks(b, pos + 1, TRUE, entries)
           ELSE IF \/ saw_eof \/ h.kind # "head"
                THEN [ok |-> FALSE, entries |-> entries]
           ELSE IF ~h.sound \/ TarName(h) = <<>> \/ pos + BlocksOf(h.size) > Len(b)
                THEN [ok |-> FALSE, entries |-> entries]
           ELSE ReadBlocks(b, pos + 1 + BlocksOf(h.size), FALSE,
                  Append(entries, [name |-> TarName(h), type |-> h.type, size |-> h.size,
                                   link |-> h.link, at |-> pos + 1]))

\* open(): b is the archive in blocks, and odd says that it ends within one.
TarOpen(b, odd) ==
  IF Len(b) < 2 \/ odd THEN [ok |-> FALSE, entries |-> <<>>] ELSE ReadBlocks(b, 1, FALSE, <<>>)

\* extract_at(): what is no file has no content.
TarContent(b, e) ==
  IF e.type # "file" THEN <<>> ELSE SubSeq(b, e.at, e.at + BlocksOf(e.size) - 1)

\* On the way the archive may end early, between blocks or within one, or a header may
\* be altered, which its sum tells.
TarDamages ==
  [kind : {"none", "odd"}, at : {0}] \cup [kind : {"cut"}, at : 0..(Len(packed) + 1)]
  \cup [kind : {"altered"}, at : {i \in DOMAIN packed : packed[i].kind = "head" /\ packed[i] # Inner}]

Carried(d) ==
  CASE d.kind = "cut"     -> SubSeq(FinishedTar, 1, d.at)
    [] d.kind = "altered" -> [FinishedTar EXCEPT ![d.at].sound = FALSE]
    [] OTHER -> FinishedTar

ReadTar ==
  /\ packer = "tar" /\ damage = "open"
  /\ \E d \in TarDamages :
       /\ damage' = d.kind
       /\ LET b == Carried(d)
              opened == TarOpen(b, d.kind = "odd")
          IN  /\ packed' = b
              /\ unpacked' = [ok |-> opened.ok,
                   entries |-> [i \in DOMAIN opened.entries |->
                      [name |-> opened.entries[i].name, type |-> opened.entries[i].type,
                       link |-> opened.entries[i].link, size |-> opened.entries[i].size,
                       text |-> TarContent(b, opened.entries[i])]]]
  /\ UNCHANGED <<packer, added>>

-----------------------------------------------------------------------------
(* ZipWriter.  A file's data are empty, or do not shrink, or shrink.         *)

\* add_file() stores what deflate() does not make smaller.
MethodFor(data) == IF data = "shrinks" THEN "deflate" ELSE "store"

AddToZip(name, data) ==
  /\ packer = "zip" /\ damage = "open" /\ Len(added) < MaxZipEntries
  /\ IF name = ""
       THEN UNCHANGED <<added, packed>>
       ELSE /\ added' = Append(added, [name |-> name, text |-> data])
            /\ packed' = Append(packed,
                 [kind |-> "local", name |-> name, method |-> MethodFor(data), crc |-> data,
                  stored |-> data, whole |-> TRUE])
  /\ UNCHANGED <<packer, damage, unpacked>>

\* finish(): the count is written as it fits.
FinishedZip ==
  LET central == [i \in DOMAIN packed |->
        [kind |-> "central", name |-> packed[i].name, method |-> packed[i].method,
         crc |-> packed[i].crc, at |-> i]]
  IN  packed \o central \o
      <<[kind |-> "eocd", count |-> Len(packed) % CountField, at |-> Len(packed) + 1]>>

-----------------------------------------------------------------------------
(* ZipReader *)

\* open(): the last end record counts, and what follows it is a comment.
ZipOpen(z) ==
  LET ends == {i \in DOMAIN z : z[i].kind = "eocd"}
      eocd == z[Max(ends)]
      Central(i) == z[eocd.at + i - 1]
      Sound(i) ==
        /\ eocd.at + i - 1 \in DOMAIN z /\ Central(i).kind = "central"
        /\ Central(i).at \in DOMAIN z /\ z[Central(i).at].kind = "local"
  IN  IF ends = {} \/ \E i \in 1..eocd.count : ~Sound(i)
        THEN [ok |-> FALSE, entries |-> <<>>]
        ELSE [ok |-> TRUE, entries |-> [i \in 1..eocd.count |-> Central(i)]]

\* inflate_raw(): deflated data that were altered are refused, or become others, or
\* want more data than there are: zlib then says Z_BUF_ERROR for ever.
Inflated(local) == IF local.whole THEN {local.stored} ELSE {"refused", "others", "waits"}
Stored(local) == IF local.whole THEN {local.stored} ELSE {"others"}

\* Mutant: the checksum is not compared.
ExtractedUnchecked(z, e) ==
  LET local == z[e.at]
  IN  IF e.method = "store" THEN Stored(local) ELSE Inflated(local)
\* extract_at(): the text, or "refused", or "waits".
Extracted(z, e) ==
  LET local == z[e.at]
      raw   == IF e.method = "store" THEN Stored(local) ELSE Inflated(local)
  IN  {IF x \in {e.crc, "waits"} THEN x ELSE "refused" : x \in raw}

ZipDamages ==
  [kind : {"none", "comment"}, at : {0}] \cup [kind : {"cut"}, at : 0..(2 * Len(packed))]
  \cup [kind : {"altered"}, at : {i \in DOMAIN packed : packed[i].stored # "empty"}]
  \cup [kind : {"shifted"}, at : {1}]

Delivered(d) ==
  CASE d.kind = "cut"     -> SubSeq(FinishedZip, 1, d.at)
    [] d.kind = "altered" -> [FinishedZip EXCEPT ![d.at].whole = FALSE]
    [] d.kind = "comment" -> Append(FinishedZip, [kind |-> "other"])
    [] d.kind = "shifted" -> <<[kind |-> "other"]>> \o FinishedZip
    [] OTHER -> FinishedZip

ReadZip ==
  /\ packer = "zip" /\ damage = "open"
  /\ \E d \in ZipDamages :
       /\ damage' = d.kind
       /\ LET z == Delivered(d)
              opened == ZipOpen(z)
          IN  /\ packed' = z
              /\ \E texts \in [DOMAIN opened.entries ->
                                 UNION {Extracted(z, opened.entries[i])
                                          : i \in DOMAIN opened.entries}] :
                   /\ \A i \in DOMAIN texts : texts[i] \in Extracted(z, opened.entries[i])
                   /\ unpacked' = [ok |-> opened.ok,
                        entries |-> [i \in DOMAIN texts |->
                           [name |-> opened.entries[i].name, text |-> texts[i]]]]
  /\ UNCHANGED <<packer, added>>
-----------------------------------------------------------------------------
(* The archives that are made *)

TarFills == {"text", "zero", "tar"}
FilesToAdd == [type : {"file"}, name : {<<"a">>, <<"a", "/", "a", "a">>}, link : {<<>>},
               data : [size : {0, 1, 3, 4}, fill : TarFills]]
OthersToAdd ==
  LET Named(type, names, links) ==
        [type : {type}, name : names, link : links, data : {[size |-> 0, fill |-> "text"]}]
      AnyName == UNION {[1..n -> {"a", "/"}] : n \in 0..MaxTarName}
  IN  Named("dir", {<<"a">>, <<"a", "a">>, <<"a", "/">>}, {<<>>})
      \cup Named("link", {<<"a">>}, {<<"a">>, [i \in 1..(LinkField + 1) |-> "a"]})
      \cup IF added = <<>> THEN Named("file", AnyName, {<<>>}) ELSE {}

ArchivesIdle ==
  /\ packer = "tar" /\ added = <<>> /\ packed = <<>> /\ damage = "open"
  /\ unpacked = [ok |-> FALSE, entries |-> <<>>]
ArchivesInit ==
  /\ packer \in {"tar", "zip"} /\ added = <<>> /\ packed = <<>> /\ damage = "open"
  /\ unpacked = [ok |-> FALSE, entries |-> <<>>]

ArchivesNext ==
  \/ \E e \in FilesToAdd \cup OthersToAdd : AddToTar(e)
  \/ \E name \in {"", "a", "b"}, data \in {"empty", "stays", "shrinks"} : AddToZip(name, data)
  \/ ReadTar \/ ReadZip

-----------------------------------------------------------------------------
(* What comes back *)

\* A file larger than the field of a tar header can tell is the exception: its size is
\* written without its high digits.
TooLarge(e) == e.data.size >= SizeField
TarBack(e) ==
  [name |-> e.name, type |-> e.type, link |-> e.link, size |-> e.data.size,
   text |-> IF e.type = "file" THEN Content(e.data) ELSE <<>>]

\* Every entry that was accepted comes back, in order, with its name, its content and
\* the rest; an archive without an entry is refused.
TarRoundTrip ==
  (damage = "none" /\ packer = "tar" /\ \A i \in DOMAIN added : ~TooLarge(added[i])) =>
    /\ unpacked.ok = (added # <<>>)
    /\ unpacked.entries = [i \in DOMAIN added |-> TarBack(added[i])]

\* A tar archive that ends early may be opened, since its end is not asked for; what is
\* then in it is whole, and only later entries are missing.  One that ends within a
\* block, and one with an altered header, are refused.
TarDamageInv ==
  (packer = "tar" /\ \A i \in DOMAIN added : ~TooLarge(added[i])) =>
    /\ (damage = "cut" /\ unpacked.ok) =>
         /\ Len(unpacked.entries) <= Len(added)
         /\ \A i \in DOMAIN unpacked.entries : unpacked.entries[i] = TarBack(added[i])
    /\ damage \in {"odd", "altered"} => ~unpacked.ok

\* Every entry of a zip archive comes back, if their number fits its field.  What was
\* altered is never given out as if it were what was put in, and an archive without its
\* end, or that does not begin where it began, is refused if it has entries.
ZipInv ==
  (packer = "zip" /\ Len(added) < CountField) =>
    /\ damage \in {"none", "comment"} => unpacked.ok /\ unpacked.entries = added
    /\ damage = "altered" =>
         /\ unpacked.ok
         /\ \A i \in DOMAIN added :
              /\ unpacked.entries[i].name = added[i].name
              /\ unpacked.entries[i].text \in {added[i].text, "refused", "waits"}
    /\ damage = "cut" => ~unpacked.ok
    /\ (damage = "shifted" /\ added # <<>>) => ~unpacked.ok

ArchivesInv == TarRoundTrip /\ TarDamageInv /\ ZipInv

-----------------------------------------------------------------------------
(***************************************************************************)
(* The functions of file_utils.cpp that walk a tree (make, copy, move,     *)
(* remove, list, size), as one call on a small tree in which a path may    *)
(* refuse to be changed.  Nodes are directories, links and files; a file   *)
(* has a size.                                                             *)
(*                                                                         *)
(* A path is a sequence of names, and names are numbers in their order.  A *)
(* tree maps the paths that exist to their node.  Links are followed at    *)
(* the end of a path only: none of the trees here has a link further up.   *)
(***************************************************************************)

CONSTANT MaxHops   \* kMaxSymlinkHops

ASSUME TreeAssumption == MaxHops \in Nat \ {0}

VARIABLES
  tree,            \* the paths that exist, with their nodes
  locked,          \* a path that can be neither written nor renamed nor removed
  one_device,      \* rename() may move across
  request,         \* the call that was made, or NoCall
  result,          \* what it returned: whether it succeeded, and a size
  before           \* the tree it found

treeVars == <<tree, locked, one_device, request, result, before>>

NoCall == [op |-> "none", from |-> <<>>, to |-> <<>>, follow |-> FALSE]

Directory == [kind |-> "dir", size |-> 0, to |-> <<>>]
FileOf(n) == [kind |-> "file", size |-> n, to |-> <<>>]
SymlinkTo(path) == [kind |-> "link", size |-> 0, to |-> path]

\* What stat() answers for: a link leads to the path it names.
Resolved(f, path) == IF path \in DOMAIN f /\ f[path].kind = "link" THEN f[path].to ELSE path
file_exists(f, path) == Resolved(f, path) \in DOMAIN f
is_directory(f, path) == file_exists(f, path) /\ f[Resolved(f, path)].kind = "dir"
file_size(f, path) == IF file_exists(f, path) THEN f[Resolved(f, path)].size ELSE 0

\* What lstat() answers for, as classify() names it.
Lexists(f, path) == path \in DOMAIN f
EntryKind(f, path) == IF Lexists(f, path) THEN f[path].kind ELSE "other"

\* list_directory_detailed(): the names in order.
Listing(f, path) ==
  SetToSortSeq({q[Len(q)] : q \in {q \in DOMAIN f : Len(q) = Len(path) + 1
                                                     /\ SubSeq(q, 1, Len(path)) = path}}, <)

Placed(f, path, node) == [q \in DOMAIN f \cup {path} |-> IF q = path THEN node ELSE f[q]]
Drop(f, path) == [q \in DOMAIN f \ {path} |-> f[q]]
InDirectory(f, path) == Len(path) = 1 \/ is_directory(f, Front(path))
AtOrBelow(path, q) == IsPrefix(path, q)
Did(f) == [ok |-> TRUE, tree |-> f]
Failed(f) == [ok |-> FALSE, tree |-> f]

-----------------------------------------------------------------------------
(* make_directory() and make_directories() *)

make_directory(f, path) ==
  IF path \notin DOMAIN f /\ path # locked /\ InDirectory(f, path)
    THEN Did(Placed(f, path, Directory))
    ELSE [ok |-> is_directory(f, path), tree |-> f]

RECURSIVE EachPrefix(_, _, _)
EachPrefix(f, path, n) ==
  LET prefix == SubSeq(path, 1, n)
      made   == make_directory(f, prefix)
  IN  IF n > Len(path) THEN make_directory(f, path)
      ELSE IF file_exists(f, prefix) THEN EachPrefix(f, path, n + 1)
      ELSE IF made.ok THEN EachPrefix(made.tree, path, n + 1) ELSE made

make_directories(f, path) ==
  IF file_exists(f, path) THEN [ok |-> is_directory(f, path), tree |-> f]
  ELSE EachPrefix(f, path, 1)

-----------------------------------------------------------------------------
(* copy_file() and copy_tree() *)

\* The stream inserter fails when it has inserted nothing: of an empty file, and of
\* a directory, whose descriptor opens and cannot be read.
copy_file(f, from, to) ==
  IF ~file_exists(f, from) \/ to = locked \/ is_directory(f, to) \/ ~InDirectory(f, to)
    THEN Failed(f)
    ELSE LET n == file_size(f, from)
         IN  [ok |-> n > 0, tree |-> Placed(f, Resolved(f, to), FileOf(n))]

\* Into a directory that is there, the copy goes under its own name.
CopiesTo(f, from, to) == IF is_directory(f, to) THEN Append(to, from[Len(from)]) ELSE to

RECURSIVE copy_tree(_, _, _), CopyEntries(_, _, _, _)
copy_tree(f, from, to) ==
  LET dst  == CopiesTo(f, from, to)
      made == make_directories(f, dst)
  IN  IF ~Lexists(f, from) THEN Failed(f)
      ELSE IF f[from].kind # "dir" THEN copy_file(f, from, to)
      ELSE IF ~made.ok THEN made
      ELSE CopyEntries(made.tree, from, dst, Listing(made.tree, from))

CopyEntries(f, from, dst, names) ==
  IF names = <<>> THEN Did(f)
  ELSE LET a == Append(from, Head(names))
           b == Append(dst, Head(names))
           one == CASE EntryKind(f, a) = "dir"  -> copy_tree(f, a, b)
                    [] EntryKind(f, a) = "file" -> copy_file(f, a, b)
                    [] OTHER -> Did(f)
       IN  IF one.ok THEN CopyEntries(one.tree, from, dst, Tail(names)) ELSE one

-----------------------------------------------------------------------------
(* remove_tree() and move_path() *)

unlink(f, path) ==
  IF path = locked \/ EntryKind(f, path) \in {"dir", "other"} THEN Failed(f)
  ELSE Did(Drop(f, path))
rmdir(f, path) ==
  IF path = locked \/ EntryKind(f, path) # "dir" \/ Listing(f, path) # <<>> THEN Failed(f)
  ELSE Did(Drop(f, path))

RECURSIVE remove_tree(_, _), RemoveEntries(_, _, _)
\* Mutant: stat() for lstat(), and what a link leads to is walked.
RemoveThroughLinks(f, path) ==
  IF ~file_exists(f, path) THEN Failed(f)
  ELSE IF ~is_directory(f, path) THEN unlink(f, path)
  ELSE RemoveEntries(f, Resolved(f, path), Listing(f, Resolved(f, path)))
remove_tree(f, path) ==
  IF ~Lexists(f, path) THEN Failed(f)
  ELSE IF f[path].kind # "dir" THEN unlink(f, path)
  ELSE RemoveEntries(f, path, Listing(f, path))

RemoveEntries(f, path, names) ==
  IF names = <<>> THEN rmdir(f, path)
  ELSE LET q == Append(path, Head(names))
           one == IF EntryKind(f, q) = "dir" THEN remove_tree(f, q) ELSE unlink(f, q)
       IN  IF one.ok THEN RemoveEntries(one.tree, path, Tail(names)) ELSE one

\* rename(), which takes everything below along.
rename_path(f, from, to) ==
  IF ~one_device \/ locked \in {from, to} \/ ~InDirectory(f, to) THEN Failed(f)
  ELSE LET Moved(q) == to \o SubSeq(q, Len(from) + 1, Len(q))
           taken == {q \in DOMAIN f : AtOrBelow(from, q)}
       IN  Did([q \in (DOMAIN f \ taken) \cup {Moved(x) : x \in taken} |->
                   IF \E x \in taken : Moved(x) = q
                     THEN f[CHOOSE x \in taken : Moved(x) = q] ELSE f[q]])

\* Mutant: the source is removed whatever became of the copy.
MoveAnyhow(f, from, to) ==
  IF ~file_exists(f, from) \/ file_exists(f, to) THEN Failed(f)
  ELSE IF rename_path(f, from, to).ok THEN rename_path(f, from, to)
  ELSE remove_tree(copy_tree(f, from, to).tree, from)
move_path(f, from, to) ==
  IF ~file_exists(f, from) \/ file_exists(f, to) THEN Failed(f)
  ELSE IF rename_path(f, from, to).ok THEN rename_path(f, from, to)
  ELSE LET copied == copy_tree(f, from, to)
       IN  IF copied.ok THEN remove_tree(copied.tree, from) ELSE copied

-----------------------------------------------------------------------------
(* directory_size() *)

RECURSIVE directory_size(_, _, _, _)
directory_size(f, path, follow, hops) ==
  IF ~is_directory(f, path) THEN 0
  ELSE LET top == Resolved(f, path)
           Size(name) ==
             LET q == Append(top, name)
             IN  CASE EntryKind(f, q) = "dir"  -> directory_size(f, q, follow, hops)
                   [] EntryKind(f, q) = "file" -> f[q].size
                   [] OTHER ->
                        IF ~follow \/ hops = MaxHops THEN 0
                        ELSE IF is_directory(f, f[q].to)
                               THEN directory_size(f, f[q].to, follow, hops + 1)
                        ELSE file_size(f, f[q].to)
       IN  FoldSeq(LAMBDA name, sum : sum + Size(name), 0, Listing(f, top))
-----------------------------------------------------------------------------
(* One call, on one of the trees the bounds allow: <<1>> is what is copied,  *)
(* moved, removed or measured, <<2>> is where it goes, and links lead to     *)
(* <<3>> or back to <<1>>.                                                   *)

Outside == (<<3>> :> Directory) @@ (<<3, 1>> :> FileOf(2))

SourceTrees ==
  LET Leaves == {<<>>} \cup {(<<1, 2>> :> n) : n \in {FileOf(0), FileOf(1), SymlinkTo(<<3>>)}}
      Subtrees == {<<>>}
        \cup {(<<1, 1>> :> n) : n \in {FileOf(0), FileOf(1), SymlinkTo(<<3>>), Directory}}
        \cup {(<<1, 1>> :> Directory) @@ (<<1, 1, 1>> :> n)
                : n \in {FileOf(1), SymlinkTo(<<1>>)}}
  IN  {<<>>} \cup {(<<1>> :> n) : n \in {FileOf(0), FileOf(1), SymlinkTo(<<3>>)}}
      \cup {(<<1>> :> Directory) @@ x @@ y : x \in Subtrees, y \in Leaves}

TargetTrees ==
  {<<>>, (<<2>> :> FileOf(2)), (<<2>> :> Directory),
   (<<2>> :> Directory) @@ (<<2, 1>> :> Directory) @@ (<<2, 1, 1>> :> Directory)}

Requests ==
  [op : {"make"}, from : {<<2>>, <<2, 1, 1>>, <<1, 1, 1>>}, to : {<<>>}, follow : {FALSE}]
  \cup [op : {"copy", "move"}, from : {<<1>>, <<1, 1>>}, to : {<<2>>}, follow : {FALSE}]
  \cup [op : {"remove"}, from : {<<1>>}, to : {<<>>}, follow : {FALSE}]
  \cup [op : {"size"}, from : {<<1>>}, to : {<<>>}, follow : BOOLEAN]

TreeIdle ==
  /\ tree = <<>> /\ locked = <<>> /\ one_device = TRUE
  /\ request = NoCall /\ result = [ok |-> FALSE, size |-> 0] /\ before = <<>>

TreeInit ==
  /\ request = NoCall /\ result = [ok |-> FALSE, size |-> 0] /\ before = <<>>
  /\ one_device \in BOOLEAN
  /\ locked \in {<<>>, <<2>>, <<2, 1>>, <<1>>, <<1, 1>>, <<1, 1, 1>>}
  /\ \E x \in SourceTrees, y \in TargetTrees : tree = x @@ y @@ Outside

\* The call, whose work nobody else disturbs.
Outcome(r) ==
  CASE r.op = "make"   -> make_directories(tree, r.from)
    [] r.op = "copy"   -> copy_tree(tree, r.from, r.to)
    [] r.op = "move"   -> move_path(tree, r.from, r.to)
    [] r.op = "remove" -> remove_tree(tree, r.from)
    [] r.op = "size"   -> Did(tree)

CallTree ==
  /\ request = NoCall
  /\ \E r \in Requests :
       /\ r.op # "move" => one_device
       /\ r.op = "size" => locked = <<>>
       /\ request' = r /\ before' = tree
       /\ LET outcome_of == Outcome(r)
          IN  /\ tree' = outcome_of.tree
              /\ result' = [ok |-> outcome_of.ok,
                            size |-> IF r.op = "size"
                                       THEN directory_size(tree, r.from, r.follow, 0) ELSE 0]
  /\ UNCHANGED <<locked, one_device>>

-----------------------------------------------------------------------------
(* What a caller relies on *)

Asked(op) == request.op = op
FilesBelow(f, path) == {q \in DOMAIN f : AtOrBelow(path, q) /\ f[q].kind = "file"}
Onto(q, to) == to \o SubSeq(q, Len(request.from) + 1, Len(q))
SameAt(q, x) == x \in DOMAIN tree /\ tree[x] = before[q]
KeptOutside(path) ==
  \A q \in DOMAIN before : ~AtOrBelow(path, q) => SameAt(q, q)

\* A copy leaves the source and everything beside its place alone, and a copy that
\* succeeds is complete, but for the links.  Where a directory is already there, the
\* rest of the copy goes one level too deep, and is excepted.
CopyInv ==
  Asked("copy") =>
    LET dst == CopiesTo(before, request.from, request.to)
        Deeper(x) == \E n \in (Len(dst) + 1)..Len(x) : is_directory(before, SubSeq(x, 1, n))
    IN  /\ KeptOutside(request.to) /\ DOMAIN before \subseteq DOMAIN tree
        /\ result.ok => \A q \in DOMAIN before :
             (/\ AtOrBelow(request.from, q) /\ before[q].kind # "link"
              /\ ~Deeper(Onto(q, dst)))
                => SameAt(q, Onto(q, dst))

\* Moving loses no file: each is whole where it was or where it goes, also when a part
\* of the move fails; and a move that succeeds leaves nothing behind.
MoveInv ==
  Asked("move") =>
    /\ \A q \in FilesBelow(before, request.from) : SameAt(q, q) \/ SameAt(q, Onto(q, request.to))
    /\ result.ok => /\ \A q \in DOMAIN tree : ~AtOrBelow(request.from, q)
                 /\ \A q \in DOMAIN before :
                      (AtOrBelow(request.from, q) /\ before[q].kind # "link")
                        => SameAt(q, Onto(q, request.to))

\* Removing takes away what is below the path and nothing else, whatever links lead
\* out of it, and says whether it took it all.
RemoveInv ==
  Asked("remove") =>
    /\ KeptOutside(request.from)
    /\ result.ok = (Lexists(before, request.from) /\ \A q \in DOMAIN tree : ~AtOrBelow(request.from, q))

\* Making directories changes none that is there, and succeeds when the last is one.
MakeInv ==
  Asked("make") =>
    /\ \A q \in DOMAIN before : SameAt(q, q)
    /\ result.ok = is_directory(tree, request.from)

\* The size is that of the files below.  With links followed it is that of what they
\* lead to as well; one that leads back is followed as often as the bound allows.
SizeInv ==
  Asked("size") =>
    LET top == Resolved(tree, request.from)
        Sum(path) == FoldSet(LAMBDA q, sum : sum + tree[q].size, 0, FilesBelow(tree, path))
        Links(path) == {q \in DOMAIN tree : AtOrBelow(top, q) /\ q # top /\ tree[q].kind = "link"
                                            /\ tree[q].to = path}
        plain == IF is_directory(tree, request.from) THEN Sum(top) ELSE 0
        once  == plain + Cardinality(Links(<<3>>)) * Sum(<<3>>)
    IN  result.size = IF ~request.follow THEN plain
                 ELSE IF Links(<<1>>) # {} THEN MaxHops * once + plain
                 ELSE once

TreeInv == CopyInv /\ MoveInv /\ RemoveInv /\ MakeInv /\ SizeInv
=============================================================================
