------------------------------- MODULE Texts --------------------------------
(***************************************************************************)
(* Names of files as text: the patterns they are matched with and the      *)
(* search of a tree (glob.cpp), and paths (path_utils.cpp), as built for   *)
(* POSIX.  A text is a sequence of characters from a small alphabet.  Each *)
(* craft has its subject, and its answer in one step; the matcher takes    *)
(* the turns of its loop.                                                  *)
(***************************************************************************)
EXTENDS Integers, Sequences, SequencesExt, FiniteSets, FiniteSetsExt

CONSTANTS
  MaxPieces, MaxName,   \* bounds on patterns and on the names they are matched with
  MaxPath, MaxOther     \* bounds on paths, and on those that are joined

ASSUME TextsAssumption ==
  MaxPieces \in Nat /\ MaxName \in Nat /\ MaxPath \in Nat /\ MaxOther \in Nat

VARIABLES
  craft,     \* "glob", "find" or "paths"
  subject,   \* its input
  matcher,   \* where the matcher is
  answer     \* <<>>, or <<what came out>>

textVars == <<craft, subject, matcher, answer>>

-----------------------------------------------------------------------------
(* Patterns. *)

Ascii == <<"!", "*", "-", "?", "[", "\\", "]", "^", "a", "b", "c">>   \* in this order
Alphabet == Range(Ascii)
CodeOf(ch) == CHOOSE i \in DOMAIN Ascii : Ascii[i] = ch
Between(lo, hi) == {ch \in Alphabet : CodeOf(lo) <= CodeOf(ch) /\ CodeOf(ch) <= CodeOf(hi)}

Escaped(pat, i) == IF pat[i] = "\\" /\ i < Len(pat) THEN i + 1 ELSE i
IsRange(pat, i) == i + 2 <= Len(pat) /\ pat[i + 1] = "-" /\ pat[i + 2] # "]"

\* parse_bracket()'s loop.  After a range it goes on at the upper bound, which it
\* reads again; at its backslash's successor if the bound is escaped.
RECURSIVE SetFrom(_, _, _)
SetFrom(pat, i, ranges) ==
  IF i > Len(pat) THEN [ok |-> FALSE]
  ELSE IF pat[i] = "]" /\ ranges # <<>> THEN [ok |-> TRUE, ranges |-> ranges, next |-> i + 1]
  ELSE LET lo == Escaped(pat, i)  hi == Escaped(pat, lo + 2) IN
       IF IsRange(pat, lo)
         THEN SetFrom(pat, hi, Append(ranges, Between(pat[lo], pat[hi])))
         ELSE SetFrom(pat, lo + 1, Append(ranges, {pat[lo]}))

\* As the comments say: the bound is done with.
RECURSIVE SetAsMeant(_, _, _)
SetAsMeant(pat, i, ranges) ==
  IF i > Len(pat) THEN [ok |-> FALSE]
  ELSE IF pat[i] = "]" /\ ranges # <<>> THEN [ok |-> TRUE, ranges |-> ranges, next |-> i + 1]
  ELSE LET lo == Escaped(pat, i)  hi == Escaped(pat, lo + 2) IN
       IF IsRange(pat, lo)
         THEN SetAsMeant(pat, hi + 1, Append(ranges, Between(pat[lo], pat[hi])))
         ELSE SetAsMeant(pat, lo + 1, Append(ranges, {pat[lo]}))

Negated(pat, p) == p < Len(pat) /\ pat[p + 1] \in {"!", "^"}
Bracket(pat, p) == SetFrom(pat, IF Negated(pat, p) THEN p + 2 ELSE p + 1, <<>>)

\* What the item at p takes, and where the next one is: a bracket that is not
\* closed is a character like others.
ItemAs(pat, p, bracket) ==
  IF pat[p] = "?" THEN [takes |-> Alphabet, next |-> p + 1]
  ELSE IF pat[p] = "[" /\ bracket.ok THEN
    LET set == UNION Range(bracket.ranges) IN
    [takes |-> IF Negated(pat, p) THEN Alphabet \ set ELSE set, next |-> bracket.next]
  ELSE [takes |-> {pat[Escaped(pat, p)]}, next |-> Escaped(pat, p) + 1]

Item(pat, p) == ItemAs(pat, p, Bracket(pat, p))

\* Mutant: the characters the star has taken are forgotten.
GiveStarFromHere(c) ==
  IF c.star = 0 THEN [c EXCEPT !.end = "no"]
  ELSE [c EXCEPT !.p = c.star + 1, !.mark = c.n + 1, !.n = c.n + 1]

\* The last star takes one character more.
GiveStar(c) ==
  IF c.star = 0 THEN [c EXCEPT !.end = "no"]
  ELSE [c EXCEPT !.p = c.star + 1, !.mark = c.mark + 1, !.n = c.mark + 1]

MatchStart == [p |-> 1, n |-> 1, star |-> 0, mark |-> 0, end |-> "open"]

\* match_here(): a turn of its loop.
MatchTurn(pat, name, c) ==
  IF c.n > Len(name)
    THEN [c EXCEPT !.end = IF \A i \in c.p..Len(pat) : pat[i] = "*" THEN "yes" ELSE "no"]
  ELSE IF c.p > Len(pat) THEN GiveStar(c)
  ELSE IF pat[c.p] = "*" THEN [c EXCEPT !.star = c.p, !.mark = c.n, !.p = c.p + 1]
  ELSE IF name[c.n] \in Item(pat, c.p).takes
    THEN [c EXCEPT !.n = @ + 1, !.p = Item(pat, c.p).next]
  ELSE GiveStar(c)

\* What the header says: each item takes one character, a star any number.
RECURSIVE Accepts(_, _, _, _)
Accepts(pat, p, name, n) ==
  IF p > Len(pat) THEN n > Len(name)
  ELSE IF pat[p] = "*" THEN \E k \in n..Len(name) + 1 : Accepts(pat, p + 1, name, k)
  ELSE LET item == ItemAs(pat, p, SetAsMeant(pat, IF Negated(pat, p) THEN p + 2 ELSE p + 1, <<>>)) IN
       n <= Len(name) /\ name[n] \in item.takes /\ Accepts(pat, item.next, name, n + 1)

\* The upper bound of a range counts when it is read again: it is escaped, or below
\* the lower one, or begins a range of its own.
BoundReread(pat) ==
  \E i \in 2..Len(pat) - 1 : pat[i] = "-" /\
    \/ pat[i + 1] = "\\" \/ CodeOf(pat[i + 1]) < CodeOf(pat[i - 1])
    \/ i + 2 <= Len(pat) /\ pat[i + 2] = "-"

\* The matcher gets on: no turn leaves it where it was, or where it has been.
Rank(c) == c.star * 400 + c.mark * 20 + c.p
GetsOn(pat, name, c) ==
  LET d == MatchTurn(pat, name, c) IN d.end # "open" \/ Rank(d) > Rank(c)

PatternPieces == {<<"a">>, <<"b">>, <<"*">>, <<"?">>, <<"[", "a", "b", "]">>, <<"[", "!", "a", "]">>,
           <<"[", "]", "a", "]">>, <<"[", "a", "-", "c", "]">>, <<"[", "^", "b", "-", "b", "]">>,
           <<"[", "a">>, <<"[">>, <<"]">>, <<"\\", "*">>, <<"\\">>, <<"[", "\\", "]", "]">>,
           <<"[", "b", "-">>}
Patterns ==
  {FlattenSeq(s) : s \in UNION {[1..k -> PatternPieces] : k \in 0..MaxPieces}}
  \cup UNION {[1..k -> {"a", "b", "*", "?"}] : k \in 0..MaxPieces + 2}
MatchedNames == UNION {[1..k -> {"a", "b", "]", "["}] : k \in 0..MaxName}
         \cup [1..MaxName + 1 -> {"a", "b"}] \cup {<<"*">>, <<"\\">>, <<"-">>, <<"c">>}

TurnMatcher ==
  /\ craft = "glob" /\ matcher.end = "open"
  /\ matcher' = MatchTurn(subject.pattern, subject.name, matcher)
  /\ UNCHANGED <<craft, subject, answer>>

\* A pattern matches the names the header says, however the stars divide them,
\* and the matcher ends; patterns apart in which a range's bound is read again.
GlobInv ==
  craft = "glob" =>
    LET pat == subject.pattern  name == subject.name IN
    IF matcher.end = "open" THEN GetsOn(pat, name, matcher)
    ELSE BoundReread(pat) \/ (matcher.end = "yes") = Accepts(pat, 1, name, 1)

-----------------------------------------------------------------------------
(* The search of a tree.  A node is the path that leads to it, of names that *)
(* begin with a point ("h") and others ("v").                                *)

Parent(node) == Front(node)
Below(node)  == {Append(node, n) : n \in {"h", "v"}}

\* Trees of three levels: the names in the lower ones vary less.
Trees ==
  LET leaves(nodes) == UNION {[k -> {"file", "dir"}] : k \in SUBSET nodes}
      third(t) == IF <<"v", "v">> \in DOMAIN t /\ t[<<"v", "v">>] = "dir"
                    THEN {<<"v", "v", "h">>, <<"v", "v", "v">>} ELSE {}
      second(t) == (IF <<"h">> \in DOMAIN t /\ t[<<"h">>] = "dir" THEN {<<"h", "v">>} ELSE {})
                   \cup (IF <<"v">> \in DOMAIN t /\ t[<<"v">>] = "dir"
                           THEN {<<"v", "h">>, <<"v", "v">>} ELSE {})
      grow(ts, next(_)) == UNION {{more @@ t : more \in leaves(next(t))} : t \in ts}
  IN grow(grow(leaves({<<"h">>, <<"v">>}), second), third)
     \cup {<<"v">> :> "link"}

Options == [include_directories: BOOLEAN, include_hidden: BOOLEAN,
            max_depth: 0..1, max_results: 0..2, recurse: BOOLEAN, names: {{"v"}, {"h", "v"}}]

\* list_directory_detailed(), sorted: hidden names first.  It does not follow links.
Entries(tree, root) ==
  SelectSeq(<<Append(root, "h"), Append(root, "v")>>, LAMBDA e : e \in DOMAIN tree)

Full(out, o)     == o.max_results > 0 /\ Len(out) >= o.max_results
IsHidden(entry)  == Last(entry) = "h"
PassedOver(e, o) == ~o.include_hidden /\ IsHidden(e)

RECURSIVE Walk(_, _, _, _, _)

\* Mutant: what is passed over is not looked into either.
WalkNotHidden(tree, entry, depth, o, out) ==
  IF Full(out, o) \/ PassedOver(entry, o) THEN out
  ELSE LET isdir == tree[entry] = "dir"
           here == IF Last(entry) \in o.names /\ (isdir => o.include_directories)
                     THEN Append(out, entry) ELSE out
       IN IF isdir /\ o.recurse THEN Walk(tree, entry, depth + 1, o, here) ELSE here

\* An entry of walk()'s loop; a hidden directory is not shown, but looked into.
WalkEntry(tree, entry, depth, o, out) ==
  IF Full(out, o) THEN out
  ELSE LET isdir == tree[entry] = "dir"
           here == IF /\ ~PassedOver(entry, o) /\ Last(entry) \in o.names
                      /\ isdir => o.include_directories
                     THEN Append(out, entry) ELSE out
       IN IF isdir /\ o.recurse THEN Walk(tree, entry, depth + 1, o, here) ELSE here

Walk(tree, root, depth, o, out) ==
  IF Full(out, o) \/ (o.max_depth > 0 /\ depth > o.max_depth) THEN out
  ELSE FoldLeft(LAMBDA sofar, e : WalkEntry(tree, e, depth, o, sofar), out,
                Entries(tree, root))

\* glob() with a literal directory in its pattern lists that directory.
ListIn(tree, base, o) ==
  FoldLeft(LAMBDA sofar, e :
             IF \/ Full(sofar, o) \/ (tree[e] = "dir" /\ ~o.include_directories)
                \/ PassedOver(e, o) \/ Last(e) \notin o.names
               THEN sofar ELSE Append(sofar, e),
           <<>>, Entries(tree, base))

Find ==
  /\ craft = "find" /\ answer = <<>>
  /\ answer' = <<IF subject.base = <<>>
                   THEN Walk(subject.tree, <<>>, 0, subject.options, <<>>)
                   ELSE ListIn(subject.tree, subject.base, subject.options)>>
  /\ UNCHANGED <<craft, subject, matcher>>

\* What glob.h promises: everything below the root whose own name matches and may
\* be shown, down to max_depth; a directory only where one is asked for.
Wanted(tree, base, o) ==
  {e \in DOMAIN tree :
     /\ Len(e) > Len(base) /\ SubSeq(e, 1, Len(base)) = base
     /\ Last(e) \in o.names /\ ~PassedOver(e, o)
     /\ tree[e] = "dir" => o.include_directories
     /\ IF o.recurse THEN o.max_depth > 0 => Len(e) <= o.max_depth + 1
                     ELSE Len(e) = Len(base) + 1}

\* A search finds what is wanted, nothing else and nothing twice, and no more than
\* asked for: exactly as many when there are more.
FindInv ==
  craft = "find" /\ answer # <<>> =>
    LET found == answer[1]  o == subject.options
        wanted == Wanted(subject.tree, subject.base, o) IN
    /\ Range(found) \subseteq wanted /\ Cardinality(Range(found)) = Len(found)
    /\ Len(found) = IF o.max_results = 0 THEN Cardinality(wanted)
                    ELSE Min({o.max_results, Cardinality(wanted)})

-----------------------------------------------------------------------------
(* Paths. *)

IsSep(ch) == ch \in {"/", "\\"}
Generic(path) == [i \in DOMAIN path |-> IF path[i] = "\\" THEN "/" ELSE path[i]]   \* to_slashes
IsAbsolute(path) == path # <<>> /\ IsSep(path[1])
FirstSep(s, from) == LET found == {i \in from..Len(s) : s[i] = "/"} IN
                     IF found = {} THEN Len(s) + 1 ELSE Min(found)

\* What stands between separators, empty pieces and points included.
Segments(s) ==
  FoldLeft(LAMBDA segs, ch : IF ch = "/" THEN Append(segs, <<>>)
                             ELSE Append(Front(segs), Append(Last(segs), ch)),
           << <<>> >>, s)

Up == <<".", ".">>

\* Mutant: a leading ".." of a relative path is dropped as at the root.
AddComponentAtRoot(components, seg, at_root) ==
  CASE seg \in {<<>>, <<".">>} -> components
    [] seg = Up /\ components # <<>> -> Front(components)
    [] seg = Up -> components
    [] OTHER -> Append(components, seg)

AddComponent(components, seg, at_root) ==
  CASE seg \in {<<>>, <<".">>} -> components
    [] seg = Up /\ components # <<>> /\ Last(components) # Up -> Front(components)
    [] seg = Up -> IF at_root THEN components ELSE Append(components, Up)
    [] OTHER -> Append(components, seg)

SplitNormalized(path) ==
  LET s == Generic(path)
      unc == Len(s) >= 2 /\ s[1] = "/" /\ s[2] = "/"
      prefix == IF unc THEN SubSeq(s, 1, FirstSep(s, 3) - 1) ELSE <<>>
      absolute == Len(s) > Len(prefix) /\ s[Len(prefix) + 1] = "/"
      rest == SubSeq(s, Len(prefix) + (IF absolute THEN 2 ELSE 1), Len(s))
  IN [prefix |-> prefix, absolute |-> absolute,
      components |-> FoldLeft(LAMBDA cs, seg : AddComponent(cs, seg, absolute \/ prefix # <<>>),
                              <<>>, Segments(rest)),
      trailing |-> s # <<>> /\ Last(s) = "/" /\ absolute /\ Len(prefix) + 1 < Len(s)]

WithSep(out) == IF out = <<>> \/ Last(out) # "/" THEN Append(out, "/") ELSE out

JoinNormalized(parts) ==
  LET named == parts.components # <<>>
      rooted == parts.absolute \/ parts.prefix # <<>>
      out == IF named
               THEN (IF rooted THEN WithSep(parts.prefix) ELSE <<>>)
                    \o Tail(FlattenSeq([i \in DOMAIN parts.components |->
                                           <<"/">> \o parts.components[i]]))
               ELSE IF parts.absolute /\ parts.prefix = <<>> THEN <<"/">> ELSE parts.prefix
  IN IF parts.trailing /\ out # <<>> /\ (named \/ parts.absolute) THEN WithSep(out) ELSE out

Normalize(path) == IF path = <<>> THEN path ELSE JoinNormalized(SplitNormalized(path))

PathJoin(p1, p2) ==
  CASE p1 = <<>> -> p2
    [] p2 = <<>> -> p1
    [] IsAbsolute(p2) -> p2
    [] IsSep(Last(p1)) -> p1 \o p2
    [] OTHER -> p1 \o <<"/">> \o p2

PathAbsolute(path, base) ==
  IF IsAbsolute(path) THEN Normalize(path)
  ELSE Normalize(PathJoin(IF base = <<>> THEN <<".">> ELSE base, path))

\* path_combine(): the same, but an absolute piece does not begin anew.
Combine(pieces) ==
  FoldLeft(LAMBDA out, p : IF p = <<>> THEN out
                           ELSE IF out = <<>> \/ IsSep(Last(out)) \/ IsSep(p[1]) THEN out \o p
                           ELSE out \o <<"/">> \o p,
           <<>>, pieces)

LastSep(path) == Max({0} \cup {i \in DOMAIN path : IsSep(path[i])})
Dirname(path) ==
  IF LastSep(path) = 0 THEN <<".">> ELSE SubSeq(path, 1, Max({1, LastSep(path) - 1}))
Basename(path) == SubSeq(path, LastSep(path) + 1, Len(path))

\* Where the extension of a base name begins; a leading point begins none.
Point(base) == LET dot == Max({0} \cup {i \in DOMAIN base : base[i] = "."}) IN
               IF dot <= 1 THEN Len(base) + 1 ELSE dot
Stem(path) == SubSeq(Basename(path), 1, Point(Basename(path)) - 1)
Extension(path) == SubSeq(Basename(path), Point(Basename(path)), Len(Basename(path)))
ReplaceExtension(path, ext) ==
  LET name == Stem(path) \o (IF ext # <<>> /\ ext[1] # "." THEN <<".">> ELSE <<>>) \o ext IN
  IF Dirname(path) = <<".">> THEN name ELSE PathJoin(Dirname(path), name)

ParentPath(path) ==
  LET end == Max({0} \cup {i \in DOMAIN path : ~IsSep(path[i])})
      p == SubSeq(path, 1, end)
  IN IF LastSep(p) = 0 THEN <<>> ELSE Dirname(p)

Texts(alphabet, max) == UNION {[1..k -> alphabet] : k \in 0..max}
PathChars == {"/", "\\", ".", "a"}
Extensions == {<<>>, <<"b">>, <<".", "b">>}

AnswerPath ==
  /\ craft = "paths" /\ answer = <<>>
  /\ LET p == subject.path  q == subject.other IN
     answer' = <<[normal |-> Normalize(p), joined |-> PathJoin(p, q),
                  absolute |-> PathAbsolute(q, p), combined |-> Combine(<<p, q>>),
                  parent |-> ParentPath(p),
                  replaced |-> [e \in Extensions |-> ReplaceExtension(p, e)]]>>
  /\ UNCHANGED <<craft, subject, matcher>>

\* Where a path leads, from a place: the server of "//server/...", and the names
\* from the root.
Walks(start, segs) ==
  FoldLeft(LAMBDA there, seg :
             CASE seg \in {<<>>, <<".">>} -> there
               [] seg = Up -> [there EXCEPT !.names = IF @ = <<>> THEN @ ELSE Front(@)]
               [] OTHER -> [there EXCEPT !.names = Append(@, seg)],
           start, segs)
Place(path, cwd) ==
  LET s == Generic(path)  segs == Segments(s) IN
  IF Len(s) >= 2 /\ s[1] = "/" /\ s[2] = "/"
    THEN Walks([server |-> <<segs[3]>>, names |-> <<>>], SubSeq(segs, 4, Len(segs)))
  ELSE IF IsAbsolute(s) THEN Walks([server |-> <<>>, names |-> <<>>], segs)
  ELSE Walks(cwd, segs)

Home == [server |-> <<>>, names |-> [i \in 1..MaxPath + MaxOther |-> <<"home", i>>]]

IsUnc(path) == Len(path) >= 2 /\ IsSep(path[1]) /\ IsSep(path[2])

\* "///a": a server without a name does not stay apart from what follows, and
\* "//a//" loses its ends one at a time.
Nameless(path) == IsUnc(path) /\ Len(path) >= 3 /\ IsSep(path[3])
Shortened(path) ==
  IsUnc(path) /\ LET parts == SplitNormalized(path) IN parts.components = <<>> /\ parts.trailing

\* Normalizing leads to the same place, by the shortest way, once for all.
NormalInv(p, r) ==
  LET n == r.normal  segs == Segments(IF IsUnc(n) THEN SubSeq(n, 3, Len(n)) ELSE n) IN
  /\ ~Nameless(p) => Place(n, Home) = Place(p, Home)
  /\ ~Nameless(p) /\ ~Shortened(p) => Normalize(n) = n
  /\ \A i \in DOMAIN segs :
       /\ segs[i] # <<".">> \/ IsUnc(n)
       /\ segs[i] = <<>> => i \in {1, Len(segs)} \/ IsUnc(n)
       /\ segs[i] = Up => IsUnc(n) \/ (~IsAbsolute(p) /\ \A k \in 1..i : segs[k] = Up)

\* A path is its directory and its base name, and that its stem and extension;
\* replacing the extension leaves the rest where it was.
PartsInv(p, r) ==
  /\ Stem(p) \o Extension(p) = Basename(p)
  /\ ~IsUnc(p) => Place(PathJoin(Dirname(p), Basename(p)), Home) = Place(p, Home)
  /\ LET last == Basename(p) IN
     ~IsUnc(p) /\ last \notin {<<>>, <<".">>, Up} =>
        /\ Place(r.parent, Home).names = Front(Place(p, Home).names)
        /\ \A e \in Extensions :
             LET q == r.replaced[e] IN
             /\ Place(Dirname(q), Home) = Place(Dirname(p), Home)
             /\ Stem(p) \in {<<>>, <<".">>} \/
                  (e # <<>> => Stem(q) = Stem(p) /\ Last(Extension(q)) = "b")

\* Joined, a path is followed from where the one before it leads; combined too, an
\* absolute one as if it were not (but for "/" and "/a", which become "//a").
JoinInv(p, q, r) ==
  ~IsUnc(p) /\ ~IsUnc(q) /\ p # <<>> =>
    /\ Place(r.joined, Home) = Place(q, Place(p, Home))
    /\ Place(r.absolute, Home) = Place(q, Place(p, Home))
    /\ ~IsUnc(r.combined) =>
         Place(r.combined, Home) = Place(IF IsAbsolute(q) THEN Tail(q) ELSE q, Place(p, Home))

PathsInv ==
  craft = "paths" /\ answer # <<>> =>
    LET r == answer[1] IN
    /\ NormalInv(subject.path, r) /\ PartsInv(subject.path, r)
    /\ JoinInv(subject.path, subject.other, r)

-----------------------------------------------------------------------------
TextsInit ==
  /\ matcher = MatchStart /\ answer = <<>>
  /\ \/ craft = "glob" /\ subject \in [pattern: Patterns, name: MatchedNames]
     \/ /\ craft = "find"
        /\ \/ subject \in [tree: Trees, base: {<<>>}, options: Options]
           \/ subject \in [tree: Trees, base: {<<"h">>, <<"v">>},
                           options: {o \in Options : ~o.recurse /\ o.max_depth = 0}]
     \/ /\ craft = "paths"
        /\ \/ subject \in [path: Texts(PathChars, MaxPath), other: {<<>>}]
           \/ subject \in [path: Texts(PathChars, MaxOther), other: Texts(PathChars, MaxOther)]

\* Where another tool is used.
TextsIdle ==
  /\ craft = "glob" /\ subject = [pattern |-> <<>>, name |-> <<>>]
  /\ matcher = MatchStart /\ answer = <<>>

TextsNext == TurnMatcher \/ Find \/ AnswerPath
TextsSpec == TextsInit /\ [][TextsNext]_textVars

TextsInv == GlobInv /\ FindInv /\ PathsInv

=============================================================================
