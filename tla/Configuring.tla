---------------------------- MODULE Configuring -----------------------------
(***************************************************************************)
(* How a program is told what to do: its arguments (args.cpp), INI files   *)
(* (ini_config.cpp), and the layers of a configuration over defaults,      *)
(* files and the environment (config_facade.cpp); as built for POSIX.  A   *)
(* parser is used twice, an INI file is written and read again, and a      *)
(* configuration is changed while the environment changes.                 *)
(*                                                                         *)
(* The second part has the settings of RPC clients and servers.            *)
(***************************************************************************)
EXTENDS Integers, Sequences, SequencesExt, FiniteSets, FiniteSetsExt

CONSTANTS
  MaxArguments,   \* bound on the arguments of one use of the parser
  MaxSpelled,     \* bound on the characters of a section, key or value
  MaxChanges      \* bound on what happens to a configuration

ASSUME ConfiguringAssumption ==
  MaxArguments \in Nat /\ MaxSpelled \in Nat /\ MaxChanges \in Nat

VARIABLES
  told_by,    \* "args", "ini" or "layers"
  told,       \* the arguments, or what is written to the file
  parser,     \* Args: what parse() has left
  reread,     \* <<>>, or <<what was read from the file>>
  layers,     \* ConfigFacade: defaults_, file_values_, env_prefix_ and env_lookup_
  environs,   \* the environment: the values of the variables that are set
  scanned,    \* history: prefix and environment at the last scan
  changes

configVars == <<told_by, told, parser, reread, layers, environs, scanned, changes>>

-----------------------------------------------------------------------------
(* Arguments.  The program has an integer "num" (-n, default 1), a text      *)
(* "str" (-s), a flag (-f) and one positional argument.                      *)

Spoken(w)          == [form |-> "word", text |-> w]
Long(name)       == [form |-> "long", name |-> name, given |-> <<>>]
LongIs(name, w)  == [form |-> "long", name |-> name, given |-> <<Spoken(w)>>]
Brief(name)      == [form |-> "short", name |-> name, given |-> <<>>]
ShortIs(name, w) == [form |-> "short", name |-> name, given |-> <<Spoken(w)>>]    \* -nW
ShortEq(name, w) == [form |-> "equals", name |-> name, given |-> <<Spoken(w)>>]   \* -n=W
Terminator       == [form |-> "terminator"]
AskHelp          == [form |-> "help"]

Arguments ==
  {Terminator, AskHelp, Long("num"), LongIs("num", "7"), LongIs("num", "x"), Long("flag"),
   LongIs("flag", "x"), Long("str"), LongIs("str", ""), Long("other"), Brief("num"),
   ShortEq("num", "7"), ShortIs("num", "x"), Brief("flag"), ShortEq("flag", "x"),
   ShortIs("flag", "x"), Brief("other"), Brief("5"), Spoken("7"), Spoken("x"), Spoken("")}

IsInteger(arg) == arg \in {Spoken("7"), Spoken("1"), Brief("5")}     \* "-5"
TakesValue(name) == name \in {"num", "str"}
IsOption(name) == name \in {"num", "str", "flag"}

\* The options have their defaults, and nothing else was read but the positionals.
AtDefaults(positionals, result) ==
  [num |-> Spoken("1"), str |-> Spoken(""), flag |-> FALSE, positionals |-> positionals,
   remaining |-> <<>>, help |-> FALSE, ended |-> FALSE, result |-> result]

\* Mutant: the positional arguments of the parse before are still there.
BeginParseNotAll(before) == AtDefaults(before.positionals, "parsing")

\* The state parse() begins with, whatever was there.
BeginParse(before) == AtDefaults(<<>>, "parsing")

Assign(p, name, val) ==
  IF name = "num" /\ ~IsInteger(val) THEN [p EXCEPT !.result = "failed"]
  ELSE [p EXCEPT ![name] = val]

\* What is understood so far, and the option that waits for its value, if one does.
Parsing(p) == [parser |-> p, awaits |-> ""]

\* An option, long or short.  What clings to a short flag is ignored, unless it begins
\* with an equals sign.
TakeOption(p, arg) ==
  CASE ~IsOption(arg.name) -> Parsing([p EXCEPT !.result = "failed"])
    [] ~TakesValue(arg.name) /\ arg.given # <<>> /\ arg.form # "short" ->
         Parsing([p EXCEPT !.result = "failed"])
    [] ~TakesValue(arg.name) -> Parsing([p EXCEPT ![arg.name] = TRUE])
    [] arg.given # <<>> -> Parsing(Assign(p, arg.name, arg.given[1]))
    [] OTHER -> [parser |-> p, awaits |-> arg.name]

TakeWord(p, arg) ==
  IF p.positionals = <<>> THEN [p EXCEPT !.positionals = <<arg>>]
  ELSE [p EXCEPT !.remaining = Append(@, arg)]

\* The value of an option may look like anything.
TakeArgument(st, arg) ==
  LET p == st.parser IN
  IF p.result # "parsing" THEN st
  ELSE IF st.awaits # "" THEN Parsing(Assign(p, st.awaits, arg))
  ELSE IF p.ended THEN Parsing([p EXCEPT !.remaining = Append(@, arg)])
  ELSE CASE arg.form = "terminator" -> Parsing([p EXCEPT !.ended = TRUE])
         [] arg.form = "help" -> Parsing([p EXCEPT !.help = TRUE, !.result = "failed"])
         [] arg.form = "word" -> Parsing(TakeWord(p, arg))
         [] OTHER -> TakeOption(p, arg)

ParseFrom(p, args) ==
  LET all == FoldLeft(TakeArgument, Parsing(p), args) IN
  IF all.parser.result # "parsing" THEN all.parser
  ELSE [all.parser EXCEPT !.result =
          IF all.awaits # "" \/ all.parser.positionals = <<>> THEN "failed" ELSE "ok"]

NewArgs == AtDefaults(<<>>, "new")

Parse ==
  /\ told_by = "args" /\ told # <<>>
  /\ parser' = ParseFrom(BeginParse(parser), Head(told))
  /\ told' = Tail(told)
  /\ UNCHANGED <<told_by, reread, layers, environs, scanned, changes>>

\* The same said in one way only: options with their values, the positional
\* argument, and the others after the terminator.
Plainly(p) ==
  <<[form |-> "long", name |-> "num", given |-> <<p.num>>],
    [form |-> "long", name |-> "str", given |-> <<p.str>>]>>
  \o (IF p.flag THEN <<Long("flag")>> ELSE <<>>)
  \o p.positionals \o <<Terminator>> \o p.remaining

IsSubsequence(s, t) ==
  LET f[i \in 0..Len(t)] ==     \* how much of s the first i of t cover
        IF i = 0 THEN 0
        ELSE IF f[i-1] < Len(s) /\ s[f[i-1] + 1] = t[i] THEN f[i-1] + 1 ELSE f[i-1]
  IN f[Len(t)] = Len(s)

\* A parse that succeeds understands what it would had it been told plainly, takes
\* the words in their order, and every one that is no option's value; the integer is
\* one even if it fails; and a second parse does not remember the first.
ArgsInv ==
  told_by = "args" /\ parser.result # "new" =>
    /\ IsInteger(parser.num)
    /\ parser.help => parser.result = "failed"
    /\ parser.result = "ok" =>
         [ParseFrom(BeginParse(parser), Plainly(parser)) EXCEPT !.ended = parser.ended] = parser
    /\ told = <<>> => parser = ParseFrom(BeginParse(NewArgs), scanned.arguments)
    /\ told = <<>> /\ parser.result = "ok" =>
         LET words == parser.positionals \o parser.remaining  args == scanned.arguments IN
         /\ IsSubsequence(words, args)
         /\ \A i \in DOMAIN args :
              args[i].form = "word" /\ args[i] \notin Range(words) =>
                i > 1 /\ args[i-1].form \in {"long", "short"} /\ TakesValue(args[i-1].name)

-----------------------------------------------------------------------------
(* INI files.  A text is a sequence of characters; data_ is a set of entries. *)

IsBlank(ch) == ch \in {" ", "\n", "\r"}
Trim(s) ==
  LET solid == {i \in DOMAIN s : ~IsBlank(s[i])} IN
  IF solid = {} THEN <<>> ELSE SubSeq(s, Min(solid), Max(solid))

SplitLines(text) ==
  FoldLeft(LAMBDA lines, ch : CASE ch = "\n" -> Append(lines, <<>>)
                                [] ch = "\r" -> lines
                                [] OTHER -> Append(Front(lines), Append(Last(lines), ch)),
           << <<>> >>, text)

Comments(v) == {i \in DOMAIN v : v[i] = ";" /\ (i = 1 \/ IsBlank(v[i - 1]))}
Quoted(v) == Len(v) >= 2 /\ v[1] = "\"" /\ Last(v) = "\""

\* Mutant: a mark begins a comment wherever it stands.
CleanValueAnyMark(raw) ==
  LET marks == {i \in DOMAIN raw : raw[i] = ";"}
      v == Trim(IF marks = {} THEN raw ELSE SubSeq(raw, 1, Min(marks) - 1))
  IN IF Quoted(v) THEN SubSeq(v, 2, Len(v) - 1) ELSE v

CleanValue(raw) ==
  LET v == Trim(IF Comments(raw) = {} THEN raw ELSE SubSeq(raw, 1, Min(Comments(raw)) - 1)) IN
  IF Quoted(v) THEN SubSeq(v, 2, Len(v) - 1) ELSE v

SetEntry(data, s, k, v) ==
  {e \in data : e.section # s \/ e.key # k} \cup {[section |-> s, key |-> k, value |-> v]}

\* A line of parse(): c is the section it stands in.
ReadLine(st, line) ==
  LET t == Trim(line)
      closes == {i \in DOMAIN t : t[i] = "]"}
      equals == {i \in DOMAIN t : t[i] \in {"=", ":"}}
  IN CASE t = <<>> \/ t[1] = ";" -> st
       [] t # <<>> /\ t[1] = "[" ->
            IF closes = {} THEN st ELSE [st EXCEPT !.c = Trim(SubSeq(t, 2, Min(closes) - 1))]
       [] equals = {} -> st
       [] OTHER ->
            LET key == Trim(SubSeq(t, 1, Min(equals) - 1))
                val == CleanValue(SubSeq(t, Min(equals) + 1, Len(t)))
            IN IF key = <<>> THEN st
               ELSE [st EXCEPT !.data = SetEntry(@, st.c, key, val)]

ParseIni(text) == FoldLeft(ReadLine, [c |-> <<>>, data |-> {}], SplitLines(text)).data

\* save(): the sections in their order, the nameless one first; keys likewise.
SaveSection(data, s) ==
  (IF s = <<>> THEN <<>> ELSE <<"[">> \o s \o <<"]", "\r", "\n">>)
  \o FlattenSeq(SetToSeq({e.key \o <<"=">> \o e.value \o <<"\r", "\n">> :
                            e \in {x \in data : x.section = s}}))
Save(data) ==
  LET named == {e.section : e \in data} \ {<<>>}
      global == IF \E e \in data : e.section = <<>> THEN << <<>> >> ELSE <<>>
      texts == [i \in DOMAIN (global \o SetToSeq(named)) |->
                  SaveSection(data, (global \o SetToSeq(named))[i])]
  IN FlattenSeq([i \in DOMAIN texts |->
                   (IF i > 1 THEN <<"\r", "\n">> ELSE <<>>) \o texts[i]])

SaveAndLoad ==
  /\ told_by = "ini" /\ reread = <<>>
  /\ reread' = <<ParseIni(Save(told))>>
  /\ UNCHANGED <<told_by, told, parser, layers, environs, scanned, changes>>

\* What can be told apart from the file's own marks.
OneLine(s) == \A ch \in {"\n", "\r"} : ch \notin Range(s)
PlainKey(s, k) ==
  /\ k # <<>> /\ Trim(k) = k /\ OneLine(k) /\ k[1] \notin {"[", ";"}
  /\ {"=", ":"} \cap Range(k) = {}
PlainSection(s) == Trim(s) = s /\ OneLine(s) /\ "]" \notin Range(s)
PlainValue(v) == Trim(v) = v /\ OneLine(v) /\ Comments(v) = {} /\ ~Quoted(v)

\* What was set is read again exactly if all of it is plain: nothing is escaped when
\* it is saved.
IniInv ==
  told_by = "ini" /\ reread # <<>> =>
    (reread[1] = told) = (\A e \in told : /\ PlainSection(e.section) /\ PlainValue(e.value)
                                          /\ PlainKey(e.section, e.key))

IniChars == {"[", "]", "=", ":", ";", " ", "\"", "\n", "\r", "a"}
Spelled(max) == UNION {[1..n -> IniChars] : n \in 0..max}
Ab == <<"a", "b">>
IniFiles ==
  LET entry(s, k, v) == [section |-> s, key |-> k, value |-> v]
      another == entry(Ab, Ab, Ab) IN
  {{entry(s, k, v), another} : s \in {<<>>, <<"a">>}, k \in {<<"a">>}, v \in Spelled(MaxSpelled + 1)}
  \cup {{entry(s, k, Ab), another} : s \in {<<>>, <<"a">>, Ab}, k \in Spelled(MaxSpelled)}
  \cup {{entry(s, <<"a">>, v), another} : s \in Spelled(MaxSpelled), v \in {<<>>, <<"a">>}}

-----------------------------------------------------------------------------
(* The layers of a configuration.  Letters are written without their case.    *)

NormalizeKey(name) == SelectSeq(name, LAMBDA ch : ch \notin {".", "_"})

\* Names of variables, in their order, and the paths that are asked for.
VariableNames == << <<"a", "b">>, <<"a", "_", "b">>, <<"m", "a", "b">>,
                    <<"m", "_", "a", "_", "b">>, <<"m", "_">> >>
PathsAsked == {<<"a", ".", "b">>, <<"a", "b">>, <<"b">>}
EnvPrefixes == {<<>>, <<"m", "_">>, <<"a">>}

IsPrefixOf(s, t) == Len(s) <= Len(t) /\ SubSeq(t, 1, Len(s)) = s
AfterPrefix(s, t) == SubSeq(t, Len(s) + 1, Len(t))

\* refresh_env(): of several variables for a key, the first in order counts.
ScanVariables(prefix, env) ==
  FoldLeft(LAMBDA found, i :
             LET norm == NormalizeKey(VariableNames[i])  p == NormalizeKey(prefix)
                 rest == AfterPrefix(p, norm) IN
             IF i \notin DOMAIN env \/ ~IsPrefixOf(p, norm) \/ rest = <<>> \/ rest \in DOMAIN found
               THEN found ELSE found @@ (rest :> env[i]),
           <<>>, [i \in DOMAIN VariableNames |-> i])

ScanWith(prefix) ==
  /\ layers' = [layers EXCEPT !.prefix = prefix, !.env = ScanVariables(prefix, environs)]
  /\ scanned' = [prefix |-> prefix, env |-> environs]

Change == told_by = "layers" /\ changes < MaxChanges /\ changes' = changes + 1
          /\ UNCHANGED <<told_by, told, parser, reread>>

SetDefault(path, v) ==
  /\ Change
  /\ layers' = [layers EXCEPT !.defaults = (path :> v) @@ @]
  /\ UNCHANGED <<environs, scanned>>

\* load_text(): a file is merged into those before it; of an INI file what stands
\* in a section, under section.key.
LoadJson(path, v) ==
  /\ Change
  /\ layers' = [layers EXCEPT !.file = (path :> v) @@ @]
  /\ UNCHANGED <<environs, scanned>>

LoadIni(data) ==
  /\ Change
  /\ layers' = [layers EXCEPT !.file =
                  [path \in {e.section \o <<".">> \o e.key : e \in {x \in data : x.section # <<>>}} |->
                     (CHOOSE e \in data : e.section \o <<".">> \o e.key = path).value] @@ @]
  /\ UNCHANGED <<environs, scanned>>

\* Mutant: the variables are not scanned for the new prefix.
SetEnvPrefixOnly(prefix) ==
  /\ Change /\ prefix # layers.prefix
  /\ layers' = [layers EXCEPT !.prefix = prefix]
  /\ UNCHANGED <<environs, scanned>>

\* Nothing happens if the prefix is what it was, and it is empty at first.
SetEnvPrefix(prefix) ==
  /\ Change /\ prefix # layers.prefix
  /\ ScanWith(prefix)
  /\ UNCHANGED environs

RefreshEnv == Change /\ ScanWith(layers.prefix) /\ UNCHANGED environs

ClearLayers ==
  /\ Change
  /\ layers' = [layers EXCEPT !.defaults = <<>>, !.file = <<>>]
  /\ UNCHANGED <<environs, scanned>>

\* The environment: putenv() by somebody.
Setenv(i, v) ==
  /\ Change
  /\ environs' = (i :> v) @@ environs
  /\ UNCHANGED <<layers, scanned>>

SourceOf(path) ==
  CASE NormalizeKey(path) \in DOMAIN layers.env -> "env"
    [] NormalizeKey(path) \notin DOMAIN layers.env /\ path \in DOMAIN layers.file -> "file"
    [] OTHER -> IF path \in DOMAIN layers.defaults THEN "default" ELSE ""

GetValue(path) ==
  CASE SourceOf(path) = "env" -> layers.env[NormalizeKey(path)]
    [] SourceOf(path) = "file" -> layers.file[path]
    [] SourceOf(path) = "default" -> layers.defaults[path]
    [] OTHER -> 0

\* The variables that speak of a path, as the header has it: prefix and path with
\* points and bars left out.
Speakers(path) ==
  {i \in DOMAIN scanned.env :
     NormalizeKey(VariableNames[i]) = NormalizeKey(scanned.prefix) \o NormalizeKey(path)}

\* What is answered is what the environment said when it was last looked at, with
\* the prefix that is set, then the last file that has the path, then the default;
\* nothing else is, and a path spelled otherwise hears the same variable.
LayersInv ==
  told_by = "layers" =>
    /\ scanned.prefix = layers.prefix
    /\ \A path \in PathsAsked :
         /\ Speakers(path) # {} => /\ SourceOf(path) = "env"
                                   /\ GetValue(path) = scanned.env[Min(Speakers(path))]
         /\ Speakers(path) = {} => SourceOf(path) # "env"
         /\ SourceOf(path) = "default" => path \notin DOMAIN layers.file /\ GetValue(path) \in 1..2
         /\ SourceOf(path) = "file" => GetValue(path) \in 3..4
         /\ \A same \in PathsAsked :
              NormalizeKey(same) = NormalizeKey(path) /\ SourceOf(path) = "env" =>
                GetValue(same) = GetValue(path)

-----------------------------------------------------------------------------
NoLayers == [defaults |-> <<>>, file |-> <<>>, prefix |-> <<>>, env |-> <<>>]

ConfigInit ==
  /\ parser = NewArgs /\ reread = <<>> /\ layers = NoLayers /\ changes = 0 /\ environs = <<>>
  /\ \/ /\ told_by = "args"
        /\ \/ told \in {<<s>> : s \in UNION {[1..n -> Arguments] : n \in 0..MaxArguments}}
           \/ told \in {<<s, t>> : s \in [1..2 -> {Spoken("x"), Terminator, Long("flag"), AskHelp,
                                                 LongIs("num", "7"), LongIs("num", "x")}],
                                   t \in UNION {[1..n -> Arguments] : n \in 0..2}}
        /\ scanned = [arguments |-> Last(told)]
     \/ told_by = "ini" /\ told \in IniFiles /\ scanned = <<>>
     \/ told_by = "layers" /\ told = <<>> /\ scanned = [prefix |-> <<>>, env |-> <<>>]

\* Where another tool is used.
ConfigIdle ==
  /\ parser = NewArgs /\ reread = <<>> /\ layers = NoLayers /\ changes = 0 /\ environs = <<>>
  /\ told_by = "layers" /\ told = <<>> /\ scanned = [prefix |-> <<>>, env |-> <<>>]

LayersStep ==
  \/ \E path \in PathsAsked, v \in 1..2 : SetDefault(path, v)
  \/ \E path \in PathsAsked, v \in 3..4 : LoadJson(path, v)
  \/ \E s \in {<<>>, <<"a">>} : LoadIni({[section |-> s, key |-> <<"b">>, value |-> 4]})
  \/ \E prefix \in EnvPrefixes : SetEnvPrefix(prefix)
  \/ RefreshEnv \/ ClearLayers
  \/ \E i \in DOMAIN VariableNames, v \in 5..6 : Setenv(i, v)

ConfigNext == Parse \/ SaveAndLoad \/ LayersStep
ConfigSpec == ConfigInit /\ [][ConfigNext]_configVars

ConfigInv == ArgsInv /\ IniInv /\ LayersInv

-----------------------------------------------------------------------------
(***************************************************************************)
(* The settings of RPC clients, of the balancer that hands them to its     *)
(* endpoints, and of a server, when several threads change them: setters   *)
(* with their clamps, whole structures, files of which each gives some     *)
(* keys, and endpoints that are added meanwhile.                           *)
(*                                                                         *)
(* A setting is a number.  Of the client's, "retries" stands for those     *)
(* that may be given as a negative number, "pool" for the sizes; of the    *)
(* server's, "wait" for those that are clamped.                            *)
(***************************************************************************)

CONSTANTS
  Setters,       \* threads
  Given,         \* numbers given for a setting; the negative of each is given too
  MaxClients,    \* bound on the endpoints
  MaxApplied     \* bound on the changes

ASSUME SettingsAssumption ==
  Given \subseteq Nat /\ MaxClients \in Nat /\ MaxApplied \in Nat

VARIABLES
  shared,        \* the balancer's client_config
  clients,       \* the settings of its endpoints' clients
  doing,         \* per thread: [op, taken, keys], what it is in the midst of
  server,        \* the server's settings
  gateLimit, queueLimit, \* gate.limit, max_queued_requests
  applied,       \* changes so far
  latest,        \* history: what a caller gave last for each of the client's settings
  outdated,      \* history: threads that hold a copy others have changed
  late,          \* history: endpoints that were added with such a copy
  disturbed,     \* history: settings were written back from such a copy
  crossed        \* history: two threads were in set_max_in_flight() at once

settingsVars == <<shared, clients, doing, server, gateLimit, queueLimit, applied, latest, outdated,
                  late, disturbed, crossed>>

ClientKeys == {"retries", "pool"}
Numbers == Given \cup {0 - n : n \in Given}
Modes == {"reject", "wait"}
Ports == 0..65535
Resting == [op |-> "none"]
Busy(op) == {t \in Setters : doing[t].op = op}

SettingsInit ==
  /\ shared = [k \in ClientKeys |-> 3] /\ latest = shared
  /\ clients = <<>> /\ late = {}
  /\ doing = [t \in Setters |-> Resting] /\ outdated = {}
  /\ server = [port |-> 0, wait |-> 3, mode |-> "reject"]
  /\ gateLimit = 0 /\ queueLimit = 0
  /\ applied = 0 /\ disturbed = FALSE /\ crossed = FALSE

NonNegative(n) == IF n < 0 THEN 0 ELSE n

\* Mutant: what is given is taken over as it is.
ClampedNot(settings) == settings

\* apply_client_config_struct(): every setter clamps.
Clamped(settings) == [k \in ClientKeys |-> NonNegative(settings[k])]

\* The sizes are unsigned, and a file's are clamped as they are read.
Structs == {s \in [ClientKeys -> Numbers] : s.pool >= 0}
Files == UNION {{f \in [keys -> Numbers] : "pool" \in keys => f.pool >= 0} :
                  keys \in SUBSET ClientKeys \ {{}}}

-----------------------------------------------------------------------------
(* The balancer *)

\* Threads that have read client_config and have not used it yet.
Holding(t) == {u \in Setters \ {t} : doing[u].op \in {"add", "merge"}}

\* apply_client_config(): the copy and all endpoints, under the mutex.
HandDown(t, settings) ==
  /\ shared' = settings
  /\ clients' = [i \in DOMAIN clients |-> Clamped(settings)]
  /\ late' = {}
  /\ outdated' = (outdated \ {t}) \cup Holding(t)

ApplyStruct(t, s) ==
  /\ doing[t] = Resting /\ applied < MaxApplied /\ applied' = applied + 1
  /\ HandDown(t, s)
  /\ latest' = s /\ disturbed' = FALSE
  /\ UNCHANGED <<doing, server, gateLimit, queueLimit, crossed>>

\* apply_config(): the keys of the file on top of a copy of client_config.
ReadFile(t, f) ==
  /\ doing[t] = Resting /\ applied < MaxApplied /\ applied' = applied + 1
  /\ doing' = [doing EXCEPT ![t] =
       [op |-> "merge", keys |-> DOMAIN f,
        taken |-> [k \in ClientKeys |-> IF k \in DOMAIN f THEN f[k] ELSE shared[k]]]]
  /\ UNCHANGED <<shared, clients, server, gateLimit, queueLimit, latest, outdated, late,
                 disturbed, crossed>>

ApplyFile(t) ==
  /\ doing[t].op = "merge"
  /\ HandDown(t, doing[t].taken)
  /\ latest' = [k \in ClientKeys |-> IF k \in doing[t].keys THEN doing[t].taken[k] ELSE latest[k]]
  /\ disturbed' = (disturbed \/ t \in outdated)
  /\ doing' = [doing EXCEPT ![t] = Resting]
  /\ UNCHANGED <<server, gateLimit, queueLimit, applied, crossed>>

\* add_endpoint_core(): the client is configured before it is in the list, from a
\* copy taken under the mutex.
CopySettings(t) ==
  /\ doing[t] = Resting /\ Len(clients) < MaxClients
  /\ doing' = [doing EXCEPT ![t] = [op |-> "add", taken |-> shared]]
  /\ UNCHANGED <<shared, clients, server, gateLimit, queueLimit, applied, latest, outdated, late,
                 disturbed, crossed>>

Insert(t) ==
  /\ doing[t].op = "add" /\ Len(clients) < MaxClients
  /\ clients' = Append(clients, Clamped(doing[t].taken))
  /\ late' = IF t \in outdated THEN late \cup {Len(clients) + 1} ELSE late
  /\ outdated' = outdated \ {t}
  /\ doing' = [doing EXCEPT ![t] = Resting]
  /\ UNCHANGED <<shared, server, gateLimit, queueLimit, applied, latest, disturbed, crossed>>

-----------------------------------------------------------------------------
(* The server *)

\* apply_config(): a port out of range and an unknown mode are ignored, what must
\* not be negative is clamped.
ApplyServer(port, wait, mode) ==
  /\ applied < MaxApplied /\ applied' = applied + 1
  /\ server' = [port |-> IF port \in Ports THEN port ELSE server.port,
                wait |-> NonNegative(wait),
                mode |-> IF mode \in Modes THEN mode ELSE server.mode]
  /\ UNCHANGED <<shared, clients, doing, gateLimit, queueLimit, latest, outdated, late, disturbed,
                 crossed>>

\* set_max_in_flight(): the gate first, then the queue's bound under another mutex.
SetGate(t, n) ==
  /\ doing[t] = Resting /\ applied < MaxApplied /\ applied' = applied + 1
  /\ gateLimit' = n
  /\ doing' = [doing EXCEPT ![t] = [op |-> "limit", taken |-> n]]
  /\ crossed' = (crossed \/ Busy("limit") # {})
  /\ UNCHANGED <<shared, clients, server, queueLimit, latest, outdated, late, disturbed>>

SetQueue(t) ==
  /\ doing[t].op = "limit"
  /\ queueLimit' = doing[t].taken
  /\ doing' = [doing EXCEPT ![t] = Resting]
  /\ UNCHANGED <<shared, clients, server, gateLimit, applied, latest, outdated, late, disturbed,
                 crossed>>

SettingsNext ==
  \/ \E t \in Setters :
       \/ \E s \in Structs : ApplyStruct(t, s)
       \/ \E f \in Files : ReadFile(t, f)
       \/ ApplyFile(t) \/ CopySettings(t) \/ Insert(t) \/ SetQueue(t)
       \/ \E n \in Given : SetGate(t, n)
  \/ \E port \in {0 - 1, 80, 65536}, wait \in Numbers, mode \in Modes \cup {"other"} :
       ApplyServer(port, wait, mode)

SettingsSpec == SettingsInit /\ [][SettingsNext]_settingsVars

-----------------------------------------------------------------------------
\* Every endpoint has the settings of the balancer, those it was added under and
\* those that came later (rpc.h:484), unless it was added while they changed: the
\* copy it is configured from is then an old one, and nothing brings it up to date
\* but the next change.
AllConfigured ==
  \A i \in DOMAIN clients : i \notin late => clients[i] = Clamped(shared)

\* A setting is the one that was given last, unless two files were applied at once
\* and one wrote the other's keys back as they had been.
NothingForgotten == ~disturbed => shared = latest

\* Whatever was given, a call makes at least one attempt, and waits for no negative time.
AtLeastOneAttempt == \A i \in DOMAIN clients : clients[i].retries + 1 >= 1

\* The bound on the queue is the limit of the gate once nobody changes it, unless
\* two threads changed it at once.
LimitsAgree == Busy("limit") = {} /\ ~crossed => gateLimit = queueLimit

\* A server never has settings it would not start with, whatever the file says.
ServerValid == server.port \in Ports /\ server.wait >= 0 /\ server.mode \in Modes

SettingsInv ==
  AllConfigured /\ NothingForgotten /\ AtLeastOneAttempt /\ LimitsAgree /\ ServerValid
=============================================================================
