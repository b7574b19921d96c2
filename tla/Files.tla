-------------------------------- MODULE Files -------------------------------
(***************************************************************************)
(* write_file_atomic() of file_utils.cpp on POSIX, as two writers, a kill  *)
(* and a power cut may interleave it; and, in the second part, the         *)
(* directory watcher of dir_watcher.cpp.                                   *)
(***************************************************************************)
EXTENDS Integers, Sequences, FiniteSets

CONSTANTS
  FileWriters,     \* callers of write_file_atomic() for one target
  FileChunks,      \* write() calls that a content needs
  Nothing          \* what no writer wrote, no inode, no path

ASSUME FilesAssumption ==
  FileChunks \in Nat \ {0} /\ Nothing \notin FileWriters \cup (Nat \X (0..1))

VARIABLES
  apart,           \* the writers are processes, and not threads of one
  drawn,           \* per process: counter of unique_temp_path()
  save_at,         \* per writer: where it is in write_file_atomic()
  temp_name,       \* per writer: <<count>>, then <<count, tick>>
  inode,           \* per writer: the writer whose open() made the inode it has open
  flushed,         \* per writer: chunks written by it
  content, durable,\* per inode: who wrote each chunk, in memory and on the disk
  entry,           \* the directory: temporary name to inode
  target,          \* the inode behind the target's name, or Nothing: the old file
  put,             \* history: the writers whose rename() was done
  collided         \* history: two writers had the same temporary name

atomicVars == <<apart, drawn, save_at, temp_name, inode, flushed, content, durable, entry,
                target, put, collided>>

ProcessOf(w) == IF apart THEN w ELSE CHOOSE v \in FileWriters : TRUE
Unwritten == [i \in 1..FileChunks |-> Nothing]

AtomicInit ==
  /\ apart \in BOOLEAN
  /\ drawn = [w \in FileWriters |-> 0]
  /\ save_at = [w \in FileWriters |-> "idle"]
  /\ temp_name = [w \in FileWriters |-> Nothing]
  /\ inode = [w \in FileWriters |-> Nothing]
  /\ flushed = [w \in FileWriters |-> 0]
  /\ content = [w \in FileWriters |-> Unwritten] /\ durable = content
  /\ entry = <<>> /\ target = Nothing /\ put = {} /\ collided = FALSE

-----------------------------------------------------------------------------
(* unique_temp_path(): the counter is read and written without a lock, and the *)
(* time gives one of a few values.                                             *)

DrawCounter(w) ==
  /\ save_at[w] = "idle" /\ save_at' = [save_at EXCEPT ![w] = "name"]
  /\ temp_name' = [temp_name EXCEPT ![w] = <<drawn[ProcessOf(w)] + 1>>]
  /\ UNCHANGED <<apart, drawn, inode, flushed, content, durable, entry, target, put, collided>>

NameTemp(w) ==
  /\ save_at[w] = "name" /\ save_at' = [save_at EXCEPT ![w] = "open"]
  /\ drawn' = [drawn EXCEPT ![ProcessOf(w)] = temp_name[w][1]]
  /\ \E tick \in 0..1 :
       LET name == Append(temp_name[w], tick)
       IN  /\ temp_name' = [temp_name EXCEPT ![w] = name]
           /\ collided' = (collided \/ \E v \in FileWriters \ {w} : temp_name[v] = name)
  /\ UNCHANGED <<apart, inode, flushed, content, durable, entry, target, put>>

-----------------------------------------------------------------------------
(* write_file_atomic() *)

Without(name) == [n \in DOMAIN entry \ {name} |-> entry[n]]

\* open() with O_CREAT | O_TRUNC and without O_EXCL, which may fail.
OpenTemp(w) ==
  /\ save_at[w] = "open"
  /\ LET name == temp_name[w]
         node == IF name \in DOMAIN entry THEN entry[name] ELSE w
     IN  \/ /\ save_at' = [save_at EXCEPT ![w] = "write"]
            /\ inode' = [inode EXCEPT ![w] = node]
            /\ content' = [content EXCEPT ![node] = Unwritten]
            /\ entry' = [n \in DOMAIN entry \cup {name} |->
                           IF n = name THEN node ELSE entry[n]]
         \/ /\ save_at' = [save_at EXCEPT ![w] = "false"]
            /\ UNCHANGED <<inode, content, entry>>
  /\ UNCHANGED <<apart, drawn, temp_name, flushed, durable, target, put, collided>>

\* write() at the writer's own offset.
WriteTemp(w) ==
  /\ save_at[w] = "write" /\ flushed[w] < FileChunks
  /\ \/ /\ flushed' = [flushed EXCEPT ![w] = @ + 1]
        /\ content' = [content EXCEPT ![inode[w]][flushed[w] + 1] = w]
        /\ UNCHANGED save_at
     \/ /\ save_at' = [save_at EXCEPT ![w] = "undo"]
        /\ UNCHANGED <<flushed, content>>
  /\ UNCHANGED <<apart, drawn, temp_name, inode, durable, entry, target, put, collided>>

\* Mutant: the loop ends at the first write(), however little it wrote.
EndsEarly(w) == save_at[w] = "write" /\ flushed[w] > 0
AllWritten(w) == save_at[w] = "write" /\ flushed[w] = FileChunks

\* Mutant: close() alone.
OnDiskUnsynced(w) == durable
\* fsync(): what is in the inode is on the disk.
OnDisk(w) == [durable EXCEPT ![inode[w]] = content[inode[w]]]

SyncTemp(w) ==
  /\ AllWritten(w)
  /\ \/ save_at' = [save_at EXCEPT ![w] = "rename"] /\ durable' = OnDisk(w)
     \/ save_at' = [save_at EXCEPT ![w] = "undo"] /\ UNCHANGED durable
  /\ UNCHANGED <<apart, drawn, temp_name, inode, flushed, content, entry, target, put, collided>>

RenameTemp(w) ==
  /\ save_at[w] = "rename"
  /\ \/ /\ temp_name[w] \in DOMAIN entry
        /\ target' = entry[temp_name[w]] /\ entry' = Without(temp_name[w])
        /\ put' = put \cup {w} /\ save_at' = [save_at EXCEPT ![w] = "true"]
     \/ save_at' = [save_at EXCEPT ![w] = "undo"] /\ UNCHANGED <<target, entry, put>>
  /\ UNCHANGED <<apart, drawn, temp_name, inode, flushed, content, durable, collided>>

\* Mutant: the failure is returned at once.
LeftBehind(w) == entry
\* unlink() of the temporary file.
TakenAway(w) == Without(temp_name[w])

UndoTemp(w) ==
  /\ save_at[w] = "undo" /\ save_at' = [save_at EXCEPT ![w] = "false"]
  /\ entry' = TakenAway(w)
  /\ UNCHANGED <<apart, drawn, temp_name, inode, flushed, content, durable, target, put,
                 collided>>

Returned == {"true", "false", "killed"}

\* The writer's process is killed, with all its threads.
KillWriter(w) ==
  /\ save_at[w] \notin Returned \cup {"idle"}
  /\ save_at' = [v \in FileWriters |->
                   IF ProcessOf(v) = ProcessOf(w) /\ save_at[v] \notin Returned
                     THEN "killed" ELSE save_at[v]]
  /\ UNCHANGED <<apart, drawn, temp_name, inode, flushed, content, durable, entry, target, put,
                 collided>>

\* The power is cut: of each inode some chunks that were not synced are lost.
PowerCut ==
  /\ \E w \in FileWriters : save_at[w] # "idle"
  /\ \E w \in FileWriters : save_at[w] # "killed"
  /\ save_at' = [v \in FileWriters |-> "killed"]
  /\ \E lost \in SUBSET (1..FileChunks) :
       content' = [v \in FileWriters |->
                     [i \in 1..FileChunks |->
                        IF i \in lost THEN durable[v][i] ELSE content[v][i]]]
  /\ durable' = content'
  /\ UNCHANGED <<apart, drawn, temp_name, inode, flushed, entry, target, put, collided>>

AtomicNext ==
  \/ \E w \in FileWriters :
       \/ DrawCounter(w) \/ NameTemp(w) \/ OpenTemp(w) \/ WriteTemp(w) \/ SyncTemp(w)
       \/ RenameTemp(w) \/ UndoTemp(w) \/ KillWriter(w)
  \/ PowerCut

\* Whatever crashes in between, the target is a whole old file or a whole new one.
\* This is what write_file_atomic() promises.  Two writers with one temporary name
\* are the exception.
WholeFile ==
  collided \/ target = Nothing
  \/ \E w \in FileWriters : content[target] = [i \in 1..FileChunks |-> w]

\* Who was told TRUE has put its content there, and who was told FALSE has not; if
\* nobody was killed, no temporary file stays.
ToldTruly ==
  /\ \A w \in FileWriters :
       /\ save_at[w] = "true" => w \in put
       /\ save_at[w] = "false" => w \notin put
  /\ (~collided /\ \A w \in FileWriters : save_at[w] \in {"true", "false"})
       => entry = <<>>

AtomicInv == WholeFile /\ ToldTruly
-----------------------------------------------------------------------------
(***************************************************************************)
(* The directory watcher of dir_watcher.cpp on POSIX: a thread that takes  *)
(* a snapshot every 200 ms and tells a callback how it differs from the    *)
(* one before, and the files that change meanwhile.                        *)
(*                                                                         *)
(* The callback belongs to a program that keeps a copy of the directory:   *)
(* it has read everything when start() returned, and reads a file again    *)
(* when it is told that it was created or modified.  Names are numbers in  *)
(* the order of the snapshot's map.                                        *)
(***************************************************************************)

CONSTANTS
  MaxNames,        \* names that may be in the directory
  MaxChanges,      \* bound on the changes
  MaxWatches,      \* bound on the calls of start()
  Absent           \* no such file

ASSUME WatcherAssumption ==
  /\ MaxNames \in Nat /\ MaxChanges \in Nat /\ MaxWatches \in Nat
  /\ Absent \notin [is_dir : BOOLEAN, version : Nat, stamp : Nat]

VARIABLES
  dir,             \* per name: Absent, or [is_dir, version, stamp]
  changes,         \* changes so far
  snapshot, now,   \* what the thread saw last, and sees: per name, like dir
  unread,          \* the names the scan has yet to stat
  notices,         \* the names of which this round is still to tell
  watch_running,   \* running
  watch_at,        \* the thread: "none", "sleep", "scan", "tell" or "gone"
  stop_at,         \* stop(): "idle" or "join"
  starts,          \* calls of start()
  copy,            \* per name: what the program has read of it
  believed,        \* per name: the program was told, or has seen, that it exists
  stale,           \* history: names the snapshot kept from before the last start()
  hidden           \* history: names whose last change left size, time and inode alone

watcherVars == <<dir, changes, snapshot, now, unread, notices, watch_running, watch_at,
                 stop_at, starts, copy, believed, stale, hidden>>

WatchNames == 1..MaxNames
None == [n \in WatchNames |-> Absent]

WatcherInit ==
  /\ dir = None /\ changes = 0
  /\ snapshot = None /\ now = None /\ unread = {} /\ notices = {}
  /\ watch_running = FALSE /\ watch_at = "none" /\ stop_at = "idle" /\ starts = 0
  /\ copy = None /\ believed = [n \in WatchNames |-> FALSE]
  /\ stale = {} /\ hidden = {}

-----------------------------------------------------------------------------
(* The directory.  A change is seen by the time, the size and the inode, and *)
(* the time has a resolution of a second.                                    *)

Change(n, found, noticed) ==
  /\ changes < MaxChanges /\ changes' = changes + 1
  /\ dir' = [dir EXCEPT ![n] = found]
  /\ hidden' = IF noticed THEN hidden \ {n} ELSE hidden \cup {n}
  /\ UNCHANGED <<snapshot, now, unread, notices, watch_running, watch_at, stop_at, starts,
                 copy, believed, stale>>

CreateFile(n) ==
  /\ dir[n] = Absent
  /\ \E d \in BOOLEAN :
       Change(n, [is_dir |-> d, version |-> changes + 1, stamp |-> changes + 1], TRUE)

DeleteFile(n) ==
  /\ dir[n] # Absent
  /\ Change(n, Absent, TRUE)

ModifyFile(n) ==
  /\ dir[n] # Absent /\ ~dir[n].is_dir
  /\ \/ Change(n, [dir[n] EXCEPT !.version = changes + 1, !.stamp = changes + 1], TRUE)
     \/ Change(n, [dir[n] EXCEPT !.version = changes + 1], FALSE)

-----------------------------------------------------------------------------
(* start() and stop() *)

\* The baseline is taken before start() returns, on top of what is still in the
\* snapshot of an earlier run.
StartWatch ==
  /\ ~watch_running /\ watch_at = "none" /\ stop_at = "idle" /\ starts < MaxWatches
  /\ starts' = starts + 1 /\ watch_running' = TRUE /\ watch_at' = "sleep"
  /\ snapshot' = [n \in WatchNames |-> IF dir[n] = Absent THEN snapshot[n] ELSE dir[n]]
  /\ stale' = {n \in WatchNames : dir[n] = Absent /\ snapshot[n] # Absent}
  /\ copy' = dir /\ believed' = [n \in WatchNames |-> dir[n] # Absent]
  /\ hidden' = {}
  /\ UNCHANGED <<dir, changes, now, unread, notices, stop_at>>

StopWatch ==
  /\ watch_running
  /\ watch_running' = FALSE /\ stop_at' = "join"
  /\ UNCHANGED <<dir, changes, snapshot, now, unread, notices, watch_at, starts, copy,
                 believed, stale, hidden>>

WatchJoined ==
  /\ stop_at = "join" /\ watch_at = "gone"
  /\ stop_at' = "idle" /\ watch_at' = "none"
  /\ UNCHANGED <<dir, changes, snapshot, now, unread, notices, watch_running, starts, copy,
                 believed, stale, hidden>>

-----------------------------------------------------------------------------
(* posix_run_loop() *)

WakeUp ==
  /\ watch_at = "sleep"
  /\ IF watch_running THEN watch_at' = "scan" /\ unread' = WatchNames
       ELSE watch_at' = "gone" /\ UNCHANGED unread
  /\ UNCHANGED <<dir, changes, snapshot, now, notices, watch_running, stop_at, starts, copy,
                 believed, stale, hidden>>

\* scan_recursive(): one stat() after the other.
ScanNext ==
  /\ watch_at = "scan"
  /\ \E n \in unread :
       /\ now' = [now EXCEPT ![n] = dir[n]]
       /\ unread' = unread \ {n}
  /\ UNCHANGED <<dir, changes, snapshot, notices, watch_running, watch_at, stop_at, starts,
                 copy, believed, stale, hidden>>

\* Mutant: a file that was replaced by a newer one is not noticed.
DifferBySize(old, new) == FALSE

\* Same time, size and inode are taken for the same content.
Differ(old, new) == old.stamp # new.stamp

\* diff_and_dispatch() tells of what is new or differs - of a directory only that it is
\* new - and of what is gone.
Noted ==
  {n \in WatchNames :
     IF now[n] = Absent THEN snapshot[n] # Absent
     ELSE snapshot[n] = Absent \/ (Differ(snapshot[n], now[n]) /\ ~now[n].is_dir)}

Diff ==
  /\ watch_at = "scan" /\ unread = {}
  /\ IF watch_running THEN watch_at' = "tell" /\ notices' = Noted
       ELSE watch_at' = "gone" /\ UNCHANGED notices
  /\ UNCHANGED <<dir, changes, snapshot, now, unread, watch_running, stop_at, starts, copy,
                 believed, stale, hidden>>

\* What is gone comes last, and otherwise the order is that of the names.
ToldBefore(n, m) == IF now[n] = Absent THEN now[m] = Absent /\ n < m ELSE now[m] = Absent \/ n < m

\* The callback: the program reads the file again, or forgets it.  One notification
\* object is used for all of them, and that of a modified file keeps the is_dir of
\* the one before (which is left out).
Tell ==
  /\ watch_at = "tell"
  /\ \E n \in notices :
       /\ \A m \in notices \ {n} : ToldBefore(n, m)
       /\ believed' = [believed EXCEPT ![n] = now[n] # Absent]
       /\ copy' = [copy EXCEPT ![n] = IF now[n] = Absent THEN Absent ELSE dir[n]]
       /\ stale' = stale \ {n}
       /\ notices' = notices \ {n}
  /\ UNCHANGED <<dir, changes, snapshot, now, unread, watch_running, watch_at, stop_at,
                 starts, hidden>>

\* Mutant: the snapshot is taken anew instead of kept from the scan.
SwapAnew == snapshot' = dir

Swap == snapshot' = now

EndRound ==
  /\ watch_at = "tell" /\ notices = {}
  /\ Swap
  /\ watch_at' = "sleep" /\ now' = None
  /\ UNCHANGED <<dir, changes, unread, notices, watch_running, stop_at, starts, copy,
                 believed, stale, hidden>>

WatchThread == WakeUp \/ ScanNext \/ Diff \/ Tell \/ EndRound

WatcherNext ==
  \/ \E n \in WatchNames : CreateFile(n) \/ DeleteFile(n) \/ ModifyFile(n)
  \/ StartWatch \/ StopWatch \/ WatchJoined \/ WatchThread

-----------------------------------------------------------------------------
\* Between two rounds the program believes in just the files of the snapshot,
\* so that the next round can only tell it what it does not know: nothing is
\* created twice or removed twice.  The exception are files that went while the
\* watcher was stopped: start() leaves them in the snapshot, and they are
\* reported as removed although the program has never seen them.
ToldOnce ==
  watch_at = "sleep" =>
    \A n \in WatchNames : believed[n] # (snapshot[n] # Absent) => n \in stale

\* What the program has of a name is what is there.  Of a directory it only
\* knows that the name exists: it is not told when a directory takes the place
\* of something else between two rounds.
UpToDate(n) ==
  copy[n] = dir[n] \/ (believed[n] /\ dir[n] # Absent /\ dir[n].is_dir)

\* What the program has is what is there, or the next round will tell.
NothingMissed ==
  watch_at = "sleep" => \A n \in WatchNames \ (hidden \cup stale) :
    UpToDate(n) \/ (snapshot[n] = Absent) # (dir[n] = Absent) \/ Differ(snapshot[n], dir[n])

WatcherInv == ToldOnce /\ NothingMissed

\* When the directory comes to rest, the program's copy follows, although the
\* scan is not atomic and files change while the callback reads them.  Only a
\* change within the second that keeps the size is never seen (the comment at
\* dir_watcher.cpp:337 promises every change after start()).
CopyFollows ==
  <>[](watch_running => \A n \in WatchNames : UpToDate(n) \/ n \in hidden \cup stale)
=============================================================================
