------------------------------ MODULE LanShare ------------------------------
(***************************************************************************)
(* lanshare.cpp: one shared file, its row in the index, and those who use  *)
(* it over HTTP: the upload page, a page that deletes, and the cleanup.     *)
(*                                                                         *)
(* Every request has a thread of the HTTP server.  The store has a mutex   *)
(* for each statement, but nothing covers a file and its row together, nor *)
(* a look at the file and the write that follows it.  A file's content is  *)
(* the sequence of its chunks, and a digest is the content it was made of. *)
(***************************************************************************)
EXTENDS Integers, Sequences

CONSTANTS
  Uploaders,     \* browsers that upload, each a content of its own
  Keeper,        \* the one that deletes and cleans up
  Chunks,        \* chunks of an upload
  MaxRequests,   \* bound on the uploads, and on the keeper's requests
  Missing        \* no file, no row, no digest

\* Missing is no part of a content.
ASSUME ShareAssumption ==
  /\ Chunks \in Nat /\ MaxRequests \in Nat /\ Keeper \notin Uploaders
  /\ \A c \in Uploaders, n \in 0..Chunks : Missing # [i \in 1..n |-> <<c, i>>]

VARIABLES
  disk,          \* content of the file, or Missing
  row,           \* its record [size, sha256, complete, old], or Missing
  share_at,      \* per client: where its request is in the handler, or "idle"
  offset,        \* per uploader: the page's offset
  look,          \* per client: the size, or the row, the handler has read
  digest,        \* per client: record.sha256 before the upsert
  alone,         \* history: per uploader, nobody else sent anything meanwhile, and
                 \* no other content of its size was there
  torn,          \* history: a commit whose file changed after it looked has written its row
  requests       \* counted for the bound

shareVars == <<disk, row, share_at, offset, look, digest, alone, torn, requests>>

Clients == Uploaders \cup {Keeper}

Content(c) == [i \in 1..Chunks |-> <<c, i>>]

Size == IF disk = Missing THEN 0 ELSE Len(disk)

ShareInit ==
  /\ disk = Missing /\ row = Missing /\ torn = FALSE
  /\ share_at = [c \in Clients |-> "idle"]
  /\ offset = [c \in Uploaders |-> 0]
  /\ look = [c \in Clients |-> 0]
  /\ digest = [c \in Clients |-> Missing]
  /\ alone = [c \in Uploaders |-> FALSE]
  /\ requests = [c \in Clients |-> 0]

At(c, l) == share_at[c] = l
To(c, l) == share_at' = [share_at EXCEPT ![c] = l]

\* c begins: who is uploading now is not alone any more.
Begin(c, l) ==
  /\ At(c, "idle") /\ requests[c] < MaxRequests
  /\ requests' = [requests EXCEPT ![c] = @ + 1]
  /\ alone' = [u \in Uploaders |-> u = c /\ \A d \in Clients \ {c} : At(d, "idle")]
  /\ To(c, l)

-----------------------------------------------------------------------------
(* init(): the page announces a file. *)

AnnounceFile(c) ==
  /\ Begin(c, "init")
  /\ look' = [look EXCEPT ![c] = Size]
  /\ UNCHANGED <<disk, row, offset, digest, torn>>

\* Mutant: what is on the disk is always kept.
KeepOrTruncateAlways(c) == disk' = IF disk = Missing THEN <<>> ELSE disk

\* A file of just the announced size is kept, any other is started again.
KeepOrTruncate(c) == disk' = IF look[c] = Chunks THEN disk ELSE <<>>

InitFile(c) ==
  /\ At(c, "init") /\ KeepOrTruncate(c)
  /\ alone' = [alone EXCEPT ![c] = @ /\ (look[c] = Chunks => disk = Content(c))]
  /\ To(c, "init row")
  /\ UNCHANGED <<row, offset, look, digest, torn, requests>>

Upsert(size, sum, complete) ==
  row' = [size |-> size, sha256 |-> sum, complete |-> complete, old |-> FALSE]

InitRow(c) ==
  /\ At(c, "init row")
  /\ Upsert(Chunks, Missing, FALSE)
  /\ To(c, "status")
  /\ UNCHANGED <<disk, offset, look, digest, alone, torn, requests>>

\* status(): the page goes on from what was received.
Status(c) ==
  /\ At(c, "status")
  /\ offset' = [offset EXCEPT ![c] = IF Size > Chunks THEN 0 ELSE Size]
  /\ To(c, IF Size < Chunks \/ Size > Chunks THEN "put" ELSE "commit")
  /\ UNCHANGED <<disk, row, look, digest, alone, torn, requests>>

-----------------------------------------------------------------------------
(* write(): one chunk at an offset. *)

\* The page follows what the reply says was received.
Follow(c, received, ok) ==
  /\ offset' = IF ok \/ received <= Chunks THEN [offset EXCEPT ![c] = received] ELSE offset
  /\ To(c, IF ~ok /\ received > Chunks THEN "idle"
           ELSE IF received < Chunks THEN "put" ELSE "commit")

\* Mutant: the offset is not compared with the file.
AcceptedBlindly(c) == TRUE

Accepted(c) == offset[c] = Size

\* A chunk that does not start at the end of the file is refused with 409.
Put(c) ==
  /\ At(c, "put")
  /\ look' = [look EXCEPT ![c] = Size]
  /\ IF Accepted(c) THEN To(c, "write") /\ UNCHANGED offset ELSE Follow(c, Size, FALSE)
  /\ UNCHANGED <<disk, row, digest, alone, torn, requests>>

\* write_file() if the file was empty, append_file() if not; both create it.
WriteChunk(c) ==
  /\ At(c, "write")
  /\ disk' = IF look[c] = 0 \/ disk = Missing THEN <<Content(c)[offset[c] + 1]>>
             ELSE Append(disk, Content(c)[offset[c] + 1])
  /\ To(c, "measure")
  /\ UNCHANGED <<row, offset, look, digest, alone, torn, requests>>

Measure(c) ==
  /\ At(c, "measure")
  /\ look' = [look EXCEPT ![c] = Size]
  /\ To(c, "touch")
  /\ UNCHANGED <<disk, row, offset, digest, alone, torn, requests>>

\* touch() reads the row, and writes it in a second statement.
TouchRead(c) ==
  /\ At(c, "touch")
  /\ digest' = [digest EXCEPT ![c] = IF row = Missing THEN Missing ELSE row.sha256]
  /\ To(c, "touch row")
  /\ UNCHANGED <<disk, row, offset, look, alone, torn, requests>>

\* The reply may be lost: the page gives up, another client sends the chunk
\* again.
TouchRow(c) ==
  /\ At(c, "touch row")
  /\ Upsert(look[c], digest[c], FALSE)
  /\ \/ Follow(c, look[c], TRUE)
     \/ To(c, "put") /\ UNCHANGED offset
     \/ To(c, "idle") /\ UNCHANGED offset
  /\ UNCHANGED <<disk, look, digest, alone, torn, requests>>

-----------------------------------------------------------------------------
(* commit() *)

\* 404 without a file.
CommitLook(c) ==
  /\ At(c, "commit")
  /\ To(c, IF disk = Missing THEN "idle" ELSE "size")
  /\ UNCHANGED <<disk, row, offset, look, digest, alone, torn, requests>>

CommitSize(c) ==
  /\ At(c, "size")
  /\ look' = [look EXCEPT ![c] = Size]
  /\ To(c, "sum")
  /\ UNCHANGED <<disk, row, offset, digest, alone, torn, requests>>

CommitSum(c) ==
  /\ At(c, "sum")
  /\ digest' = [digest EXCEPT ![c] = disk]
  /\ To(c, "commit row")
  /\ UNCHANGED <<disk, row, offset, look, alone, torn, requests>>

CommitRow(c) ==
  /\ At(c, "commit row")
  /\ Upsert(look[c], digest[c], TRUE)
  /\ torn' = (disk # digest[c] \/ look[c] # Size)
  /\ To(c, "done")
  /\ UNCHANGED <<disk, offset, look, digest, alone, requests>>

\* The page has shown the digest.
Done(c) ==
  /\ At(c, "done") /\ To(c, "idle")
  /\ UNCHANGED <<disk, row, offset, look, digest, alone, torn, requests>>

-----------------------------------------------------------------------------
(* remove() and cleanup() *)

Delete(c) ==
  /\ Begin(c, "delete")
  /\ UNCHANGED <<disk, row, offset, look, digest, torn>>

\* cleanup() takes a list and goes by the ages in it.
CleanUp(c) ==
  /\ row # Missing /\ row.old
  /\ Begin(c, "delete")
  /\ UNCHANGED <<disk, row, offset, look, digest, torn>>

\* Mutant: the row first, the file afterwards.
RemoveNextRowFirst(c) ==
  \/ At(c, "delete") /\ row' = Missing /\ To(c, "delete row") /\ UNCHANGED disk
  \/ At(c, "delete row") /\ disk' = Missing /\ To(c, "idle") /\ UNCHANGED row

\* The file, then its row.
RemoveNext(c) ==
  \/ At(c, "delete") /\ disk' = Missing /\ To(c, "delete row") /\ UNCHANGED row
  \/ At(c, "delete row") /\ row' = Missing /\ To(c, "idle") /\ UNCHANGED disk

RemoveFile(c) ==
  /\ RemoveNext(c)
  /\ UNCHANGED <<offset, look, digest, alone, torn, requests>>

Age ==
  /\ row # Missing /\ ~row.old /\ row' = [row EXCEPT !.old = TRUE]
  /\ UNCHANGED <<disk, share_at, offset, look, digest, alone, torn, requests>>

ShareNext ==
  \/ \E c \in Uploaders :
       \/ AnnounceFile(c) \/ InitFile(c) \/ InitRow(c) \/ Status(c)
       \/ Put(c) \/ WriteChunk(c) \/ Measure(c) \/ TouchRead(c) \/ TouchRow(c)
       \/ CommitLook(c) \/ CommitSize(c) \/ CommitSum(c) \/ CommitRow(c) \/ Done(c)
  \/ Delete(Keeper) \/ CleanUp(Keeper) \/ RemoveFile(Keeper)
  \/ Age

-----------------------------------------------------------------------------
\* A handler has changed the file and not yet its row.
BetweenFileAndRow ==
  \E c \in Clients : share_at[c] \in {"init row", "measure", "touch", "touch row", "delete row"}

\* An upload that nobody crossed is the file, complete, under its own digest:
\* whatever was left of earlier uploads, and with replies that got lost.  The
\* exception is an earlier file of the same size, which init() takes for this
\* one: the page then reports it as uploaded.
AloneIsExact ==
  \A c \in Uploaders : At(c, "done") /\ alone[c] =>
    disk = Content(c) /\ row.complete /\ row.sha256 = disk /\ row.size = Len(disk)

\* A row that says "complete" tells the size and the digest of the file that is
\* there: every handler that changes the file takes the word back afterwards.
\* The exception is a commit whose file changed between its look and its row.
CompleteIsTrue ==
  row # Missing /\ ~BetweenFileAndRow /\ ~torn =>
    (row.complete => disk = row.sha256 /\ row.size = Size)

ShareInv == AloneIsExact /\ CompleteIsTrue
=============================================================================
