----------------------------- MODULE FileStore ------------------------------
(***************************************************************************)
(* One group's files on one node: the rows of its catalogue and the bytes  *)
(* on disk (ac-files/src/content.rs, blob.rs and store/mod.rs, and the     *)
(* commands of ac-node/src/ops/file.rs).  The daemon merges what peers     *)
(* list and downloads what is missing; a command of the CLI or the app     *)
(* adds, removes or verifies beside it.  SQLite has one writer at a time,  *)
(* but no lock spans a statement and the disk operation it belongs to.     *)
(*                                                                         *)
(* A file is the sequence of its halves, each named by the content it is   *)
(* of: <<h, h>> hashes to h, and no other sequence hashes to anything      *)
(* listed.  A file open for writing is followed when it is renamed.        *)
(*                                                                         *)
(* A longer-named definition just before the one it resembles is a mutated *)
(* form that nothing else uses.                                            *)
(***************************************************************************)
EXTENDS CatalogueRows

CONSTANTS
  Listed,       \* the entries peers may hand us
  Times,        \* the times a user's clock may show
  MaxSeq,       \* bounds the positions of the log while merges begin
  MaxEdits,     \* bounds the commands
  MaxMishaps    \* bounds the kills, broken streams and wrong bytes

ASSUME StoreAssumption ==
  /\ Listed \subseteq Entries /\ Times \subseteq Nat \ {0}
  /\ {MaxSeq, MaxEdits, MaxMishaps} \subseteq Nat

Part(p) == <<"part", p>>
Disk(p) == <<"disk", p>>
Places == {"part", "disk"} \X Paths
Nowhere == <<>>
Bytes == UNION {[1 .. n -> Hashes] : n \in 0 .. 3}
NoFile == <<0>>
Whole(h) == <<h, h>>

VARIABLES
  store,     \* rows, and the positions handed out and served
  files,     \* what is under each name on disk
  download,  \* the transfer under way
  cmd,       \* the command under way
  merging,   \* the merge under way: its transaction is open
  crossed,   \* paths one operation changed under another, or a kill left half changed
  edits, mishaps

vars == <<store, files, download, cmd, merging, crossed, edits, mishaps>>

NoDownload == [step |-> "none"]
NoCmd == [op |-> "none"]
NoMerge == [paths |-> {}]

Init ==
  /\ store = [rows |-> [p \in Paths |-> Absent], seq |-> 0, served |-> 0]
  /\ files = [x \in Places |-> NoFile]
  /\ download = NoDownload /\ cmd = NoCmd /\ merging = NoMerge
  /\ crossed = {} /\ edits = 0 /\ mishaps = 0

-----------------------------------------------------------------------------
(* The disk.                                                               *)
Exists(f, p) == f[Disk(p)] # NoFile
Unlinked(f, x) == [f EXCEPT ![x] = NoFile]
Renamed(f, x, y) == [f EXCEPT ![y] = f[x], ![x] = NoFile]

Length(bytes) == IF bytes = NoFile THEN 0 ELSE Len(bytes)

(* A write through a handle opened to append, or at its own position.      *)
Written(bytes, h, appends, i) ==
  IF appends \/ i > Len(bytes) THEN Append(bytes, h) ELSE [bytes EXCEPT ![i] = h]

(* Where an open file is after a rename or an unlink by somebody.          *)
Follow(at, x, y) == IF at = x THEN y ELSE IF at = y THEN Nowhere ELSE at

Holds(s, f, p) == s.rows[p].have /\ Exists(f, p)
OnDisk(s, f, p) == IsLive(s.rows[p]) /\ f[Disk(p)] = Whole(s.rows[p].hash)

-----------------------------------------------------------------------------
(* Who is at which path, and what a step does to paths others are at.      *)
PathsOf(op) == CASE op = "download" -> IF download = NoDownload THEN {} ELSE {download.path}
                 [] op = "cmd"      -> IF cmd = NoCmd THEN {} ELSE {cmd.path}
                 [] op = "merge"    -> merging.paths

Changed(p) == \/ store'.rows[p] # store.rows[p]
              \/ files'[Disk(p)] # files[Disk(p)] \/ files'[Part(p)] # files[Part(p)]

Crosses(op) ==
  crossed' = crossed \union
    {p \in Paths : /\ Changed(p)
                   /\ \E o \in {"download", "cmd", "merge"} \ {op} : p \in PathsOf(o)}

(* A merge is at several paths, and takes what is untrue of one to all.    *)
Tainted(paths) ==
  IF paths \intersect (crossed \union PathsOf("download") \union PathsOf("cmd")) # {}
  THEN crossed \union paths ELSE crossed

Free == merging = NoMerge    \* no other transaction is open
Edit == edits < MaxEdits /\ edits' = edits + 1
Mishap == mishaps < MaxMishaps /\ mishaps' = mishaps + 1

-----------------------------------------------------------------------------
(***************************************************************************)
(* merge, bytes included.  Moving bytes that are not there marks them as   *)
(* not held.  The rows are written with the files' new places before the   *)
(* transaction commits.                                                    *)
(***************************************************************************)
Displaced(n, p) ==
  LET row  == n.store.rows[p]
      away == ConflictName(p, row.hash)
      held == Holds(n.store, n.files, p)
  IN  [store |-> WriteRow(n.store, away, row, held),
       files |-> IF held THEN Renamed(n.files, Disk(p), Disk(away)) ELSE n.files]

OneKeptDropping(n, keep, drop) ==
  LET s == n.store
  IN  [store |-> Tombstone(s, drop, Larger(s.rows[drop].added, s.rows[keep].added)),
       files |-> Unlinked(n.files, Disk(drop))]

OneKept(n, keep, drop) ==
  LET s == n.store
      moves == Holds(s, n.files, drop) /\ ~s.rows[keep].have
      moved == IF moves THEN WriteRow(s, keep, s.rows[keep], TRUE) ELSE s
  IN  [store |-> Tombstone(moved, drop, Larger(s.rows[drop].added, s.rows[keep].added)),
       files |-> IF moves THEN Renamed(n.files, Disk(drop), Disk(keep))
                 ELSE IF s.rows[drop].have /\ s.rows[keep].have
                 THEN Unlinked(n.files, Disk(drop))
                 ELSE n.files]

Merged(n, e) ==
  LET row     == RowOf(e)
      local   == n.store.rows[e.path]
      settled == SettledRow(local, row)
      p       == SettledPath(e.path, local, row)
      have    == local.have /\ local.hash = settled.hash /\ p = e.path
      away    == IF Displaces(local, row) THEN Displaced(n, e.path) ELSE n
      written == IF p = e.path /\ Unchanged(local, settled) THEN away
                 ELSE [away EXCEPT !.store = WriteRow(away.store, p, settled, have)]
      twins   == Twins(written.store, p, settled.hash)
      q       == Twin(written.store, p, settled.hash)
      s       == written.store
  IN  IF Rejects(local, row) THEN n
      ELSE IF IsRemoved(settled) \/ twins = {} THEN written
      ELSE IF WinsHash(p, s.rows[p], q, s.rows[q]) THEN OneKept(written, p, q)
      ELSE OneKept(written, q, p)

Now == [store |-> store, files |-> files]

(* The files move while the transaction is open; a kill then keeps them    *)
(* moved and the rows as they were.                                        *)
MergeMoves(e) ==
  LET n == Merged(Now, e)
      paths == {p \in Paths : n.store.rows[p] # store.rows[p] \/ n.store.rows[p].hash = e.hash
                              \/ n.files[Disk(p)] # files[Disk(p)]}
      from == {p \in paths : Exists(files, p) /\ ~Exists(n.files, p)}
  IN  /\ Free /\ store.seq < MaxSeq /\ n # Now
      /\ files' = n.files
      /\ merging' = [paths |-> paths, store |-> n.store,
                     had |-> {h \in Hashes : \E p \in paths :
                                /\ OnDisk(store, files, p) /\ store.rows[p].have /\ store.rows[p].hash = h
                                /\ Twins(store, p, h) = {}}]
      /\ download' =
           IF \E p \in from : download # NoDownload /\ download.at = Disk(p)
           THEN [download EXCEPT !.at = Nowhere] ELSE download
      /\ UNCHANGED <<store, cmd, edits, mishaps>>
      /\ crossed' = Tainted(paths)

MergeCommits ==
  /\ merging # NoMerge
  /\ store' = merging.store /\ merging' = NoMerge
  /\ crossed' = Tainted(merging.paths)
  /\ UNCHANGED <<files, download, cmd, edits, mishaps>>

(* A peer reads our log to its end.                                        *)
ServeLog ==
  /\ Free /\ store.served # store.seq
  /\ store' = [store EXCEPT !.served = store.seq]
  /\ UNCHANGED <<files, download, cmd, merging, crossed, edits, mishaps>>

(* mark_have writes whatever row is under the path now.                    *)
Marked(p, have) ==
  IF store.rows[p] = Absent THEN store ELSE [store EXCEPT !.rows[p].have = have]

(* A peer asks for a file that the row claims and the disk does not have.  *)
ServeFile(p) ==
  /\ Free /\ IsLive(store.rows[p]) /\ store.rows[p].have /\ ~Exists(files, p)
  /\ store' = Marked(p, FALSE)
  /\ UNCHANGED <<files, download, cmd, merging, edits, mishaps>> /\ Crosses("serve")

-----------------------------------------------------------------------------
(***************************************************************************)
(* A download: what is staged is asked to be continued, the reply opens    *)
(* it, bytes arrive, it is put in place, marked as held, and the daemon's  *)
(* loop, told last, marks it again.                                        *)
(***************************************************************************)
Idle == UNCHANGED <<cmd, merging, edits>>

Fetch(p) ==
  /\ download = NoDownload /\ Free
  /\ IsLive(store.rows[p]) /\ ~store.rows[p].have
  /\ download' = [step |-> "asked", path |-> p, hash |-> store.rows[p].hash,
                  resume |-> Length(files[Part(p)]), at |-> Nowhere, got |-> <<>>]
  /\ UNCHANGED <<store, files, crossed, mishaps>> /\ Idle

Placed == [download EXCEPT !.step = "placed", !.at = Nowhere, !.got = <<>>, !.resume = 0]

(* The bytes were waiting among the imports and are moved here instead.    *)
FetchLocal ==
  /\ download # NoDownload /\ download.step = "asked" /\ Mishap
  /\ files' = [files EXCEPT ![Disk(download.path)] = Whole(download.hash)]
  /\ download' = Placed
  /\ UNCHANGED store /\ Idle /\ Crosses("download")

Reply ==
  LET x == Part(download.path)
      goes == download.resume > 0 /\ Length(files[x]) = download.resume
      had == IF goes THEN files[x] ELSE <<>>
  IN  /\ download # NoDownload /\ download.step = "asked"
      /\ files' = [files EXCEPT ![x] = had]
      /\ download' = [download EXCEPT !.step = "open", !.at = x, !.got = had,
                                      !.resume = Len(had)]
      /\ UNCHANGED <<store, mishaps>> /\ Idle /\ Crosses("download")

(* The peer sends the rest, of the content asked for or of another.        *)
Chunk(h) ==
  /\ download # NoDownload /\ download.step = "open" /\ Len(download.got) < 2
  /\ IF h = download.hash THEN UNCHANGED mishaps ELSE Mishap
  /\ download' = [download EXCEPT !.got = Append(download.got, h)]
  /\ files' = IF download.at = Nowhere THEN files
              ELSE [files EXCEPT ![download.at] =
                      Written(files[download.at], h, download.resume > 0, Len(download.got) + 1)]
  /\ UNCHANGED store /\ Idle /\ Crosses("download")

(* The stream breaks: what has arrived stays for the next attempt.         *)
Park ==
  /\ download # NoDownload /\ download.step \in {"asked", "open"} /\ Mishap
  /\ download' = NoDownload
  /\ UNCHANGED <<store, files, crossed>> /\ Idle

EndUnchecked ==
  LET x == Part(download.path)
      y == Disk(download.path)
  IN  /\ download # NoDownload /\ download.step = "open" /\ Len(download.got) >= 2
      /\ UNCHANGED <<store, mishaps>> /\ Idle
      /\ IF files[x] = NoFile
         THEN download' = NoDownload /\ UNCHANGED files
         ELSE download' = Placed /\ files' = Renamed(files, x, y)
      /\ Crosses("download")

EndParking ==
  LET x == Part(download.path)
      y == Disk(download.path)
  IN  /\ download # NoDownload /\ download.step = "open" /\ Len(download.got) >= 2
      /\ UNCHANGED <<store, mishaps>> /\ Idle
      /\ IF download.got # Whole(download.hash) \/ files[x] = NoFile
         THEN download' = NoDownload /\ UNCHANGED files
         ELSE download' = Placed /\ files' = Renamed(files, x, y)
      /\ Crosses("download")

(* All has arrived: bytes of another content are thrown away, and the name *)
(* to put in place may be gone.                                            *)
End ==
  LET x == Part(download.path)
      y == Disk(download.path)
  IN  /\ download # NoDownload /\ download.step = "open" /\ Len(download.got) >= 2
      /\ UNCHANGED <<store, mishaps>> /\ Idle
      /\ IF download.got # Whole(download.hash)
         THEN download' = NoDownload /\ files' = Unlinked(files, x)
         ELSE IF files[x] = NoFile
         THEN download' = NoDownload /\ UNCHANGED files
         ELSE download' = Placed /\ files' = Renamed(files, x, y)
      /\ Crosses("download")

MarkHeld ==
  /\ download # NoDownload /\ download.step = "placed" /\ Free
  /\ store' = Marked(download.path, TRUE)
  /\ download' = [download EXCEPT !.step = "held"]
  /\ UNCHANGED <<files, mishaps>> /\ Idle /\ Crosses("download")

BlobDone ==
  /\ download # NoDownload /\ download.step = "held" /\ Free
  /\ store' = Marked(download.path, TRUE)
  /\ download' = NoDownload
  /\ UNCHANGED <<files, mishaps>> /\ Idle /\ Crosses("download")

-----------------------------------------------------------------------------
(***************************************************************************)
(* add: the bytes are staged and the catalogue looked at, they are put in  *)
(* place, and the row is recorded, which looks at this path again.         *)
(***************************************************************************)
AddStage(p, h, at, force) ==
  LET row == store.rows[p]
      no  == Twins(store, p, h) # {} \/ (IsLive(row) /\ (row.hash = h \/ ~force))
      x   == Part(p)
  IN  /\ cmd = NoCmd /\ Edit
      /\ IF no THEN files' = Unlinked(files, x) /\ UNCHANGED cmd
         ELSE /\ files' = [files EXCEPT ![x] = Whole(h)]
              /\ cmd' = [op |-> "add", path |-> p, hash |-> h, at |-> at,
                         force |-> force, step |-> "staged"]
      /\ download' = IF no /\ download # NoDownload
                     THEN [download EXCEPT !.at = Follow(download.at, x, Nowhere)]
                     ELSE download
      /\ UNCHANGED <<store, merging, mishaps>> /\ Crosses("cmd")

AddCommit ==
  LET x == Part(cmd.path)
      y == Disk(cmd.path)
  IN  /\ cmd # NoCmd /\ cmd.op = "add" /\ cmd.step = "staged"
      /\ IF files[x] = NoFile THEN cmd' = NoCmd /\ UNCHANGED <<files, download>>
         ELSE /\ cmd' = [cmd EXCEPT !.step = "placed"] /\ files' = Renamed(files, x, y)
              /\ download' = IF download = NoDownload THEN download
                             ELSE [download EXCEPT !.at = Follow(download.at, x, y)]
      /\ UNCHANGED <<store, merging, edits, mishaps>> /\ Crosses("cmd")

AddRecord ==
  LET row == store.rows[cmd.path]
  IN  /\ cmd # NoCmd /\ cmd.op = "add" /\ cmd.step = "placed" /\ Free
      /\ store' = IF IsLive(row) /\ (row.hash = cmd.hash \/ ~cmd.force) THEN store
                  ELSE Record(store, cmd.path, cmd.hash, cmd.at)
      /\ cmd' = NoCmd
      /\ UNCHANGED <<files, download, merging, edits, mishaps>> /\ Crosses("cmd")

(* remove: the row first, then the bytes.                                  *)
Remove(p, at) ==
  /\ cmd = NoCmd /\ Free /\ Edit /\ IsLive(store.rows[p])
  /\ store' = RemoveRow(store, p, at)
  /\ cmd' = [op |-> "remove", path |-> p]
  /\ UNCHANGED <<files, download, merging, mishaps>> /\ Crosses("cmd")

RemoveBytes ==
  /\ cmd # NoCmd /\ cmd.op = "remove"
  /\ files' = Unlinked(files, Disk(cmd.path))
  /\ cmd' = NoCmd
  /\ download' = IF download = NoDownload THEN download
                 ELSE [download EXCEPT !.at = Follow(download.at, Disk(cmd.path), Nowhere)]
  /\ UNCHANGED <<store, merging, edits, mishaps>> /\ Crosses("cmd")

(* verify: a held row without its file is marked to be fetched again; a    *)
(* file with other bytes is only reported.                                 *)
Verify(p) ==
  /\ cmd = NoCmd /\ Edit
  /\ IsLive(store.rows[p]) /\ store.rows[p].have /\ ~Exists(files, p)
  /\ cmd' = [op |-> "verify", path |-> p]
  /\ UNCHANGED <<store, files, download, merging, crossed, mishaps>>

VerifyMark ==
  /\ cmd # NoCmd /\ cmd.op = "verify" /\ Free
  /\ store' = Marked(cmd.path, FALSE)
  /\ cmd' = NoCmd
  /\ UNCHANGED <<files, download, merging, edits, mishaps>> /\ Crosses("cmd")

-----------------------------------------------------------------------------
(***************************************************************************)
(* Kills.  The daemon comes back and may sweep the partials no missing row *)
(* could continue.                                                         *)
(***************************************************************************)
Unfinished == {p \in Paths : IsLive(store.rows[p]) /\ ~store.rows[p].have}

KillDaemon(sweep) ==
  LET kept == Unfinished \union PathsOf("cmd")
  IN  /\ Mishap
      /\ download' = NoDownload /\ merging' = NoMerge
      /\ crossed' = crossed \union merging.paths
      /\ files' = [x \in Places |-> IF sweep /\ x[1] = "part" /\ x[2] \notin kept
                                    THEN NoFile ELSE files[x]]
      /\ UNCHANGED <<store, cmd, edits>>

KillCommand ==
  /\ cmd # NoCmd /\ Mishap
  /\ cmd' = NoCmd
  /\ crossed' = IF cmd.op = "add" THEN crossed \union {cmd.path} ELSE crossed
  /\ UNCHANGED <<store, files, download, merging, edits>>

-----------------------------------------------------------------------------
Daemon ==
  \/ \E e \in Listed : MergeMoves(e)
  \/ MergeCommits \/ ServeLog
  \/ \E p \in Paths : ServeFile(p) \/ Fetch(p)
  \/ FetchLocal \/ Reply \/ Park \/ End \/ MarkHeld \/ BlobDone
  \/ \E h \in Hashes : Chunk(h)
  \/ \E sweep \in BOOLEAN : KillDaemon(sweep)

Commands ==
  \/ \E p \in Paths, h \in Hashes, at \in Times, force \in BOOLEAN :
       Len(p) = 1 /\ AddStage(p, h, at, force)
  \/ AddCommit \/ AddRecord
  \/ \E p \in Paths, at \in Times : Remove(p, at)
  \/ RemoveBytes
  \/ \E p \in Paths : Verify(p)
  \/ VerifyMark \/ KillCommand

Next == Daemon \/ Commands
Spec == Init /\ [][Next]_vars

(* A transaction ends, and the supervisor has what is missing fetched.     *)
Progress ==
  \/ MergeCommits \/ Reply \/ End \/ MarkHeld \/ BlobDone
  \/ download # NoDownload /\ download.step = "open" /\ Chunk(download.hash)
FairSpec == /\ Spec /\ WF_vars(Progress)
            /\ \A p \in Paths : SF_vars(Fetch(p))

-----------------------------------------------------------------------------
TypeOK ==
  /\ store.rows \in [Paths -> Row \union {Absent}]
  /\ store.seq \in Nat /\ store.served \in 0 .. store.seq
  /\ files \in [Places -> Bytes \union {NoFile}]
  /\ download = NoDownload \/
       /\ download.step \in {"asked", "open", "placed", "held"}
       /\ download.path \in Paths /\ download.hash \in Hashes
       /\ download.at \in Places \union {Nowhere} /\ download.got \in Bytes
  /\ cmd = NoCmd \/ (cmd.op \in {"add", "remove", "verify"} /\ cmd.path \in Paths)
  /\ merging.paths \subseteq Paths /\ crossed \subseteq Paths
  /\ edits \in 0 .. MaxEdits /\ mishaps \in 0 .. MaxMishaps

(* What a row claims to hold is on disk, whole and of the content it names *)
(* (the have column, mark_held, record, move_bytes), at every path where   *)
(* no operation is under way and none ever overlapped another or was       *)
(* killed halfway; killed downloads and removals are no exception.         *)
HeldIsOnDisk ==
  \A p \in Paths \ (crossed \union PathsOf("download") \union PathsOf("cmd")
                            \union PathsOf("merge")) :
    IsLive(store.rows[p]) /\ store.rows[p].have =>
      files[Disk(p)] = Whole(store.rows[p].hash)

(* A merge that finds the claims of its paths true never loses the only    *)
(* copy: content that was whole on disk under a live row is so afterwards  *)
(* as long as any live row has it (dedup, displaced rows).                 *)
MergeKeepsACopy ==
  [][(merging # NoMerge /\ merging' = NoMerge /\ store' = merging.store
        /\ merging.paths \intersect crossed = {}) =>
       \A h \in merging.had :
         (\E p \in Paths : IsLive(store'.rows[p]) /\ store'.rows[p].hash = h) =>
            \E p \in Paths : OnDisk(store', files', p) /\ store'.rows[p].hash = h]_vars

(* Whatever breaks a bounded number of times, and whatever a partial was   *)
(* left from, every live row's bytes are held in the end (staged_len,      *)
(* resume, the discard of wrong content).                                  *)
MissingArrive == <>[](\A p \in Paths : IsLive(store.rows[p]) => store.rows[p].have)
=============================================================================
