--------------------------- MODULE CatalogueRows ----------------------------
(***************************************************************************)
(* The rows of a group's file catalogue and the rules that settle two of   *)
(* them (crates/ac-files/src/store/row.rs and path.rs, and merge, record   *)
(* and remove of store/mod.rs), as functions of what one node stores.      *)
(*                                                                         *)
(* A hash is a number, for its place in the order of hashes, and a path is *)
(* a name, alone or with the hash of the content that lost it: <<n, h>> is *)
(* conflict_name of <<n>> and h.  Conflict names of conflict names, which  *)
(* take a user who adds other content under such a name, are left out, and *)
(* so are sizes, modification times and who added a file.  A time is a     *)
(* positive number and zero is no removal.                                 *)
(*                                                                         *)
(* A longer-named definition just before the one it resembles (Remove-     *)
(* RowQuietly before RemoveRow) is a mutated form that nothing else uses.  *)
(***************************************************************************)
EXTENDS Naturals, Sequences

CONSTANTS
  Names,         \* the paths users give to files
  Hashes,        \* the contents there are
  ConflictFirst  \* whether a.conflict-x.jpg sorts before a.jpg; not so of a.avi

ASSUME RowAssumption ==
  Names \subseteq Nat /\ Hashes \subseteq Nat \ {0} /\ ConflictFirst \in BOOLEAN

Paths == {<<n>> : n \in Names} \cup (Names \X Hashes)

ConflictName(path, hash) == <<path[1], hash>>

PathBefore(p, q) ==
  \/ p[1] < q[1]
  \/ p[1] = q[1] /\ Len(p) # Len(q) /\ (Len(p) > Len(q) <=> ConflictFirst)
  \/ p[1] = q[1] /\ Len(p) = 2 /\ Len(q) = 2 /\ p[2] < q[2]

-----------------------------------------------------------------------------
(***************************************************************************)
(* A row of the files table, and no row.  What is sent of one is its       *)
(* entry.                                                                  *)
(***************************************************************************)
Row == [hash : Hashes, added : Nat \ {0}, removed : Nat, have : BOOLEAN, seen : Nat]
Entries == [path : Paths, hash : Hashes, added : Nat \ {0}, removed : Nat]
Absent == [hash |-> 0, added |-> 0, removed |-> 0, have |-> FALSE, seen |-> 0]

EntryOf(p, row) == [path |-> p, hash |-> row.hash, added |-> row.added, removed |-> row.removed]
RowOf(e) == [hash |-> e.hash, added |-> e.added, removed |-> e.removed, have |-> FALSE, seen |-> 0]

IsRemoved(row) == row.removed # 0
IsLive(row) == row # Absent /\ ~IsRemoved(row)
Larger(i, j) == IF i > j THEN i ELSE j
Smaller(i, j) == IF i < j THEN i ELSE j
ChangedAt(row) == Larger(row.removed, row.added)

(***************************************************************************)
(* Which of two versions of one path is true, and which of two paths keeps *)
(* content the group holds twice.                                          *)
(***************************************************************************)
WinsPath(a, b) ==
  \/ ChangedAt(a) > ChangedAt(b)
  \/ ChangedAt(a) = ChangedAt(b) /\ a.hash > b.hash

WinsHash(p, a, q, b) ==
  \/ a.added < b.added
  \/ a.added = b.added /\ PathBefore(p, q)

-----------------------------------------------------------------------------
(***************************************************************************)
(* write_row, with a store of at least the fields rows and seq: the row    *)
(* takes the next position of the group's log.                             *)
(***************************************************************************)
WriteRow(s, p, row, have) ==
  [s EXCEPT !.seq = @ + 1,
            !.rows[p] = [row EXCEPT !.have = have, !.seen = s.seq + 1]]

(***************************************************************************)
(* merge's first half: what the rules make of an incoming row and the one  *)
(* stored under its path.                                                  *)
(***************************************************************************)
BothLive(local, row) == IsLive(local) /\ IsLive(row) /\ local.hash # row.hash

Rejects(local, row) ==
  /\ local # Absent /\ local.hash # row.hash /\ ~BothLive(local, row)
  /\ ~WinsPath(row, local)

Displaces(local, row) == BothLive(local, row) /\ WinsPath(row, local)

SettledRowIncoming(local, row) ==
  IF local # Absent /\ local.hash = row.hash
  THEN [row EXCEPT !.added = Smaller(@, local.added)]
  ELSE row

SettledRow(local, row) ==
  IF local # Absent /\ local.hash = row.hash
  THEN [row EXCEPT !.added = Smaller(@, local.added), !.removed = Larger(@, local.removed)]
  ELSE row

SettledPath(p, local, row) ==
  IF BothLive(local, row) /\ ~WinsPath(row, local) THEN ConflictName(p, row.hash) ELSE p

Unchanged(local, settled) ==
  /\ local.hash = settled.hash
  /\ local.added = settled.added /\ local.removed = settled.removed

(***************************************************************************)
(* Another live path with the same content, the one added first.           *)
(***************************************************************************)
Twins(s, p, hash) == {q \in Paths \ {p} : IsLive(s.rows[q]) /\ s.rows[q].hash = hash}

Twin(s, p, hash) ==
  CHOOSE q \in Twins(s, p, hash) :
    \A r \in Twins(s, p, hash) \ {q} : WinsHash(q, s.rows[q], r, s.rows[r])

(***************************************************************************)
(* merge's second half: of two live paths with one content, one keeps it   *)
(* and the other is tombstoned.  If only the dropped one has the bytes     *)
(* they are moved.                                                         *)
(***************************************************************************)
TombstoneInPlace(s, p, at) ==
  [s EXCEPT !.rows[p] = [@ EXCEPT !.removed = at, !.have = FALSE, !.seen = s.seq]]

Tombstone(s, p, at) == WriteRow(s, p, [s.rows[p] EXCEPT !.removed = at], FALSE)

KeepOne(s, keep, drop) ==
  LET moved == IF s.rows[drop].have /\ ~s.rows[keep].have
               THEN WriteRow(s, keep, s.rows[keep], TRUE) ELSE s
  IN  Tombstone(moved, drop, Larger(s.rows[drop].added, s.rows[keep].added))

DeduplicatedLoser(s, p) ==
  LET q == Twin(s, p, s.rows[p].hash)
  IN  IF Twins(s, p, s.rows[p].hash) = {} \/ WinsHash(p, s.rows[p], q, s.rows[q]) THEN s
      ELSE KeepOne(s, q, p)

Deduplicated(s, p) ==
  LET q == Twin(s, p, s.rows[p].hash)
  IN  IF Twins(s, p, s.rows[p].hash) = {} THEN s
      ELSE IF WinsHash(p, s.rows[p], q, s.rows[q]) THEN KeepOne(s, p, q)
      ELSE KeepOne(s, q, p)

Merge(s, e) ==
  LET row == RowOf(e)
      local == s.rows[e.path]
      settled == SettledRow(local, row)
      p == SettledPath(e.path, local, row)
      have == local.have /\ local.hash = settled.hash /\ p = e.path
      displaced == IF Displaces(local, row)
                   THEN WriteRow(s, ConflictName(e.path, local.hash), local, local.have)
                   ELSE s
      written == IF p = e.path /\ Unchanged(local, settled) THEN displaced
                 ELSE WriteRow(displaced, p, settled, have)
  IN  IF Rejects(local, row) THEN s
      ELSE IF IsRemoved(settled) THEN written
      ELSE Deduplicated(written, p)

(***************************************************************************)
(* record: a file whose bytes are in place.                                *)
(***************************************************************************)
Record(s, p, hash, at) ==
  WriteRow(s, p, [hash |-> hash, added |-> at, removed |-> 0, have |-> TRUE, seen |-> 0], TRUE)

(***************************************************************************)
(* remove: a tombstone, or, for a row that was never served, nothing at    *)
(* all; its position is spent either way.                                  *)
(***************************************************************************)
RemoveRowQuietly(s, p, at) ==
  IF s.rows[p].seen > s.served
  THEN [s EXCEPT !.rows[p] = Absent]
  ELSE Tombstone(s, p, at)

RemoveRow(s, p, at) ==
  IF s.rows[p].seen > s.served
  THEN [s EXCEPT !.seq = @ + 1, !.rows[p] = Absent]
  ELSE Tombstone(s, p, at)

(***************************************************************************)
(* What the digest covers: whether the bytes are held, and where the row   *)
(* stands in the log, are left out.                                        *)
(***************************************************************************)
View(rows) == [p \in Paths |-> EntryOf(p, rows[p])]

(***************************************************************************)
(* A group keeps one copy of any content: no two live rows have it.        *)
(***************************************************************************)
OneCopy(s) ==
  \A p, q \in Paths :
    IsLive(s.rows[p]) /\ IsLive(s.rows[q]) /\ s.rows[p].hash = s.rows[q].hash => p = q

=============================================================================
