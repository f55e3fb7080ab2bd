-------------------------- MODULE FileStoreProofs ---------------------------
(***************************************************************************)
(* A row that claims to hold its file does hold it, at every path that no  *)
(* two operations were at together and none was killed halfway, whatever   *)
(* peers list, for any names, contents, commands, kills and broken         *)
(* streams: HeldIsOnDisk of FileStore.                                     *)
(*                                                                         *)
(* The invariant says, of each path that nothing crossed, what each        *)
(* operation at it has in hand.  A step that changes a path crosses it if  *)
(* another operation is there, so each of them may be looked at alone.     *)
(*                                                                         *)
(* And a merge keeps a copy of what it found whole: MergeKeepsACopy, for   *)
(* peers that list under a conflict name the content it is named after.    *)
(***************************************************************************)
EXTENDS FileStore, WellFoundedInduction, TLAPS

-----------------------------------------------------------------------------
(***************************************************************************)
(* Of the row rules, the facts needed here; CatalogueSyncProofs proves     *)
(* them too, beside what the rules guarantee.                              *)
(***************************************************************************)

(***************************************************************************)
(* A path is a name, or a conflict name: a name and a number.              *)
(***************************************************************************)
LEMMA PathFields ==
  ASSUME NEW p \in Paths
  PROVE  /\ p[1] \in Nat /\ Len(p) \in {1, 2}
         /\ Len(p) = 1 => p = <<p[1]>>
         /\ Len(p) = 2 => p[2] \in Nat /\ p = <<p[1], p[2]>>
BY RowAssumption DEF RowAssumption, Paths

(***************************************************************************)
(* What a node stores of a group, as far as the rows go; it may have any   *)
(* other fields.                                                           *)
(***************************************************************************)
IsStore(s) ==
  /\ s = [f \in DOMAIN s |-> s[f]] /\ {"rows", "seq"} \subseteq DOMAIN s
  /\ s.rows \in [Paths -> Row \cup {Absent}]
  /\ s.seq \in Nat

(***************************************************************************)
(* A conflict name is a path, and none that a user gives.                  *)
(***************************************************************************)
LEMMA ConflictPath ==
  ASSUME NEW p \in Paths, NEW h \in Hashes
  PROVE  ConflictName(p, h) \in Paths /\ Len(ConflictName(p, h)) = 2
BY DEF Paths, ConflictName

(***************************************************************************)
(* A row, as opposed to no row.                                            *)
(***************************************************************************)
LEMMA RowsLive ==
  ASSUME NEW r \in Row \cup {Absent}
  PROVE  /\ IsLive(r) <=> r # Absent /\ r.removed = 0
         /\ r # Absent => r \in Row
         /\ r \in Row => r # Absent
         /\ r.hash \in Nat /\ r.removed \in Nat /\ r.seen \in Nat
         /\ IsRemoved(r) => r \in Row
<1>1. CASE r \in Row
  <2>1. r.hash \in Nat \ {0} /\ r.removed \in Nat /\ r.seen \in Nat
    BY <1>1, RowAssumption DEF RowAssumption, Row
  <2>2. r # Absent
    BY <2>1 DEF Absent
  <2> QED BY <1>1, <2>1, <2>2 DEF IsLive, IsRemoved
<1>2. CASE r = Absent
  <2>1. r.hash = 0 /\ r.removed = 0 /\ r.seen = 0
    BY <1>2 DEF Absent
  <2>2. r \notin Row
    BY <2>1, RowAssumption DEF RowAssumption, Row
  <2> QED BY <1>2, <2>1, <2>2 DEF IsLive, IsRemoved
<1> QED BY <1>1, <1>2

(***************************************************************************)
(* Of any live paths with one content there is one that keeps it: numbers  *)
(* have a least one, and the order of such paths is of numbers.            *)
(***************************************************************************)
LEMMA LeastNumber ==
  ASSUME NEW T \in SUBSET Nat, T # {}
  PROVE  \E x \in T : \A y \in T : x <= y
<1> DEFINE R == {ss \in Nat \X Nat : ss[1] < ss[2]}
<1>1. IsWellFoundedOn(R, Nat)
  BY NatLessThanWellFounded DEF OpToRel
<1>2. \A x, y \in Nat : x < y => <<x, y>> \in R
  OBVIOUS
<1> HIDE DEF R
<1>3. PICK x \in T : \A y \in T : ~(<<y, x>> \in R)
  BY <1>1, WFMin
<1>4. ASSUME NEW y \in T PROVE x <= y
  <2>1. x \in Nat /\ y \in Nat
    OBVIOUS
  <2>2. ~(y < x)
    BY <1>2, <1>3, <2>1
  <2> QED BY <2>1, <2>2
<1> QED BY <1>4

LEMMA LeastBy ==
  ASSUME NEW S, S # {}, NEW key \in [S -> Nat]
  PROVE  \E q \in S : \A r \in S : key[q] <= key[r]
<1>1. {key[q] : q \in S} \in SUBSET Nat /\ {key[q] : q \in S} # {}
  OBVIOUS
<1>2. PICK x \in {key[q] : q \in S} : \A y \in {key[q] : q \in S} : x <= y
  BY <1>1, LeastNumber
<1> QED BY <1>2

LEMMA TwinThere ==
  ASSUME NEW s, IsStore(s), NEW p \in Paths, NEW h, Twins(s, p, h) # {}
  PROVE  Twin(s, p, h) \in Twins(s, p, h)
<1> DEFINE S == Twins(s, p, h)
           rank(q) == IF (Len(q) = 1 <=> ConflictFirst) THEN 1 ELSE 0
           tail(q) == IF Len(q) = 2 THEN q[2] ELSE 0
<1>1. \A q \in S : q \in Paths /\ s.rows[q].added \in Nat /\ q[1] \in Nat /\ Len(q) \in {1, 2}
                   /\ rank(q) \in Nat /\ tail(q) \in Nat
  <2>1. ASSUME NEW q \in S PROVE q \in Paths /\ s.rows[q] \in Row
    BY RowsLive DEF Twins, IsStore
  <2> QED BY <2>1, PathFields DEF Row
<1> HIDE DEF S
<1>2. PICK a \in S : \A r \in S : s.rows[a].added <= s.rows[r].added
  <2> DEFINE key == [q \in S |-> s.rows[q].added]
  <2>1. key \in [S -> Nat] /\ \A q \in S : key[q] = s.rows[q].added
    BY <1>1
  <2> HIDE DEF key
  <2> QED BY <2>1, LeastBy DEF S
<1> DEFINE S1 == {r \in S : s.rows[r].added = s.rows[a].added}
<1>3. PICK b \in S1 : \A r \in S1 : b[1] <= r[1]
  <2> DEFINE key == [q \in S1 |-> q[1]]
  <2>1. key \in [S1 -> Nat] /\ (\A q \in S1 : key[q] = q[1]) /\ S1 # {}
    BY <1>1
  <2> HIDE DEF key, S1
  <2> QED BY <2>1, LeastBy
<1> DEFINE S2 == {r \in S1 : r[1] = b[1]}
<1>4. PICK c \in S2 : \A r \in S2 : rank(c) <= rank(r)
  <2> DEFINE key == [q \in S2 |-> rank(q)]
  <2>1. key \in [S2 -> Nat] /\ (\A q \in S2 : key[q] = rank(q)) /\ S2 # {}
    BY <1>1
  <2> HIDE DEF key, S2, rank
  <2> QED BY <2>1, LeastBy
<1> DEFINE S3 == {r \in S2 : rank(r) = rank(c)}
<1>5. PICK d \in S3 : \A r \in S3 : tail(d) <= tail(r)
  <2> DEFINE key == [q \in S3 |-> tail(q)]
  <2>1. key \in [S3 -> Nat] /\ (\A q \in S3 : key[q] = tail(q)) /\ S3 # {}
    BY <1>1
  <2> HIDE DEF key, S3, tail
  <2> QED BY <2>1, LeastBy
<1>6. d \in S
  OBVIOUS
<1>7. ASSUME NEW r \in S \ {d} PROVE WinsHash(d, s.rows[d], r, s.rows[r])
  <2>1. /\ d \in Paths /\ r \in Paths /\ s.rows[d].added \in Nat /\ s.rows[r].added \in Nat
        /\ d[1] \in Nat /\ r[1] \in Nat /\ Len(d) \in {1, 2} /\ Len(r) \in {1, 2}
    BY <1>1, <1>6
  <2>2. CASE r \notin S1
    BY <1>2, <2>1, <2>2 DEF WinsHash
  <2>3. CASE r \in S1 /\ r \notin S2
    <3>1. s.rows[d].added = s.rows[r].added /\ d[1] < r[1]
      BY <1>3, <2>1, <2>3
    <3> QED BY <3>1 DEF WinsHash, PathBefore
  <2>4. CASE r \in S2 /\ r \notin S3
    <3>1. s.rows[d].added = s.rows[r].added /\ d[1] = r[1] /\ rank(d) < rank(r)
      BY <1>1, <1>4, <2>1, <2>4
    <3>2. rank(d) = 0 /\ rank(r) = 1
      BY <3>1
    <3>3. CASE ConflictFirst
      <4>1. Len(d) = 2 /\ Len(r) = 1
        BY <2>1, <3>2, <3>3
      <4> QED BY <3>1, <3>3, <4>1 DEF WinsHash, PathBefore
    <3>4. CASE ~ConflictFirst
      <4>1. Len(d) = 1 /\ Len(r) = 2
        BY <2>1, <3>2, <3>4
      <4> QED BY <3>1, <3>4, <4>1 DEF WinsHash, PathBefore
    <3> QED BY <3>3, <3>4
  <2>5. CASE r \in S3
    <3>1. s.rows[d].added = s.rows[r].added /\ d[1] = r[1] /\ rank(d) = rank(r)
          /\ tail(d) <= tail(r)
      BY <1>5, <2>5
    <3>2. Len(d) = Len(r)
      BY <2>1, <3>1
    <3>3. Len(d) = 2 /\ Len(r) = 2 /\ d[2] # r[2]
      BY <2>1, <3>1, <3>2, PathFields
    <3>4. d[2] < r[2]
      BY <2>1, <3>1, <3>3, PathFields
    <3> QED BY <3>1, <3>3, <3>4 DEF WinsHash, PathBefore
  <2> QED BY <2>2, <2>3, <2>4, <2>5
<1> QED BY <1>6, <1>7 DEF S, Twin

(***************************************************************************)
(* The row a merge settles on is a row of the entry's content.             *)
(***************************************************************************)
LEMMA SettledType ==
  ASSUME NEW s, IsStore(s), NEW e \in Entries
  PROVE  LET local == s.rows[e.path]
             settled == SettledRow(local, RowOf(e))
         IN  /\ RowOf(e) \in Row /\ RowOf(e).hash = e.hash
             /\ settled \in Row /\ settled.hash = e.hash
             /\ IsRemoved(local) /\ local.hash = e.hash => IsRemoved(settled)
             /\ local.hash # e.hash => settled = RowOf(e)
<1> DEFINE local == s.rows[e.path]
           row == RowOf(e)
           added == Smaller(row.added, local.added)
           removed == Larger(row.removed, local.removed)
<1>1. row \in Row /\ row.hash = e.hash
  BY DEF RowOf, Row, Entries
<1>2. local \in Row \cup {Absent}
  BY DEF IsStore, Entries
<1>3. CASE local # Absent /\ local.hash = row.hash
  <2>1. PICK r \in Row : r = row
    BY <1>1
  <2>2. /\ row.added \in Nat \ {0} /\ local.added \in Nat \ {0}
        /\ row.removed \in Nat /\ local.removed \in Nat
    BY <1>1, <1>2, <1>3 DEF Row
  <2>3. added \in Nat \ {0} /\ removed \in Nat /\ (local.removed # 0 => removed # 0)
    BY <2>2 DEF Smaller, Larger
  <2> DEFINE new == [r EXCEPT !.added = added, !.removed = removed]
  <2>4. SettledRow(local, row) = new
    BY <1>3, <2>1 DEF SettledRow
  <2> HIDE DEF added, removed, local, row
  <2>5. new \in Row
    BY <2>3 DEF Row
  <2>6. new.hash = r.hash /\ new.removed = removed
    BY DEF Row
  <2> HIDE DEF new
  <2>7. IsRemoved(local) => IsRemoved(new)
    BY <2>3, <2>6 DEF IsRemoved
  <2> QED BY <1>1, <1>3, <2>1, <2>4, <2>5, <2>6, <2>7 DEF local, row
<1>4. CASE ~(local # Absent /\ local.hash = row.hash)
  <2>1. SettledRow(local, row) = row
    BY <1>4 DEF SettledRow
  <2>2. IsRemoved(local) => local # Absent
    BY DEF IsRemoved, Absent
  <2> HIDE DEF local, row
  <2> QED BY <1>1, <1>4, <2>1, <2>2 DEF local, row
<1> QED BY <1>3, <1>4

-----------------------------------------------------------------------------
Stores == [rows : [Paths -> Row \cup {Absent}], seq : Nat, served : Nat]
Disks == [Places -> Seq(Nat)]
Downloads == [step : {"asked", "open", "placed", "held"}, path : Paths, hash : Hashes,
              resume : Nat, at : Places \cup {Nowhere}, got : Seq(Nat)]
Adds == [op : {"add"}, path : Paths, hash : Hashes, at : Nat \ {0}, force : BOOLEAN,
         step : {"staged", "placed"}]
Others == [op : {"remove", "verify"}, path : Paths]
Merges == [paths : SUBSET Paths, store : Stores, had : SUBSET Hashes]

StatePart ==
  /\ store \in Stores /\ files \in Disks /\ crossed \subseteq Paths
  /\ download = NoDownload \/
       /\ download \in Downloads /\ download.got # NoFile
       /\ download.at \in {Nowhere, Part(download.path), Disk(download.path)}
  /\ cmd = NoCmd \/ cmd \in Adds \/ cmd \in Others
  /\ merging = NoMerge \/
       /\ merging \in Merges
       /\ \A p \in Paths \ merging.paths : merging.store.rows[p] = store.rows[p]

(***************************************************************************)
(* Who is at path p.                                                       *)
(***************************************************************************)
Downloading(p) == download # NoDownload /\ download.path = p
Commanded(p) == cmd # NoCmd /\ cmd.path = p
Placing(p) == Commanded(p) /\ cmd.op = "add" /\ cmd.step = "placed"

(***************************************************************************)
(* What a row claims is true of the file at its path.                      *)
(***************************************************************************)
RowTrue(row, file) == IsLive(row) /\ row.have => file = Whole(row.hash)

(* What the download at a path knows of its row, partial and file.         *)
DownloadTrue(d, row, part, file) ==
  /\ IsLive(row) /\ row.hash = d.hash
  /\ d.step \in {"asked", "open", "placed"} => ~row.have
  /\ d.step = "open" => d.at = Part(d.path) /\ part = d.got
  /\ d.step \in {"placed", "held"} => file = Whole(d.hash)

(* What the command at a path knows of it.  That a held file is missing    *)
(* verify can see only while a merge has it moved.                         *)
CommandTrue(c, row, part, file, paths) ==
  /\ c.op = "add" => /\ ~IsLive(row) \/ (row.hash # c.hash /\ c.force)
                     /\ c.step = "staged" => part = Whole(c.hash)
                     /\ c.step = "placed" => file = Whole(c.hash)
  /\ c.op = "remove" => ~IsLive(row)
  /\ c.op = "verify" => c.path \in paths

PathTrue(p) ==
  /\ p \in merging.paths =>
       RowTrue(merging.store.rows[p], files[Disk(p)]) /\ ~Downloading(p)
  /\ p \notin merging.paths /\ ~Placing(p) => RowTrue(store.rows[p], files[Disk(p)])
  /\ Downloading(p) => DownloadTrue(download, store.rows[p], files[Part(p)], files[Disk(p)])
  /\ Commanded(p) =>
       CommandTrue(cmd, store.rows[p], files[Part(p)], files[Disk(p)], merging.paths)

PathPart == \A p \in Paths \ crossed : PathTrue(p)

FInv == StatePart /\ PathPart

-----------------------------------------------------------------------------
(***************************************************************************)
(* Places, rows and stores.                                                *)
(***************************************************************************)
LEMMA PlacesApart ==
  ASSUME NEW p \in Paths, NEW q \in Paths
  PROVE  /\ Part(p) \in Places /\ Disk(p) \in Places /\ Part(p) # Disk(q)
         /\ (Part(p) = Part(q) => p = q) /\ (Disk(p) = Disk(q) => p = q)
         /\ Part(p) # Nowhere /\ Disk(p) # Nowhere
  BY DEF Part, Disk, Places, Nowhere

LEMMA StoreRows ==
  ASSUME NEW s \in Stores
  PROVE  /\ IsStore(s) /\ s.rows \in [Paths -> Row \cup {Absent}] /\ s.seq \in Nat /\ s.served \in Nat
  BY DEF Stores, IsStore

(***************************************************************************)
(* write_row: one row is there, as held as it is said to be.               *)
(***************************************************************************)
Put(s, t, p, row, have) ==
  /\ t \in Stores
  /\ \A q \in Paths \ {p} : t.rows[q] = s.rows[q]
  /\ t.rows[p] \in Row /\ t.rows[p].hash = row.hash /\ t.rows[p].removed = row.removed
  /\ t.rows[p].have = have

LEMMA WriteRowPuts ==
  ASSUME NEW s \in Stores, NEW p \in Paths, NEW row \in Row, NEW have \in BOOLEAN,
         NEW t, t = WriteRow(s, p, row, have)
  PROVE  Put(s, t, p, row, have)
<1>1. PICK n \in Nat : n = s.seq + 1
  BY StoreRows
<1>2. PICK new : new = [row EXCEPT !.have = have, !.seen = n]
  OBVIOUS
<1>3. /\ new \in Row /\ new.hash = row.hash /\ new.removed = row.removed /\ new.have = have
  BY <1>2 DEF Row
<1>4. t = [rows |-> [s.rows EXCEPT ![p] = new], seq |-> n, served |-> s.served]
  BY <1>1, <1>2 DEF WriteRow, Stores
<1>5. t.rows = [s.rows EXCEPT ![p] = new] /\ t \in Stores
  BY <1>3, <1>4, StoreRows DEF Stores
<1>6. t.rows[p] = new /\ \A q \in Paths \ {p} : t.rows[q] = s.rows[q]
  BY <1>5, StoreRows
<1> QED BY <1>3, <1>5, <1>6 DEF Put

Buried(s, t, p, at) ==
  /\ t \in Stores
  /\ \A q \in Paths \ {p} : t.rows[q] = s.rows[q]
  /\ t.rows[p] \in Row /\ t.rows[p].hash = s.rows[p].hash /\ t.rows[p].removed = at
  /\ t.rows[p].have = FALSE

LEMMA TombstonePuts ==
  ASSUME NEW s \in Stores, NEW p \in Paths, s.rows[p] \in Row, NEW at \in Nat,
         NEW t, t = Tombstone(s, p, at)
  PROVE  Buried(s, t, p, at)
<1>1. PICK row : row = [s.rows[p] EXCEPT !.removed = at]
  OBVIOUS
<1>2. row \in Row /\ row.hash = s.rows[p].hash /\ row.removed = at
  BY <1>1 DEF Row
<1>3. t = WriteRow(s, p, row, FALSE)
  BY <1>1 DEF Tombstone
<1>4. PICK no \in BOOLEAN : no = FALSE
  OBVIOUS
<1>5. Put(s, t, p, row, no)
  BY <1>2, <1>3, <1>4, WriteRowPuts
<1> QED BY <1>2, <1>4, <1>5 DEF Put, Buried

-----------------------------------------------------------------------------
(***************************************************************************)
(* What a merge does to rows and bytes: where the claims of the paths it   *)
(* is at were true, they are true of what it leaves.                       *)
(***************************************************************************)
Kept == [store : Stores, files : Disks]

Same(n, m, p) == m.store.rows[p] = n.store.rows[p] /\ m.files[Disk(p)] = n.files[Disk(p)]

ClaimTrue(n, p) == RowTrue(n.store.rows[p], n.files[Disk(p)])

PartsKept(n, m) == \A p \in Paths : m.files[Part(p)] = n.files[Part(p)]

LEMMA SameClaim ==
  ASSUME NEW n, NEW m, NEW p, Same(n, m, p)
  PROVE  ClaimTrue(m, p) <=> ClaimTrue(n, p)
  BY DEF Same, ClaimTrue

LEMMA KeptFields ==
  ASSUME NEW n \in Kept
  PROVE  /\ n.store \in Stores /\ n.files \in Disks
         /\ IsStore(n.store) /\ n.store.rows \in [Paths -> Row \cup {Absent}]
  BY StoreRows DEF Kept

Moved(f, g, p, q) ==
  /\ g \in Disks /\ g[Disk(q)] = f[Disk(p)] /\ g[Disk(p)] = NoFile
  /\ \A r \in Paths : r # p /\ r # q => g[Disk(r)] = f[Disk(r)]
  /\ \A r \in Paths : g[Part(r)] = f[Part(r)]

LEMMA RenamedDisk ==
  ASSUME NEW f \in Disks, NEW p \in Paths, NEW q \in Paths, p # q,
         NEW g, g = Renamed(f, Disk(p), Disk(q))
  PROVE  Moved(f, g, p, q)
<1>1. NoFile \in Seq(Nat)
  BY DEF NoFile
<1>2. /\ \A r \in Paths : Part(r) \in Places /\ Disk(r) \in Places
      /\ \A r \in Paths : Part(r) # Disk(p) /\ Part(r) # Disk(q)
      /\ \A r \in Paths : (r # p => Disk(r) # Disk(p)) /\ (r # q => Disk(r) # Disk(q))
  BY PlacesApart
<1> QED BY <1>1, <1>2 DEF Renamed, Disks, Moved

Lost(f, g, p) ==
  /\ g \in Disks
  /\ \A r \in Paths : r # p => g[Disk(r)] = f[Disk(r)]
  /\ \A r \in Paths : g[Part(r)] = f[Part(r)]

LEMMA UnlinkedDisk ==
  ASSUME NEW f \in Disks, NEW p \in Paths, NEW g, g = Unlinked(f, Disk(p))
  PROVE  Lost(f, g, p)
<1>1. NoFile \in Seq(Nat)
  BY DEF NoFile
<1>2. /\ \A r \in Paths : Part(r) \in Places /\ Disk(r) \in Places
      /\ \A r \in Paths : Part(r) # Disk(p) /\ (r # p => Disk(r) # Disk(p))
  BY PlacesApart
<1> QED BY <1>1, <1>2 DEF Unlinked, Disks, Lost

LEMMA RenamedItself ==
  ASSUME NEW f \in Disks, NEW p \in Paths, NEW g, g = Renamed(f, Disk(p), Disk(p))
  PROVE  /\ g \in Disks
         /\ \A r \in Paths \ {p} : g[Disk(r)] = f[Disk(r)]
         /\ \A r \in Paths : g[Part(r)] = f[Part(r)]
<1>1. NoFile \in Seq(Nat)
  BY DEF NoFile
<1>2. /\ \A r \in Paths : Part(r) \in Places /\ Disk(r) \in Places
      /\ \A r \in Paths : Part(r) # Disk(p) /\ (r # p => Disk(r) # Disk(p))
  BY PlacesApart
<1> QED BY <1>1, <1>2 DEF Renamed, Disks

(***************************************************************************)
(* merge's first half, when the path is lost: its row and its bytes go to  *)
(* a conflict name.                                                        *)
(***************************************************************************)
MovedAway(n, d, p, away) ==
  /\ d \in Kept /\ away \in Paths /\ PartsKept(n, d)
  /\ d.store.rows[away] \in Row /\ d.store.rows[away].hash = n.store.rows[p].hash
  /\ \A q \in Paths : q # p /\ q # away => Same(n, d, q)
  /\ away # p /\ ClaimTrue(n, p) => ClaimTrue(d, away)
  /\ IsLive(d.store.rows[away])
  /\ away # p /\ Holds(n.store, n.files, p) =>
       d.store.rows[away].have /\ d.files[Disk(away)] = n.files[Disk(p)]

LEMMA DisplacedEffect ==
  ASSUME NEW n \in Kept, NEW p \in Paths, IsLive(n.store.rows[p]),
         NEW away, away = ConflictName(p, n.store.rows[p].hash),
         NEW d, d = Displaced(n, p)
  PROVE  MovedAway(n, d, p, away)
<1>1. PICK row : row = n.store.rows[p]
  OBVIOUS
<1>2. row \in Row /\ row.hash \in Hashes /\ row.have \in BOOLEAN
  <2>1. row \in Row
    BY <1>1, KeptFields, RowsLive
  <2> QED BY <2>1 DEF Row
<1>3. away \in Paths
  BY <1>1, <1>2, ConflictPath
<1>4. PICK held \in BOOLEAN : held = Holds(n.store, n.files, p)
  BY <1>1, <1>2 DEF Holds, Exists
<1>5. /\ d.store = WriteRow(n.store, away, row, held)
      /\ d.files = IF held THEN Renamed(n.files, Disk(p), Disk(away)) ELSE n.files
      /\ d = [store |-> d.store, files |-> d.files]
  BY <1>1, <1>4 DEF Displaced
<1>6. Put(n.store, d.store, away, row, held)
  BY <1>2, <1>3, <1>5, KeptFields, WriteRowPuts
<1>7. /\ d.files \in Disks /\ PartsKept(n, d)
      /\ \A q \in Paths \ {p, away} : d.files[Disk(q)] = n.files[Disk(q)]
      /\ held /\ away # p => d.files[Disk(away)] = n.files[Disk(p)]
  <2>1. CASE ~held
    BY <1>5, <2>1, KeptFields DEF PartsKept
  <2>2. CASE held /\ away # p
    <3>1. d.files = Renamed(n.files, Disk(p), Disk(away)) /\ n.files \in Disks /\ p # away
      BY <1>5, <2>2, KeptFields
    <3>2. PICK f, g : f = n.files /\ f \in Disks /\ g = Renamed(f, Disk(p), Disk(away))
      BY <3>1
    <3>3. Moved(f, g, p, away)
      BY <1>3, <3>1, <3>2, RenamedDisk
    <3> QED BY <2>2, <3>1, <3>2, <3>3 DEF PartsKept, Moved
  <2>3. CASE held /\ away = p
    <3>1. d.files = Renamed(n.files, Disk(p), Disk(p))
      BY <1>5, <2>3
    <3> QED BY <2>3, <3>1, KeptFields, RenamedItself DEF PartsKept
  <2> QED BY <2>1, <2>2, <2>3
<1>8. ASSUME away # p, ClaimTrue(n, p) PROVE ClaimTrue(d, away)
  <2>1. held => n.files[Disk(p)] = Whole(row.hash)
    BY <1>1, <1>4, <1>8 DEF Holds, ClaimTrue, RowTrue
  <2> QED BY <1>6, <1>7, <1>8, <2>1 DEF Put, ClaimTrue, RowTrue
<1>9. d \in Kept
  BY <1>5, <1>6, <1>7 DEF Put, Kept
<1>10. /\ IsLive(d.store.rows[away])
       /\ away # p /\ Holds(n.store, n.files, p) =>
            d.store.rows[away].have /\ d.files[Disk(away)] = n.files[Disk(p)]
  <2>1. row.removed = 0
    BY <1>1, KeptFields, RowsLive
  <2>2. IsLive(d.store.rows[away])
    BY <1>6, <2>1, RowsLive DEF Put
  <2> QED BY <1>4, <1>6, <1>7, <2>2 DEF Put
<1> QED BY <1>1, <1>3, <1>6, <1>7, <1>8, <1>9, <1>10 DEF Put, Same, MovedAway

(***************************************************************************)
(* merge's second half: one of two paths with one content keeps it, with   *)
(* the bytes of whichever had them.                                        *)
(***************************************************************************)
Joined(n, m, keep, drop, h) ==
  /\ m \in Kept /\ PartsKept(n, m)
  /\ \A q \in Paths : q # keep /\ q # drop => Same(n, m, q)
  /\ m.store.rows[keep].hash = h /\ m.store.rows[drop].hash = h
  /\ ClaimTrue(n, keep) /\ ClaimTrue(n, drop) => ClaimTrue(m, keep) /\ ClaimTrue(m, drop)
  /\ IsLive(m.store.rows[keep])
  /\ n.store.rows[keep].have => m.files[Disk(keep)] = n.files[Disk(keep)]
  /\ Holds(n.store, n.files, drop) /\ ~n.store.rows[keep].have =>
       m.files[Disk(keep)] = n.files[Disk(drop)]

LEMMA OneKeptEffect ==
  ASSUME NEW n \in Kept, NEW keep \in Paths, NEW drop \in Paths, keep # drop, NEW h,
         IsLive(n.store.rows[keep]), n.store.rows[keep].hash = h,
         IsLive(n.store.rows[drop]), n.store.rows[drop].hash = h,
         NEW m, m = OneKept(n, keep, drop)
  PROVE  Joined(n, m, keep, drop, h)
<1> DEFINE s == n.store
<1>1. /\ s \in Stores /\ s.rows[keep] \in Row /\ s.rows[drop] \in Row
      /\ s.rows[keep].have \in BOOLEAN /\ s.rows[drop].have \in BOOLEAN
      /\ s.rows[keep].added \in Nat \ {0} /\ s.rows[drop].added \in Nat \ {0}
  <2>1. s \in Stores /\ s.rows[keep] \in Row /\ s.rows[drop] \in Row
    BY KeptFields, RowsLive
  <2> QED BY <2>1 DEF Row
<1>2. PICK at : at = Larger(s.rows[drop].added, s.rows[keep].added)
  OBVIOUS
<1>3. at \in Nat /\ at # 0
  BY <1>1, <1>2 DEF Larger
<1>4. PICK moves \in BOOLEAN : moves = (Holds(s, n.files, drop) /\ ~s.rows[keep].have)
  BY <1>1 DEF Holds, Exists
<1>5. PICK moved : moved = IF moves THEN WriteRow(s, keep, s.rows[keep], TRUE) ELSE s
  OBVIOUS
<1>6. /\ moved \in Stores /\ \A q \in Paths \ {keep} : moved.rows[q] = s.rows[q]
      /\ moved.rows[keep] \in Row /\ moved.rows[keep].hash = h
      /\ moved.rows[keep].removed = s.rows[keep].removed
      /\ ~moves => moved.rows[keep] = s.rows[keep]
  <2>1. CASE moves
    <3>1. PICK yes \in BOOLEAN : yes = TRUE
      OBVIOUS
    <3>2. Put(s, moved, keep, s.rows[keep], yes)
      BY <1>1, <1>5, <2>1, <3>1, WriteRowPuts
    <3> QED BY <2>1, <3>2 DEF Put
  <2>2. CASE ~moves
    BY <1>1, <1>5, <2>2
  <2> QED BY <2>1, <2>2
<1>7. /\ m.store = Tombstone(moved, drop, at)
      /\ m.files = IF moves THEN Renamed(n.files, Disk(drop), Disk(keep))
                   ELSE IF s.rows[drop].have /\ s.rows[keep].have
                   THEN Unlinked(n.files, Disk(drop)) ELSE n.files
      /\ m = [store |-> m.store, files |-> m.files]
  BY <1>2, <1>4, <1>5 DEF OneKept
<1>8. /\ m.store \in Stores /\ \A q \in Paths \ {drop} : m.store.rows[q] = moved.rows[q]
      /\ m.store.rows[drop].hash = h /\ m.store.rows[drop].have = FALSE
  <2>1. moved.rows[drop] = s.rows[drop]
    BY <1>6
  <2>2. moved \in Stores /\ moved.rows[drop] \in Row /\ moved.rows[drop].hash = h
    BY <1>1, <1>6, <2>1
  <2>3. PICK t : t = Tombstone(moved, drop, at)
    OBVIOUS
  <2>4. Buried(moved, t, drop, at)
    BY <1>3, <2>2, <2>3, TombstonePuts
  <2>5. m.store = t
    BY <1>7, <2>3
  <2> QED BY <2>2, <2>4, <2>5 DEF Buried
<1>9. /\ m.files \in Disks /\ PartsKept(n, m)
      /\ \A q \in Paths \ {keep, drop} : m.files[Disk(q)] = n.files[Disk(q)]
      /\ moves => m.files[Disk(keep)] = n.files[Disk(drop)]
      /\ ~moves => m.files[Disk(keep)] = n.files[Disk(keep)]
  <2>1. CASE moves
    <3>1. m.files = Renamed(n.files, Disk(drop), Disk(keep)) /\ n.files \in Disks /\ drop # keep
      BY <1>7, <2>1, KeptFields
    <3>2. PICK f, g : f = n.files /\ f \in Disks /\ g = Renamed(f, Disk(drop), Disk(keep))
      BY <3>1
    <3>3. Moved(f, g, drop, keep)
      BY <3>1, <3>2, RenamedDisk
    <3> QED BY <2>1, <3>1, <3>2, <3>3 DEF PartsKept, Moved
  <2>2. CASE ~moves /\ s.rows[drop].have /\ s.rows[keep].have
    <3>1. m.files = Unlinked(n.files, Disk(drop)) /\ n.files \in Disks
      BY <1>7, <2>2, KeptFields
    <3>2. PICK f, g : f = n.files /\ f \in Disks /\ g = Unlinked(f, Disk(drop))
      BY <3>1
    <3>3. Lost(f, g, drop)
      BY <3>2, UnlinkedDisk
    <3> QED BY <2>2, <3>1, <3>2, <3>3 DEF PartsKept, Lost
  <2>3. CASE ~moves /\ ~(s.rows[drop].have /\ s.rows[keep].have)
    BY <1>7, <2>3, KeptFields DEF PartsKept
  <2> QED BY <2>1, <2>2, <2>3
<1>10. ASSUME ClaimTrue(n, keep), ClaimTrue(n, drop) PROVE ClaimTrue(m, keep)
  <2>1. CASE moves
    <3>1. n.files[Disk(drop)] = Whole(h)
      BY <1>4, <1>10, <2>1 DEF Holds, ClaimTrue, RowTrue
    <3> QED BY <1>6, <1>8, <1>9, <2>1, <3>1 DEF ClaimTrue, RowTrue
  <2>2. CASE ~moves
    BY <1>6, <1>8, <1>9, <1>10, <2>2 DEF ClaimTrue, RowTrue
  <2> QED BY <2>1, <2>2
<1>11. ClaimTrue(m, drop)
  BY <1>8 DEF ClaimTrue, RowTrue
<1>12. m \in Kept
  BY <1>7, <1>8, <1>9 DEF Kept
<1>13. IsLive(m.store.rows[keep])
  <2>1. s.rows[keep].removed = 0
    BY <1>1, RowsLive
  <2> QED BY <1>6, <1>8, <2>1, RowsLive
<1> QED BY <1>4, <1>6, <1>8, <1>9, <1>10, <1>11, <1>12, <1>13 DEF Same, Joined

(***************************************************************************)
(* merge up to where a twin may be, named.                                 *)
(***************************************************************************)
SettledAt(n, e) == SettledPath(e.path, n.store.rows[e.path], RowOf(e))

Half(n, e) ==
  LET local   == n.store.rows[e.path]
      settled == SettledRow(local, RowOf(e))
      p       == SettledAt(n, e)
      have    == local.have /\ local.hash = settled.hash /\ p = e.path
      away    == IF Displaces(local, RowOf(e)) THEN Displaced(n, e.path) ELSE n
  IN  IF p = e.path /\ Unchanged(local, settled) THEN away
      ELSE [away EXCEPT !.store = WriteRow(away.store, p, settled, have)]

LEMMA MergedIsHalves ==
  ASSUME NEW n, NEW e
  PROVE  LET local == n.store.rows[e.path]
             settled == SettledRow(local, RowOf(e))
             p == SettledAt(n, e)
             w == Half(n, e)
             q == Twin(w.store, p, settled.hash)
         IN  Merged(n, e) =
               IF Rejects(local, RowOf(e)) THEN n
               ELSE IF IsRemoved(settled) \/ Twins(w.store, p, settled.hash) = {} THEN w
               ELSE IF WinsHash(p, w.store.rows[p], q, w.store.rows[q]) THEN OneKept(w, p, q)
               ELSE OneKept(w, q, p)
  BY DEF Merged, Half, SettledAt

HalfDone(n, w, p, e, settled) ==
  /\ w \in Kept /\ p \in Paths /\ PartsKept(n, w)
  /\ w.store.rows[p] \in Row /\ w.store.rows[p].hash = e.hash
  /\ w.store.rows[p].removed = settled.removed
  /\ \A q \in Paths \ {p} : w.store.rows[q].hash = e.hash => Same(n, w, q)
  /\ (p = e.path => ClaimTrue(n, p)) =>
       ClaimTrue(w, p) /\ \A q \in Paths : Same(n, w, q) \/ ClaimTrue(w, q)

RowSet(n, w, p, row, have) ==
  /\ w \in Kept /\ PartsKept(n, w) /\ w.files = n.files
  /\ Put(n.store, w.store, p, row, have)
  /\ \A q \in Paths : q # p => Same(n, w, q)

LEMMA RowPut ==
  ASSUME NEW n \in Kept, NEW p \in Paths, NEW row \in Row, NEW have \in BOOLEAN,
         NEW w, w = [n EXCEPT !.store = WriteRow(n.store, p, row, have)]
  PROVE  RowSet(n, w, p, row, have)
<1>1. w = [store |-> WriteRow(n.store, p, row, have), files |-> n.files]
  BY DEF Kept
<1>2. PICK s, t : s = n.store /\ s \in Stores /\ t = WriteRow(s, p, row, have)
  BY KeptFields
<1>3. Put(s, t, p, row, have)
  BY <1>2, WriteRowPuts
<1>4. w.store = t /\ w.files = n.files /\ n.files \in Disks
  BY <1>1, <1>2, KeptFields
<1>5. w \in Kept
  BY <1>1, <1>2, <1>3, <1>4 DEF Put, Kept
<1> QED BY <1>2, <1>3, <1>4, <1>5 DEF Put, PartsKept, Same, RowSet

LEMMA HalfEffect ==
  ASSUME NEW n \in Kept, NEW e \in Entries,
         NEW local, local = n.store.rows[e.path], ~Rejects(local, RowOf(e)),
         NEW settled, settled = SettledRow(local, RowOf(e)),
         NEW p, p = SettledAt(n, e), NEW w, w = Half(n, e)
  PROVE  HalfDone(n, w, p, e, settled)
<1> DEFINE row == RowOf(e)
<1>1. /\ e.path \in Paths /\ e.hash \in Hashes /\ e.hash # 0
      /\ local \in Row \cup {Absent} /\ local.have \in BOOLEAN /\ local.hash \in Nat
      /\ n.store \in Stores /\ IsStore(n.store)
  <2>1. e.path \in Paths /\ e.hash \in Hashes /\ e.hash # 0
    BY RowAssumption DEF Entries, RowAssumption
  <2>2. local \in Row \cup {Absent}
    BY <2>1, KeptFields
  <2>3. CASE local \in Row
    BY <2>1, <2>2, <2>3, KeptFields, RowsLive DEF Row
  <2>4. CASE local = Absent
    BY <2>1, <2>2, <2>4, KeptFields, RowsLive DEF Absent
  <2> QED BY <2>2, <2>3, <2>4
<1>2. /\ row \in Row /\ row.hash = e.hash /\ settled \in Row /\ settled.hash = e.hash
      /\ IsRemoved(local) /\ local.hash = e.hash => IsRemoved(settled)
  BY <1>1, SettledType
<1>3. p \in Paths /\ (p # e.path => BothLive(local, row) /\ ~WinsPath(row, local))
  BY <1>1, <1>2, ConflictPath DEF SettledAt, SettledPath
<1>4. BothLive(local, row) => IsLive(local) /\ local \in Row /\ local.hash # e.hash
  BY <1>1, <1>2, RowsLive DEF BothLive
<1> HIDE DEF row
<1>5. PICK have \in BOOLEAN : have = (local.have /\ local.hash = settled.hash /\ p = e.path)
  BY <1>1
<1>6. CASE Displaces(local, row)
  <2>1. PICK d : d = Displaced(n, e.path)
    OBVIOUS
  <2>2. PICK away : away = ConflictName(e.path, local.hash)
    OBVIOUS
  <2>3. p = e.path /\ IsLive(local) /\ local.hash # e.hash /\ ~have
    BY <1>2, <1>3, <1>4, <1>5, <1>6 DEF Displaces
  <2>4. MovedAway(n, d, e.path, away) /\ d \in Kept
    <3>1. /\ e.path \in Paths /\ IsLive(n.store.rows[e.path])
          /\ away = ConflictName(e.path, n.store.rows[e.path].hash)
      BY <1>1, <2>2, <2>3
    <3>2. MovedAway(n, d, e.path, away)
      BY <2>1, <3>1, DisplacedEffect
    <3> QED BY <3>2 DEF MovedAway
  <2>5. w = [d EXCEPT !.store = WriteRow(d.store, p, settled, have)]
    BY <1>2, <1>5, <1>6, <2>1, <2>3 DEF Half, Unchanged, row
  <2>6. RowSet(d, w, p, settled, have)
    BY <1>2, <1>3, <2>4, <2>5, RowPut
  <2>7. ASSUME NEW q \in Paths \ {p}, w.store.rows[q].hash = e.hash PROVE Same(n, w, q)
    BY <2>3, <2>4, <2>6, <2>7 DEF Same, MovedAway, RowSet
  <2>8. ClaimTrue(w, p)
    BY <2>3, <2>6 DEF Put, ClaimTrue, RowTrue, RowSet
  <2>9. ASSUME ClaimTrue(n, p), NEW q \in Paths PROVE Same(n, w, q) \/ ClaimTrue(w, q)
    <3>1. CASE q = p
      BY <2>8, <3>1
    <3>2. CASE q # p /\ q = away
      <4>1. ClaimTrue(d, q) /\ Same(d, w, q)
        BY <2>3, <2>4, <2>6, <2>9, <3>2 DEF MovedAway, RowSet
      <4> QED BY <4>1, SameClaim
    <3>3. CASE q # p /\ q # away
      BY <2>3, <2>4, <2>6, <3>3 DEF Same, MovedAway, RowSet
    <3> QED BY <3>1, <3>2, <3>3
  <2>10. PartsKept(n, w)
    BY <2>4, <2>6 DEF PartsKept, MovedAway, RowSet
  <2> QED BY <1>2, <1>3, <2>3, <2>6, <2>7, <2>8, <2>9, <2>10 DEF HalfDone, Put, RowSet
<1>7. CASE ~Displaces(local, row) /\ p = e.path /\ Unchanged(local, settled)
  <2>1. w = n /\ local.hash = e.hash /\ local.removed = settled.removed
    BY <1>2, <1>7 DEF Half, Unchanged, row
  <2>2. local \in Row
    BY <1>1, <2>1 DEF Absent
  <2> QED BY <1>3, <1>7, <2>1, <2>2 DEF HalfDone, PartsKept, Same
<1>8. CASE ~Displaces(local, row) /\ ~(p = e.path /\ Unchanged(local, settled))
  <2>1. w = [n EXCEPT !.store = WriteRow(n.store, p, settled, have)]
    BY <1>5, <1>8 DEF Half, row
  <2>2. RowSet(n, w, p, settled, have)
    BY <1>2, <1>3, <2>1, RowPut
  <2>3. ASSUME p = e.path => ClaimTrue(n, p) PROVE ClaimTrue(w, p)
    <3> SUFFICES ASSUME have, IsLive(w.store.rows[p])
                 PROVE  w.files[Disk(p)] = Whole(e.hash)
      BY <1>2, <2>2 DEF Put, ClaimTrue, RowTrue, RowSet
    <3>1. p = e.path /\ local.have /\ local.hash = e.hash
      BY <1>2, <1>5
    <3>2. ~IsRemoved(settled)
      BY <2>2 DEF Put, IsLive, IsRemoved, RowSet
    <3>3. IsLive(local)
      BY <1>1, <1>2, <3>1, <3>2 DEF IsLive, Absent
    <3> QED BY <2>2, <2>3, <3>1, <3>3 DEF ClaimTrue, RowTrue, RowSet
  <2> QED BY <1>2, <1>3, <2>2, <2>3 DEF HalfDone, Put, RowSet
<1> QED BY <1>6, <1>7, <1>8

(***************************************************************************)
(* merge: where the claims of the paths it is at were true, they are true  *)
(* of what it leaves.                                                      *)
(***************************************************************************)
MergePaths(n, m, e) ==
  {p \in Paths : m.store.rows[p] # n.store.rows[p] \/ m.store.rows[p].hash = e.hash
                 \/ m.files[Disk(p)] # n.files[Disk(p)]}

MergeDone(n, m, e) ==
  /\ m \in Kept /\ PartsKept(n, m)
  /\ (\A p \in MergePaths(n, m, e) : ClaimTrue(n, p)) =>
       \A p \in MergePaths(n, m, e) : ClaimTrue(m, p)

LEMMA TwinKept ==
  ASSUME NEW n \in Kept, NEW w, NEW m, NEW e \in Entries, NEW settled,
         NEW p, HalfDone(n, w, p, e, settled), NEW q \in Paths, q # p,
         w.store.rows[q].hash = e.hash,
         Joined(w, m, p, q, e.hash) \/ Joined(w, m, q, p, e.hash)
  PROVE  MergeDone(n, m, e)
<1>1. /\ m \in Kept /\ PartsKept(w, m)
      /\ \A r \in Paths : r # p /\ r # q => Same(w, m, r)
      /\ m.store.rows[p].hash = e.hash /\ m.store.rows[q].hash = e.hash
      /\ ClaimTrue(w, p) /\ ClaimTrue(w, q) => ClaimTrue(m, p) /\ ClaimTrue(m, q)
  BY DEF Joined
<1>2. /\ PartsKept(n, w) /\ p \in Paths /\ Same(n, w, q)
      /\ (p = e.path => ClaimTrue(n, p)) =>
           ClaimTrue(w, p) /\ \A r \in Paths : Same(n, w, r) \/ ClaimTrue(w, r)
  BY DEF HalfDone
<1>3. PartsKept(n, m)
  BY <1>1, <1>2 DEF PartsKept
<1>4. p \in MergePaths(n, m, e) /\ q \in MergePaths(n, m, e)
  BY <1>1, <1>2 DEF MergePaths
<1>5. ASSUME \A r \in MergePaths(n, m, e) : ClaimTrue(n, r), NEW r \in MergePaths(n, m, e)
      PROVE  ClaimTrue(m, r)
  <2>1. r \in Paths /\ ClaimTrue(n, p) /\ ClaimTrue(n, q) /\ ClaimTrue(n, r)
    BY <1>4, <1>5 DEF MergePaths
  <2>2. /\ ClaimTrue(w, p) /\ ClaimTrue(w, q)
        /\ Same(n, w, r) \/ ClaimTrue(w, r)
    BY <1>2, <2>1, SameClaim
  <2>3. ClaimTrue(w, r)
    BY <2>1, <2>2, SameClaim
  <2>4. CASE r = p \/ r = q
    BY <1>1, <2>2, <2>4
  <2>5. CASE r # p /\ r # q
    BY <1>1, <2>1, <2>3, <2>5, SameClaim
  <2> QED BY <2>4, <2>5
<1> QED BY <1>1, <1>3, <1>5 DEF MergeDone

LEMMA MergedTrue ==
  ASSUME NEW n \in Kept, NEW e \in Entries, NEW m, m = Merged(n, e)
  PROVE  MergeDone(n, m, e)
<1>1. PICK local : local = n.store.rows[e.path]
  OBVIOUS
<1>2. PICK settled : settled = SettledRow(local, RowOf(e))
  OBVIOUS
<1>3. PICK p : p = SettledAt(n, e)
  OBVIOUS
<1>4. PICK w : w = Half(n, e)
  OBVIOUS
<1>5. PICK q : q = Twin(w.store, p, settled.hash)
  OBVIOUS
<1>6. m = IF Rejects(local, RowOf(e)) THEN n
          ELSE IF IsRemoved(settled) \/ Twins(w.store, p, settled.hash) = {} THEN w
          ELSE IF WinsHash(p, w.store.rows[p], q, w.store.rows[q]) THEN OneKept(w, p, q)
          ELSE OneKept(w, q, p)
  BY <1>1, <1>2, <1>3, <1>4, <1>5, MergedIsHalves
<1>7. CASE Rejects(local, RowOf(e))
  BY <1>6, <1>7 DEF MergeDone, PartsKept
<1>8. CASE ~Rejects(local, RowOf(e))
  <2>1. HalfDone(n, w, p, e, settled)
    BY <1>1, <1>2, <1>3, <1>4, <1>8, HalfEffect
  <2>2. /\ w \in Kept /\ p \in Paths /\ PartsKept(n, w)
        /\ w.store.rows[p] \in Row /\ w.store.rows[p].hash = e.hash
        /\ w.store.rows[p].removed = settled.removed
        /\ (p = e.path => ClaimTrue(n, p)) =>
             ClaimTrue(w, p) /\ \A r \in Paths : Same(n, w, r) \/ ClaimTrue(w, r)
    BY <2>1 DEF HalfDone
  <2>3. settled.hash = e.hash
    <3>1. IsStore(n.store)
      BY KeptFields
    <3> QED BY <1>1, <1>2, <3>1, SettledType
  <2>4. CASE IsRemoved(settled) \/ Twins(w.store, p, settled.hash) = {}
    <3>1. m = w /\ p \in MergePaths(n, m, e)
      BY <1>6, <1>8, <2>2, <2>4 DEF MergePaths
    <3>2. ASSUME \A r \in MergePaths(n, m, e) : ClaimTrue(n, r), NEW r \in MergePaths(n, m, e)
          PROVE  ClaimTrue(m, r)
      <4>1. r \in Paths /\ ClaimTrue(n, p) /\ ClaimTrue(n, r)
        BY <3>1, <3>2 DEF MergePaths
      <4> QED BY <2>2, <3>1, <4>1, SameClaim
    <3> QED BY <2>2, <3>1, <3>2 DEF MergeDone
  <2>5. CASE ~IsRemoved(settled) /\ Twins(w.store, p, settled.hash) # {}
    <3>1. w.store \in Stores /\ IsStore(w.store)
      BY <2>2, KeptFields
    <3>2. q \in Twins(w.store, p, settled.hash)
      BY <1>5, <2>2, <2>5, <3>1, TwinThere
    <3>3. /\ q \in Paths /\ q # p
          /\ IsLive(w.store.rows[q]) /\ w.store.rows[q].hash = e.hash
      BY <2>3, <3>2 DEF Twins
    <3>4. IsLive(w.store.rows[p])
      BY <2>2, <2>5, RowsLive DEF IsLive, IsRemoved
    <3>5. m = OneKept(w, p, q) \/ m = OneKept(w, q, p)
      BY <1>6, <1>8, <2>5
    <3>6. Joined(w, m, p, q, e.hash) \/ Joined(w, m, q, p, e.hash)
      BY <2>2, <3>3, <3>4, <3>5, OneKeptEffect
    <3> QED BY <2>1, <3>3, <3>6, TwinKept
  <2> QED BY <2>4, <2>5
<1> QED BY <1>7, <1>8

-----------------------------------------------------------------------------
(***************************************************************************)
(* Who is at a path, and what a step that crosses no path may rely on.     *)
(***************************************************************************)
LEMMA WhoIsThere ==
  ASSUME NEW p
  PROVE  /\ p \in PathsOf("download") <=> Downloading(p)
         /\ p \in PathsOf("cmd") <=> Commanded(p)
         /\ p \in PathsOf("merge") <=> p \in merging.paths
  BY DEF PathsOf, Downloading, Commanded

Alone(op, p) ==
  /\ p \notin crossed
  /\ Changed(p) /\ op # "download" => ~Downloading(p)
  /\ Changed(p) /\ op # "cmd" => ~Commanded(p)
  /\ Changed(p) => p \notin merging.paths

LEMMA CrossesSays ==
  ASSUME NEW op \in {"download", "cmd", "serve"}, Crosses(op), NEW p \in Paths, p \notin crossed'
  PROVE  Alone(op, p)
<1>1. p \notin crossed
  BY DEF Crosses
<1>2. ASSUME Changed(p) PROVE \A o \in {"download", "cmd", "merge"} \ {op} : p \notin PathsOf(o)
  BY <1>2 DEF Crosses
<1> QED BY <1>1, <1>2, WhoIsThere DEF Alone

LEMMA CrossedPaths ==
  ASSUME NEW op, Crosses(op), StatePart
  PROVE  crossed' \subseteq Paths
  BY DEF Crosses, StatePart

LEMMA WholeIsAFile ==
  ASSUME NEW h
  PROVE  Whole(h) # NoFile
  BY DEF Whole, NoFile

(***************************************************************************)
(* A path a step leaves alone.                                             *)
(***************************************************************************)
LEMMA QuietPath ==
  ASSUME NEW p \in Paths, PathTrue(p), ~Changed(p), merging' = merging,
         Downloading(p)' => Downloading(p) /\ download' = download,
         Commanded(p)' => Commanded(p) /\ cmd' = cmd,
         Placing(p) => Placing(p)'
  PROVE  PathTrue(p)'
<1>1. /\ store'.rows[p] = store.rows[p] /\ files'[Disk(p)] = files[Disk(p)]
      /\ files'[Part(p)] = files[Part(p)]
  BY DEF Changed
<1> QED BY <1>1 DEF PathTrue

(***************************************************************************)
(* A path nobody is at any more.                                           *)
(***************************************************************************)
LEMMA QuietAfter ==
  ASSUME NEW p \in Paths, p \notin merging'.paths, ~Downloading(p)', ~Commanded(p)',
         RowTrue(store'.rows[p], files'[Disk(p)])
  PROVE  PathTrue(p)'
  BY DEF PathTrue

(***************************************************************************)
(* A step of the download at its path: the merge is not there, and what    *)
(* the command there knows is left alone.                                  *)
(***************************************************************************)
LEMMA DownloadStep ==
  ASSUME NEW p \in Paths, PathTrue(p), Downloading(p), Alone("download", p),
         merging' = merging, cmd' = cmd,
         ~Placing(p) => RowTrue(store'.rows[p], files'[Disk(p)]),
         Downloading(p)' => DownloadTrue(download', store'.rows[p], files'[Part(p)], files'[Disk(p)])
  PROVE  PathTrue(p)'
<1>1. p \notin merging.paths
  BY DEF PathTrue
<1>2. (Commanded(p)' <=> Commanded(p)) /\ (Placing(p)' <=> Placing(p))
  BY DEF Commanded, Placing
<1>3. ASSUME Commanded(p)
      PROVE  CommandTrue(cmd', store'.rows[p], files'[Part(p)], files'[Disk(p)], merging'.paths)
  <2>1. /\ store'.rows[p] = store.rows[p] /\ files'[Disk(p)] = files[Disk(p)]
        /\ files'[Part(p)] = files[Part(p)]
    BY <1>3 DEF Alone, Changed
  <2> QED BY <1>3, <2>1 DEF PathTrue
<1> QED BY <1>1, <1>2, <1>3 DEF PathTrue

(***************************************************************************)
(* Paths a step of the download is not at.                                 *)
(***************************************************************************)
LEMMA NotTheDownload ==
  ASSUME NEW p \in Paths, PathTrue(p), ~Changed(p), merging' = merging, cmd' = cmd,
         ~Downloading(p)'
  PROVE  PathTrue(p)'
  BY QuietPath DEF Commanded, Placing

(***************************************************************************)
(* mark_have.                                                              *)
(***************************************************************************)
MarkedSo(p, have) ==
  /\ store' \in Stores
  /\ \A q \in Paths : q # p => store'.rows[q] = store.rows[q]
  /\ store.rows[p] # Absent =>
       /\ store'.rows[p].hash = store.rows[p].hash
       /\ store'.rows[p].removed = store.rows[p].removed
       /\ store'.rows[p] \in Row /\ store'.rows[p].have = have

LEMMA MarkedRow ==
  ASSUME store \in Stores, NEW p \in Paths, NEW have \in BOOLEAN, store' = Marked(p, have)
  PROVE  MarkedSo(p, have)
<1>1. CASE store.rows[p] = Absent
  BY <1>1 DEF Marked, MarkedSo
<1>2. CASE store.rows[p] # Absent
  <2>1. PICK row : row = store.rows[p]
    OBVIOUS
  <2>2. row \in Row
    BY <1>2, <2>1, StoreRows
  <2>3. PICK new : new = [row EXCEPT !.have = have]
    OBVIOUS
  <2>4. new \in Row /\ new.hash = row.hash /\ new.removed = row.removed /\ new.have = have
    BY <2>2, <2>3 DEF Row
  <2>5. store' = [rows |-> [store.rows EXCEPT ![p] = new], seq |-> store.seq,
                  served |-> store.served]
    BY <1>2, <2>1, <2>3 DEF Marked, Stores
  <2>6. store'.rows = [store.rows EXCEPT ![p] = new]
    BY <2>5
  <2>7. store'.rows[p] = new /\ \A q \in Paths : q # p => store'.rows[q] = store.rows[q]
    BY <2>6, StoreRows
  <2>8. store' \in Stores
    BY <2>4, <2>5, StoreRows DEF Stores
  <2> QED BY <2>1, <2>4, <2>7, <2>8 DEF MarkedSo
<1> QED BY <1>1, <1>2

-----------------------------------------------------------------------------
(***************************************************************************)
(* What is put in a partial, put in place, and taken away.                 *)
(***************************************************************************)
OnlyAt(f, g, p) ==
  /\ g \in Disks
  /\ \A r \in Paths : r # p => g[Disk(r)] = f[Disk(r)] /\ g[Part(r)] = f[Part(r)]

InPart(f, g, p, bytes) ==
  OnlyAt(f, g, p) /\ g[Part(p)] = bytes /\ g[Disk(p)] = f[Disk(p)]

InPlace(f, g, p, bytes) ==
  OnlyAt(f, g, p) /\ g[Disk(p)] = bytes /\ g[Part(p)] = f[Part(p)]

PutInPlace(f, g, p) ==
  OnlyAt(f, g, p) /\ g[Disk(p)] = f[Part(p)] /\ g[Part(p)] = NoFile

LEMMA AllApart ==
  ASSUME NEW p \in Paths
  PROVE  /\ Part(p) \in Places /\ Disk(p) \in Places /\ Part(p) # Disk(p)
         /\ \A r \in Paths : /\ Part(r) \in Places /\ Disk(r) \in Places
                             /\ Part(r) # Disk(p) /\ Disk(r) # Part(p)
                             /\ r # p => Part(r) # Part(p) /\ Disk(r) # Disk(p)
  BY PlacesApart

LEMMA PartWritten ==
  ASSUME NEW f \in Disks, NEW p \in Paths, NEW bytes \in Seq(Nat),
         NEW g, g = [f EXCEPT ![Part(p)] = bytes]
  PROVE  InPart(f, g, p, bytes)
  BY AllApart DEF Disks, InPart, OnlyAt

LEMMA PlaceWritten ==
  ASSUME NEW f \in Disks, NEW p \in Paths, NEW bytes \in Seq(Nat),
         NEW g, g = [f EXCEPT ![Disk(p)] = bytes]
  PROVE  InPlace(f, g, p, bytes)
  BY AllApart DEF Disks, InPlace, OnlyAt

LEMMA PartPlaced ==
  ASSUME NEW f \in Disks, NEW p \in Paths, NEW g, g = Renamed(f, Part(p), Disk(p))
  PROVE  PutInPlace(f, g, p)
<1>1. NoFile \in Seq(Nat)
  BY DEF NoFile
<1> QED BY <1>1, AllApart DEF Renamed, Disks, PutInPlace, OnlyAt

LEMMA PartUnlinked ==
  ASSUME NEW f \in Disks, NEW p \in Paths, NEW g, g = Unlinked(f, Part(p))
  PROVE  InPart(f, g, p, NoFile)
<1>1. NoFile \in Seq(Nat)
  BY DEF NoFile
<1> QED BY <1>1, PartWritten DEF Unlinked

LEMMA PlaceUnlinked ==
  ASSUME NEW f \in Disks, NEW p \in Paths, NEW g, g = Unlinked(f, Disk(p))
  PROVE  InPlace(f, g, p, NoFile)
<1>1. NoFile \in Seq(Nat)
  BY DEF NoFile
<1> QED BY <1>1, PlaceWritten DEF Unlinked

(***************************************************************************)
(* A step of the download: what it does to its own path is all it does.    *)
(***************************************************************************)
DownloadOnly(p) ==
  /\ OnlyAt(files, files', p)
  /\ store' \in Stores /\ \A q \in Paths : q # p => store'.rows[q] = store.rows[q]
  /\ merging' = merging /\ cmd' = cmd /\ crossed' \subseteq Paths
  /\ download' = NoDownload \/
       /\ download' \in Downloads /\ download'.path = p /\ download'.got # NoFile
       /\ download'.at \in {Nowhere, Part(p), Disk(p)}

LEMMA DownloadElsewhere ==
  ASSUME FInv, NEW p \in Paths, DownloadOnly(p), NEW q \in Paths, q # p, q \notin crossed
  PROVE  PathTrue(q)'
<1>1. PathTrue(q)
  BY DEF FInv, PathPart
<1>2. ~Changed(q)
  BY DEF DownloadOnly, OnlyAt, Changed
<1>3. ~Downloading(q)'
  BY DEF DownloadOnly, Downloading
<1> QED BY <1>1, <1>2, <1>3, NotTheDownload DEF DownloadOnly

LEMMA DownloadState ==
  ASSUME StatePart, NEW p \in Paths, DownloadOnly(p),
         \/ store' = store
         \/ merging = NoMerge
  PROVE  StatePart'
<1>1. /\ store' \in Stores /\ files' \in Disks /\ crossed' \subseteq Paths
      /\ merging' = merging /\ cmd' = cmd
  BY DEF DownloadOnly, OnlyAt
<1>2. merging = NoMerge \/
       /\ merging \in Merges
       /\ \A q \in Paths \ merging.paths : merging.store.rows[q] = store'.rows[q]
  BY DEF StatePart
<1>3. cmd = NoCmd \/ cmd \in Adds \/ cmd \in Others
  BY DEF StatePart
<1>4. download' = NoDownload \/
       /\ download' \in Downloads /\ download'.got # NoFile
       /\ download'.at \in {Nowhere, Part(download'.path), Disk(download'.path)}
  BY DEF DownloadOnly
<1> QED BY <1>1, <1>2, <1>3, <1>4 DEF StatePart

LEMMA DownloadKeeps ==
  ASSUME FInv, NEW p \in Paths, Downloading(p), DownloadOnly(p), Crosses("download"),
         store' = store \/ merging = NoMerge,
         PathTrue(p) /\ ~Placing(p) => RowTrue(store'.rows[p], files'[Disk(p)]),
         PathTrue(p) /\ Downloading(p)' =>
           DownloadTrue(download', store'.rows[p], files'[Part(p)], files'[Disk(p)])
  PROVE  FInv'
<1>1. StatePart'
  BY DownloadState DEF FInv
<1>2. ASSUME NEW q \in Paths \ crossed' PROVE PathTrue(q)'
  <2>1. Alone("download", q)
    BY <1>2, CrossesSays
  <2>2. CASE q = p
    <3>1. PathTrue(p)
      BY <2>1, <2>2 DEF FInv, PathPart, Alone
    <3> QED BY <2>1, <2>2, <3>1, DownloadStep DEF DownloadOnly
  <2>3. CASE q # p
    BY <1>2, <2>1, <2>3, DownloadElsewhere DEF Alone
  <2> QED BY <2>2, <2>3
<1> QED BY <1>1, <1>2 DEF FInv, PathPart

-----------------------------------------------------------------------------
(***************************************************************************)
(* The steps of the download.                                              *)
(***************************************************************************)
LEMMA Lengths ==
  ASSUME NEW f \in Disks, NEW x \in Places
  PROVE  Length(f[x]) \in Nat
  BY DEF Disks, Length

LEMMA DownloadFields ==
  ASSUME StatePart, download # NoDownload
  PROVE  /\ download \in Downloads /\ download.path \in Paths /\ download.hash \in Hashes
         /\ download.got \in Seq(Nat) /\ download.got # NoFile /\ download.resume \in Nat
         /\ download.at \in {Nowhere, Part(download.path), Disk(download.path)}
         /\ Downloading(download.path)
  BY DEF StatePart, Downloads, Downloading

LEMMA StateFields ==
  ASSUME StatePart
  PROVE  /\ store \in Stores /\ files \in Disks /\ crossed \subseteq Paths
         /\ files[Part(download.path)] \in Seq(Nat) \/ download = NoDownload
<1>1. store \in Stores /\ files \in Disks /\ crossed \subseteq Paths
  BY DEF StatePart
<1>2. CASE download # NoDownload
  BY <1>1, <1>2, DownloadFields, AllApart DEF Disks
<1> QED BY <1>1, <1>2

LEMMA Unlike ==
  ASSUME NEW d, d.step # "none"
  PROVE  d # NoDownload
  BY DEF NoDownload

LEMMA FetchKeeps ==
  ASSUME FInv, NEW p \in Paths, Fetch(p)
  PROVE  FInv'
<1>1. /\ download = NoDownload /\ merging = NoMerge /\ IsLive(store.rows[p]) /\ ~store.rows[p].have
      /\ store' = store /\ files' = files /\ crossed' = crossed /\ cmd' = cmd /\ merging' = merging
  BY DEF Fetch, Free, Idle
<1>2. PICK n : n = Length(files[Part(p)])
  OBVIOUS
<1>3. download' = [step |-> "asked", path |-> p, hash |-> store.rows[p].hash,
                   resume |-> n, at |-> Nowhere, got |-> <<>>]
  BY <1>2 DEF Fetch
<1>4. store.rows[p].hash \in Hashes
  <2>1. store.rows[p] \in Row
    BY <1>1, StateFields, StoreRows, RowsLive DEF FInv
  <2> QED BY <2>1 DEF Row
<1>5. n \in Nat
  BY <1>2, Lengths, AllApart, StateFields DEF FInv
<1>6. download' \in Downloads /\ download'.got # NoFile /\ download'.at = Nowhere
  BY <1>3, <1>4, <1>5 DEF Downloads, NoFile
<1>7. StatePart'
  BY <1>1, <1>6 DEF FInv, StatePart
<1>8. ASSUME NEW q \in Paths \ crossed' PROVE PathTrue(q)'
  <2>1. PathTrue(q)
    BY <1>1, <1>8 DEF FInv, PathPart
  <2>2. ~Changed(q)
    BY <1>1 DEF Changed
  <2>3. CASE q # p
    <3>1. ~Downloading(q)'
      BY <1>3, <2>3 DEF Downloading
    <3> QED BY <1>1, <1>8, <2>1, <2>2, <3>1, NotTheDownload
  <2>4. CASE q = p
    <3>1. DownloadTrue(download', store'.rows[p], files'[Part(p)], files'[Disk(p)])
      BY <1>1, <1>3 DEF DownloadTrue
    <3>2. p \notin merging.paths
      BY <1>1 DEF NoMerge
    <3> QED BY <1>1, <2>1, <2>4, <3>1, <3>2 DEF PathTrue, Commanded, Placing
  <2> QED BY <2>3, <2>4
<1> QED BY <1>7, <1>8 DEF FInv, PathPart

LEMMA PlacedFields ==
  ASSUME StatePart, download # NoDownload
  PROVE  /\ Placed \in Downloads /\ Placed.path = download.path /\ Placed.hash = download.hash
         /\ Placed.step = "placed" /\ Placed.at = Nowhere /\ Placed.got # NoFile
<1>1. download \in Downloads
  BY DownloadFields
<1>2. PICK step, at, got, n : step = "placed" /\ at = Nowhere /\ got = <<>> /\ n = 0
  OBVIOUS
<1>3. Placed = [download EXCEPT !.step = step, !.at = at, !.got = got, !.resume = n]
  BY <1>2 DEF Placed
<1>4. Placed = [step |-> step, path |-> download.path, hash |-> download.hash,
                resume |-> n, at |-> at, got |-> got]
  BY <1>1, <1>3 DEF Downloads
<1> QED BY <1>1, <1>2, <1>4 DEF Downloads, NoFile

LEMMA PlacedKeeps ==
  ASSUME FInv, download # NoDownload, download' = Placed, Crosses("download"), store' = store,
         merging' = merging, cmd' = cmd, OnlyAt(files, files', download.path),
         download.step \in {"asked", "open"},
         PathTrue(download.path) => files'[Disk(download.path)] = Whole(download.hash)
  PROVE  FInv'
<1>1. PICK p \in Paths : p = download.path
  BY DownloadFields DEF FInv
<1>2. Downloading(p)
  BY <1>1 DEF Downloading
<1>3. DownloadOnly(p)
  BY <1>1, PlacedFields, CrossedPaths, StateFields DEF FInv, DownloadOnly
<1>4. ASSUME PathTrue(p)
      PROVE  /\ RowTrue(store'.rows[p], files'[Disk(p)])
             /\ DownloadTrue(download', store'.rows[p], files'[Part(p)], files'[Disk(p)])
  <2>1. DownloadTrue(download, store.rows[p], files[Part(p)], files[Disk(p)])
    BY <1>2, <1>4 DEF PathTrue
  <2>2. IsLive(store.rows[p]) /\ store.rows[p].hash = download.hash /\ ~store.rows[p].have
    BY <2>1 DEF DownloadTrue
  <2>3. Placed.hash = download.hash /\ Placed.step = "placed"
    BY PlacedFields DEF FInv
  <2> QED BY <1>1, <1>4, <2>2, <2>3 DEF DownloadTrue, RowTrue
<1> QED BY <1>2, <1>3, <1>4, DownloadKeeps

LEMMA FetchLocalKeeps ==
  ASSUME FInv, FetchLocal
  PROVE  FInv'
<1>1. /\ download # NoDownload /\ download.step = "asked" /\ download' = Placed
      /\ files' = [files EXCEPT ![Disk(download.path)] = Whole(download.hash)]
      /\ store' = store /\ merging' = merging /\ cmd' = cmd /\ Crosses("download")
  BY DEF FetchLocal, Idle
<1>2. download.path \in Paths /\ download.hash \in Nat /\ files \in Disks
  BY <1>1, DownloadFields, StateFields, RowAssumption DEF FInv, RowAssumption
<1>3. InPlace(files, files', download.path, Whole(download.hash))
  <2>1. PICK f, bytes : f = files /\ bytes = Whole(download.hash)
    OBVIOUS
  <2>2. bytes \in Seq(Nat)
    BY <1>2, <2>1 DEF Whole
  <2> QED BY <1>1, <1>2, <2>1, <2>2, PlaceWritten
<1> QED BY <1>1, <1>3, PlacedKeeps DEF InPlace

LEMMA ReplyKeeps ==
  ASSUME FInv, Reply
  PROVE  FInv'
<1>1. PICK p \in Paths : p = download.path
  BY DownloadFields DEF FInv, Reply
<1>2. PICK had : had = IF download.resume > 0 /\ Length(files[Part(p)]) = download.resume
                       THEN files[Part(p)] ELSE <<>>
  OBVIOUS
<1>3. /\ download # NoDownload /\ download.step = "asked"
      /\ files' = [files EXCEPT ![Part(p)] = had]
      /\ download' = [download EXCEPT !.step = "open", !.at = Part(p), !.got = had,
                                      !.resume = Len(had)]
      /\ store' = store /\ merging' = merging /\ cmd' = cmd /\ Crosses("download")
  BY <1>1, <1>2 DEF Reply, Idle
<1>4. /\ download \in Downloads /\ download.resume \in Nat
      /\ files \in Disks /\ files[Part(p)] \in Seq(Nat) /\ store \in Stores
  BY <1>1, <1>3, DownloadFields, StateFields DEF FInv
<1>5. had \in Seq(Nat) /\ had # NoFile /\ Len(had) \in Nat
  BY <1>2, <1>4 DEF Length, NoFile
<1>6. InPart(files, files', p, had)
  BY <1>3, <1>4, <1>5, PartWritten
<1>7. /\ download' \in Downloads /\ download'.path = p /\ download'.hash = download.hash
      /\ download'.step = "open" /\ download'.at = Part(p) /\ download'.got = had
  <2>1. download' = [step |-> "open", path |-> p, hash |-> download.hash,
                     resume |-> Len(had), at |-> Part(p), got |-> had]
    BY <1>1, <1>3, <1>4 DEF Downloads
  <2> QED BY <1>4, <1>5, <2>1, AllApart DEF Downloads
<1>8. Downloading(p) /\ DownloadOnly(p)
  BY <1>1, <1>3, <1>4, <1>5, <1>6, <1>7, CrossedPaths
     DEF FInv, DownloadOnly, InPart, Downloading
<1>9. ASSUME PathTrue(p)
      PROVE  /\ RowTrue(store'.rows[p], files'[Disk(p)])
             /\ DownloadTrue(download', store'.rows[p], files'[Part(p)], files'[Disk(p)])
  <2>1. DownloadTrue(download, store.rows[p], files[Part(p)], files[Disk(p)])
    BY <1>8, <1>9 DEF PathTrue
  <2>2. IsLive(store.rows[p]) /\ store.rows[p].hash = download.hash /\ ~store.rows[p].have
    BY <1>3, <2>1 DEF DownloadTrue
  <2> QED BY <1>3, <1>6, <1>7, <2>2 DEF DownloadTrue, RowTrue, InPart
<1> QED BY <1>3, <1>8, <1>9, DownloadKeeps

LEMMA OneReplaced ==
  ASSUME NEW s \in Seq(Nat), NEW i \in Nat, i # 0, i <= Len(s), NEW n \in Nat,
         NEW t, t = [s EXCEPT ![i] = n]
  PROVE  t \in Seq(Nat)
<1>1. s \in [1 .. Len(s) -> Nat] /\ Len(s) \in Nat
  OBVIOUS
<1>2. t \in [1 .. Len(s) -> Nat]
  BY <1>1
<1> QED BY <1>1, <1>2

LEMMA ChunkKeeps ==
  ASSUME FInv, NEW h \in Hashes, Chunk(h)
  PROVE  FInv'
<1>1. PICK p \in Paths : p = download.path
  BY DownloadFields DEF FInv, Chunk
<1>2. PICK at : at = download.at
  OBVIOUS
<1>3. PICK got : got = Append(download.got, h)
  OBVIOUS
<1>4. PICK bytes : bytes = Written(files[at], h, download.resume > 0, Len(download.got) + 1)
  OBVIOUS
<1>5. /\ download # NoDownload /\ download.step = "open"
      /\ files' = IF at = Nowhere THEN files ELSE [files EXCEPT ![at] = bytes]
      /\ download' = [download EXCEPT !.got = got]
      /\ store' = store /\ merging' = merging /\ cmd' = cmd /\ Crosses("download")
  BY <1>2, <1>3, <1>4 DEF Chunk, Idle
<1>6. /\ download \in Downloads /\ download.got \in Seq(Nat) /\ h \in Nat \ {0}
      /\ files \in Disks /\ store \in Stores
      /\ at \in {Nowhere, Part(p), Disk(p)} /\ Part(p) \in Places /\ Disk(p) \in Places
  BY <1>1, <1>2, <1>5, DownloadFields, StateFields, AllApart, RowAssumption DEF FInv, RowAssumption
<1>7. got \in Seq(Nat) /\ got # NoFile
  <2>1. got \in Seq(Nat)
    BY <1>3, <1>6
  <2>2. got[Len(got)] = h
    BY <1>3, <1>6
  <2>3. Len(<<0>>) = 1 /\ <<0>>[1] = 0
    OBVIOUS
  <2>4. ASSUME got = NoFile PROVE FALSE
    <3>1. Len(got) = 1 /\ got[1] = 0
      BY <2>3, <2>4 DEF NoFile
    <3> QED BY <1>6, <2>2, <3>1
  <2> QED BY <2>1, <2>4
<1>8. at # Nowhere => bytes \in Seq(Nat)
  <2>1. CASE at \in Places
    <3>1. PICK old \in Seq(Nat) : old = files[at]
      BY <1>6, <2>1 DEF Disks
    <3>2. PICK i \in Nat : i = Len(download.got) + 1 /\ i # 0
      BY <1>6
    <3>3. \/ bytes = Append(old, h)
          \/ i <= Len(old) /\ bytes = [old EXCEPT ![i] = h]
      BY <1>4, <3>1, <3>2 DEF Written
    <3>4. CASE bytes = Append(old, h)
      BY <1>6, <3>4
    <3>5. CASE i <= Len(old) /\ bytes = [old EXCEPT ![i] = h]
      BY <1>6, <3>2, <3>5, OneReplaced
    <3> QED BY <3>3, <3>4, <3>5
  <2> QED BY <1>6, <2>1
<1>9. /\ OnlyAt(files, files', p)
      /\ at = Part(p) => InPart(files, files', p, bytes)
  <2>1. CASE at = Nowhere
    BY <1>5, <1>6, <2>1, AllApart, PlacesApart DEF OnlyAt
  <2>2. CASE at = Part(p)
    <3>1. InPart(files, files', p, bytes)
      BY <1>5, <1>6, <1>8, <2>2, PartWritten, PlacesApart
    <3> QED BY <3>1 DEF InPart
  <2>3. CASE at = Disk(p)
    <3>1. InPlace(files, files', p, bytes)
      BY <1>5, <1>6, <1>8, <2>3, PlaceWritten, PlacesApart
    <3> QED BY <2>3, <3>1, PlacesApart DEF InPlace
  <2> QED BY <1>6, <2>1, <2>2, <2>3
<1>10. /\ download' \in Downloads /\ download'.path = p /\ download'.hash = download.hash
       /\ download'.step = "open" /\ download'.at = at /\ download'.got = got
  <2>1. download' = [step |-> "open", path |-> p, hash |-> download.hash,
                     resume |-> download.resume, at |-> at, got |-> got]
    BY <1>1, <1>2, <1>5, <1>6 DEF Downloads
  <2> QED BY <1>6, <1>7, <2>1 DEF Downloads
<1>11. Downloading(p) /\ DownloadOnly(p)
  BY <1>1, <1>5, <1>6, <1>7, <1>9, <1>10, CrossedPaths
     DEF FInv, DownloadOnly, Downloading
<1>12. ASSUME PathTrue(p)
       PROVE  /\ ~Placing(p) => RowTrue(store'.rows[p], files'[Disk(p)])
              /\ DownloadTrue(download', store'.rows[p], files'[Part(p)], files'[Disk(p)])
  <2>1. DownloadTrue(download, store.rows[p], files[Part(p)], files[Disk(p)])
    BY <1>11, <1>12 DEF PathTrue
  <2>2. /\ IsLive(store.rows[p]) /\ store.rows[p].hash = download.hash /\ ~store.rows[p].have
        /\ at = Part(p) /\ files[Part(p)] = download.got
    BY <1>1, <1>2, <1>5, <2>1 DEF DownloadTrue
  <2>3. bytes = got
    <3>1. PICK old, i : old = download.got /\ i = Len(old) + 1
      OBVIOUS
    <3>2. i > Len(old)
      BY <1>6, <3>1
    <3> QED BY <1>3, <1>4, <2>2, <3>1, <3>2 DEF Written
  <2> QED BY <1>5, <1>9, <1>10, <2>2, <2>3 DEF DownloadTrue, RowTrue, InPart
<1> QED BY <1>5, <1>11, <1>12, DownloadKeeps

(***************************************************************************)
(* The download is over, and nothing at its path is worse than it was.     *)
(***************************************************************************)
LEMMA OverKeeps ==
  ASSUME FInv, NEW p \in Paths, Downloading(p), download' = NoDownload,
         Crosses("download"), OnlyAt(files, files', p), store' = store,
         merging' = merging, cmd' = cmd, files'[Disk(p)] = files[Disk(p)]
  PROVE  FInv'
<1>1. DownloadOnly(p)
  BY CrossedPaths, StateFields DEF FInv, DownloadOnly
<1>2. ASSUME PathTrue(p), ~Placing(p) PROVE RowTrue(store'.rows[p], files'[Disk(p)])
  BY <1>2 DEF PathTrue
<1>3. ~Downloading(p)'
  BY DEF Downloading
<1> QED BY <1>1, <1>2, <1>3, DownloadKeeps

LEMMA NothingMoved ==
  ASSUME FInv, files' = files, NEW p \in Paths
  PROVE  OnlyAt(files, files', p) /\ files'[Disk(p)] = files[Disk(p)]
  BY StateFields DEF FInv, OnlyAt

LEMMA NothingCrossed ==
  ASSUME store' = store, files' = files, crossed' = crossed, NEW op
  PROVE  Crosses(op)
  BY DEF Crosses, Changed

LEMMA ParkKeeps ==
  ASSUME FInv, Park
  PROVE  FInv'
<1>1. PICK p \in Paths : p = download.path /\ Downloading(p)
  BY DownloadFields DEF FInv, Park
<1>2. /\ download' = NoDownload /\ store' = store /\ files' = files /\ crossed' = crossed
      /\ merging' = merging /\ cmd' = cmd
  BY DEF Park, Idle
<1> QED BY <1>1, <1>2, NothingMoved, NothingCrossed, OverKeeps

LEMMA EndKeeps ==
  ASSUME FInv, End
  PROVE  FInv'
<1>1. PICK p \in Paths : p = download.path /\ Downloading(p)
  BY DownloadFields DEF FInv, End
<1>2. /\ download # NoDownload /\ download.step = "open" /\ Crosses("download")
      /\ store' = store /\ merging' = merging /\ cmd' = cmd
      /\ \/ download' = NoDownload /\ files' = Unlinked(files, Part(p))
         \/ download' = NoDownload /\ files' = files
         \/ /\ download' = Placed /\ files' = Renamed(files, Part(p), Disk(p))
            /\ download.got = Whole(download.hash)
  BY <1>1 DEF End, Idle
<1>3. files \in Disks
  BY StateFields DEF FInv
<1>4. CASE download' = NoDownload /\ files' = Unlinked(files, Part(p))
  <2>1. InPart(files, files', p, NoFile)
    BY <1>3, <1>4, PartUnlinked
  <2> QED BY <1>1, <1>2, <1>4, <2>1, OverKeeps DEF InPart
<1>5. CASE download' = NoDownload /\ files' = files
  BY <1>1, <1>2, <1>5, NothingMoved, OverKeeps
<1>6. CASE /\ download' = Placed /\ files' = Renamed(files, Part(p), Disk(p))
           /\ download.got = Whole(download.hash)
  <2>1. PutInPlace(files, files', p)
    BY <1>3, <1>6, PartPlaced
  <2>2. ASSUME PathTrue(p) PROVE files'[Disk(p)] = Whole(download.hash)
    <3>1. files[Part(p)] = download.got
      BY <1>1, <1>2, <2>2 DEF PathTrue, DownloadTrue
    <3> QED BY <1>6, <2>1, <3>1 DEF PutInPlace
  <2> QED BY <1>1, <1>2, <1>6, <2>1, <2>2, PlacedKeeps DEF PutInPlace
<1> QED BY <1>2, <1>4, <1>5, <1>6

(***************************************************************************)
(* Marked as held: the row is still of the content that was put in place.  *)
(***************************************************************************)
LEMMA MarkingKeeps ==
  ASSUME FInv, NEW p \in Paths, Downloading(p), download.step \in {"placed", "held"},
         merging = NoMerge, store' = Marked(p, TRUE), files' = files,
         merging' = merging, cmd' = cmd, Crosses("download"),
         \/ download' = NoDownload
         \/ download' = [download EXCEPT !.step = "held"]
  PROVE  FInv'
<1>1. MarkedSo(p, TRUE)
  <2>1. PICK yes \in BOOLEAN : yes = TRUE
    OBVIOUS
  <2> QED BY <2>1, StateFields, MarkedRow DEF FInv
<1>2. p = download.path /\ download # NoDownload
  BY DEF Downloading
<1>3. download' = NoDownload \/
        /\ download' \in Downloads /\ download'.path = p /\ download'.got = download.got
        /\ download'.at = download.at /\ download'.hash = download.hash
        /\ download'.step = "held"
  <2>1. CASE download' = [download EXCEPT !.step = "held"]
    <3>1. download \in Downloads
      BY <1>2, DownloadFields DEF FInv
    <3> QED BY <1>2, <2>1, <3>1 DEF Downloads
  <2> QED BY <2>1
<1>4. DownloadOnly(p)
  BY <1>1, <1>2, <1>3, NothingMoved, DownloadFields, CrossedPaths
     DEF FInv, MarkedSo, DownloadOnly
<1>5. ASSUME PathTrue(p)
      PROVE  /\ RowTrue(store'.rows[p], files'[Disk(p)])
             /\ Downloading(p)' =>
                  DownloadTrue(download', store'.rows[p], files'[Part(p)], files'[Disk(p)])
  <2>1. DownloadTrue(download, store.rows[p], files[Part(p)], files[Disk(p)])
    BY <1>5 DEF PathTrue
  <2>2. /\ IsLive(store.rows[p]) /\ store.rows[p].hash = download.hash
        /\ files[Disk(p)] = Whole(download.hash)
    BY <2>1 DEF DownloadTrue
  <2>3. /\ store'.rows[p] \in Row /\ store'.rows[p].hash = download.hash
        /\ store'.rows[p].removed = store.rows[p].removed
    BY <1>1, <2>2 DEF MarkedSo, IsLive
  <2>4. IsLive(store'.rows[p])
    BY <2>2, <2>3, RowsLive DEF IsLive, IsRemoved
  <2> QED BY <1>3, <2>2, <2>3, <2>4 DEF DownloadTrue, RowTrue, Downloading
<1> QED BY <1>4, <1>5, DownloadKeeps

LEMMA MarkHeldKeeps ==
  ASSUME FInv, MarkHeld
  PROVE  FInv'
<1>1. PICK p \in Paths : p = download.path /\ Downloading(p)
  BY DownloadFields DEF FInv, MarkHeld
<1> QED BY <1>1, MarkingKeeps DEF MarkHeld, Free, Idle

LEMMA BlobDoneKeeps ==
  ASSUME FInv, BlobDone
  PROVE  FInv'
<1>1. PICK p \in Paths : p = download.path /\ Downloading(p)
  BY DownloadFields DEF FInv, BlobDone
<1> QED BY <1>1, MarkingKeeps DEF BlobDone, Free, Idle

-----------------------------------------------------------------------------
(***************************************************************************)
(* A step of a command: what it does to its own path is all it does, but   *)
(* that a download's open partial there is followed where it goes.         *)
(***************************************************************************)
DownloadKept(p) ==
  \/ download = NoDownload /\ download' = NoDownload
  \/ /\ download # NoDownload /\ download' # NoDownload /\ download' \in Downloads
     /\ download'.step = download.step /\ download'.path = download.path
     /\ download'.hash = download.hash /\ download'.got = download.got
     /\ download'.at \in {Nowhere, Part(download.path), Disk(download.path)}
     /\ download.path # p => download' = download

LEMMA Trails ==
  ASSUME StatePart, NEW p \in Paths, NEW x \in {Part(p), Disk(p)}, NEW y \in {Nowhere, Disk(p)},
         download # NoDownload,
         download' = [download EXCEPT !.at = Follow(download.at, x, y)]
  PROVE  DownloadKept(p)
<1>1. /\ download \in Downloads /\ download.path \in Paths
      /\ download.at \in {Nowhere, Part(download.path), Disk(download.path)}
  BY DownloadFields
<1>2. PICK at : at = Follow(download.at, x, y)
  OBVIOUS
<1>3. /\ at \in {Nowhere, Part(download.path), Disk(download.path)}
      /\ download.path # p => at = download.at
  BY <1>1, <1>2, PlacesApart DEF Follow
<1>4. at \in Places \cup {Nowhere}
  BY <1>1, <1>3, PlacesApart
<1>5. download' = [step |-> download.step, path |-> download.path, hash |-> download.hash,
                   resume |-> download.resume, at |-> at, got |-> download.got]
  BY <1>1, <1>2 DEF Downloads
<1>6. download' \in Downloads /\ download'.step # "none"
  BY <1>1, <1>4, <1>5 DEF Downloads
<1>7. download.path # p => download' = download
  BY <1>1, <1>3, <1>5 DEF Downloads
<1> QED BY <1>3, <1>5, <1>6, <1>7, Unlike DEF DownloadKept

LEMMA NothingTrails ==
  ASSUME StatePart, download' = download, NEW p \in Paths
  PROVE  DownloadKept(p)
BY DownloadFields DEF DownloadKept

CommandOnly(p) ==
  /\ OnlyAt(files, files', p)
  /\ store' \in Stores /\ \A q \in Paths : q # p => store'.rows[q] = store.rows[q]
  /\ merging' = merging /\ crossed' \subseteq Paths
  /\ DownloadKept(p)
  /\ cmd = NoCmd \/ cmd.path = p
  /\ cmd' = NoCmd \/ (cmd' \in Adds /\ cmd'.path = p) \/ (cmd' \in Others /\ cmd'.path = p)

LEMMA CommandElsewhere ==
  ASSUME FInv, NEW p \in Paths, CommandOnly(p), NEW q \in Paths, q # p, q \notin crossed
  PROVE  PathTrue(q)'
<1>1. PathTrue(q)
  BY DEF FInv, PathPart
<1>2. ~Changed(q)
  BY DEF CommandOnly, OnlyAt, Changed
<1>3. Downloading(q)' => Downloading(q) /\ download' = download
  BY DEF CommandOnly, DownloadKept, Downloading
<1>4. ~Commanded(q) /\ ~Commanded(q)' /\ ~Placing(q)
  BY DEF CommandOnly, Commanded, Placing
<1> QED BY <1>1, <1>2, <1>3, <1>4, QuietPath DEF CommandOnly

LEMMA CommandState ==
  ASSUME StatePart, NEW p \in Paths, CommandOnly(p), store' = store \/ merging = NoMerge
  PROVE  StatePart'
<1>1. /\ store' \in Stores /\ files' \in Disks /\ crossed' \subseteq Paths /\ merging' = merging
      /\ cmd' = NoCmd \/ cmd' \in Adds \/ cmd' \in Others
  BY DEF CommandOnly, OnlyAt
<1>2. merging = NoMerge \/
       /\ merging \in Merges
       /\ \A q \in Paths \ merging.paths : merging.store.rows[q] = store'.rows[q]
  BY DEF StatePart
<1>3. download' = NoDownload \/
       /\ download' \in Downloads /\ download'.got # NoFile
       /\ download'.at \in {Nowhere, Part(download'.path), Disk(download'.path)}
  BY DownloadFields DEF CommandOnly, DownloadKept
<1> QED BY <1>1, <1>2, <1>3 DEF StatePart

LEMMA CommandKeeps ==
  ASSUME FInv, NEW p \in Paths, CommandOnly(p), Crosses("cmd"),
         store' = store \/ merging = NoMerge,
         PathTrue(p) /\ Alone("cmd", p) =>
           /\ p \notin merging.paths /\ ~Placing(p)' => RowTrue(store'.rows[p], files'[Disk(p)])
           /\ Downloading(p) /\ download.step = "open" => download'.at = download.at
           /\ Commanded(p)' =>
                CommandTrue(cmd', store'.rows[p], files'[Part(p)], files'[Disk(p)], merging.paths)
  PROVE  FInv'
<1>1. StatePart'
  BY CommandState DEF FInv
<1>2. ASSUME NEW q \in Paths \ crossed' PROVE PathTrue(q)'
  <2>1. Alone("cmd", q)
    BY <1>2, CrossesSays
  <2>2. CASE q # p
    BY <1>2, <2>1, <2>2, CommandElsewhere DEF Alone
  <2>3. CASE q = p
    <3>1. PathTrue(p) /\ Alone("cmd", p)
      BY <2>1, <2>3 DEF FInv, PathPart, Alone
    <3>2. merging' = merging /\ (Downloading(p)' <=> Downloading(p))
      BY DEF CommandOnly, DownloadKept, Downloading
    <3>3. ASSUME p \in merging.paths
          PROVE  RowTrue(merging.store.rows[p], files'[Disk(p)]) /\ ~Downloading(p)'
      <4>1. files'[Disk(p)] = files[Disk(p)]
        BY <3>1, <3>3 DEF Alone, Changed
      <4> QED BY <3>1, <3>2, <3>3, <4>1 DEF PathTrue
    <3>4. ASSUME Downloading(p)
          PROVE  DownloadTrue(download', store'.rows[p], files'[Part(p)], files'[Disk(p)])
      <4>1. /\ store'.rows[p] = store.rows[p] /\ files'[Disk(p)] = files[Disk(p)]
            /\ files'[Part(p)] = files[Part(p)]
        BY <3>1, <3>4 DEF Alone, Changed
      <4>2. /\ download'.step = download.step /\ download'.hash = download.hash
            /\ download'.got = download.got /\ download'.path = download.path
        BY <3>4 DEF CommandOnly, DownloadKept, Downloading
      <4>3. download.step = "open" => download'.at = download.at
        BY <3>1, <3>4
      <4>4. DownloadTrue(download, store.rows[p], files[Part(p)], files[Disk(p)])
        BY <3>1, <3>4 DEF PathTrue
      <4> QED BY <4>1, <4>2, <4>3, <4>4 DEF DownloadTrue
    <3>5. /\ p \notin merging.paths /\ ~Placing(p)' => RowTrue(store'.rows[p], files'[Disk(p)])
          /\ Commanded(p)' =>
               CommandTrue(cmd', store'.rows[p], files'[Part(p)], files'[Disk(p)], merging.paths)
      BY <3>1
    <3> QED BY <2>3, <3>2, <3>3, <3>4, <3>5 DEF PathTrue
  <2> QED BY <2>2, <2>3
<1> QED BY <1>1, <1>2 DEF FInv, PathPart

LEMMA CommandFields ==
  ASSUME StatePart, cmd # NoCmd
  PROVE  /\ cmd.path \in Paths /\ Commanded(cmd.path)
         /\ cmd.op = "add" => cmd \in Adds
         /\ cmd.op # "add" => cmd \in Others
  BY DEF StatePart, Adds, Others, Commanded

LEMMA NoCommand ==
  ASSUME NEW p
  PROVE  cmd = NoCmd => ~Commanded(p) /\ ~Placing(p)
  BY DEF Commanded, Placing

-----------------------------------------------------------------------------
(***************************************************************************)
(* The steps of the commands.                                              *)
(***************************************************************************)
LEMMA AddStageKeeps ==
  ASSUME FInv, NEW p \in Paths, NEW h \in Hashes, NEW at \in Times, NEW force \in BOOLEAN,
         AddStage(p, h, at, force)
  PROVE  FInv'
<1>1. PICK no \in BOOLEAN :
        no = (Twins(store, p, h) # {} \/ (IsLive(store.rows[p]) /\ (store.rows[p].hash = h \/ ~force)))
  OBVIOUS
<1>2. /\ cmd = NoCmd /\ store' = store /\ merging' = merging /\ Crosses("cmd")
      /\ IF no THEN files' = Unlinked(files, Part(p)) /\ cmd' = cmd
         ELSE /\ files' = [files EXCEPT ![Part(p)] = Whole(h)]
              /\ cmd' = [op |-> "add", path |-> p, hash |-> h, at |-> at,
                         force |-> force, step |-> "staged"]
      /\ download' = IF no /\ download # NoDownload
                     THEN [download EXCEPT !.at = Follow(download.at, Part(p), Nowhere)]
                     ELSE download
  BY <1>1 DEF AddStage
<1>3. files \in Disks /\ store \in Stores /\ crossed' \subseteq Paths
  BY <1>2, StateFields, CrossedPaths DEF FInv
<1>4. ~Commanded(p) /\ ~Placing(p)
  BY <1>2, NoCommand
<1>5. CASE no
  <2>1. InPart(files, files', p, NoFile)
    BY <1>2, <1>3, <1>5, PartUnlinked
  <2>2. DownloadKept(p)
    <3>1. CASE download = NoDownload
      BY <1>2, <3>1, NothingTrails DEF FInv
    <3>2. CASE download # NoDownload
      BY <1>2, <1>5, <3>2, Trails DEF FInv
    <3> QED BY <3>1, <3>2
  <2>3. cmd' = NoCmd
    BY <1>2, <1>5
  <2>4. CommandOnly(p)
    BY <1>2, <1>3, <2>1, <2>2, <2>3 DEF CommandOnly, InPart
  <2>5. ASSUME PathTrue(p), Alone("cmd", p), Downloading(p), download.step = "open"
        PROVE  FALSE
    <3>1. files[Part(p)] = download.got /\ download.got # NoFile
      BY <2>5, DownloadFields DEF FInv, PathTrue, DownloadTrue, Downloading
    <3> QED BY <2>1, <2>5, <3>1 DEF Alone, Changed, InPart
  <2>6. ~Commanded(p)' /\ ~Placing(p)'
    BY <2>3 DEF Commanded, Placing
  <2>7. ASSUME PathTrue(p), p \notin merging.paths
        PROVE  RowTrue(store'.rows[p], files'[Disk(p)])
    BY <1>2, <1>4, <2>1, <2>7 DEF PathTrue, InPart
  <2> QED BY <1>2, <2>4, <2>5, <2>6, <2>7, CommandKeeps
<1>6. CASE ~no
  <2>1. InPart(files, files', p, Whole(h))
    <3>1. PICK bytes : bytes = Whole(h)
      OBVIOUS
    <3>2. bytes \in Seq(Nat)
      BY <3>1, RowAssumption DEF RowAssumption, Whole
    <3> QED BY <1>2, <1>3, <1>6, <3>1, <3>2, PartWritten
  <2>2. download' = download /\ DownloadKept(p)
    BY <1>2, <1>6, NothingTrails DEF FInv
  <2>3. cmd' = [op |-> "add", path |-> p, hash |-> h, at |-> at, force |-> force, step |-> "staged"]
    BY <1>2, <1>6
  <2>4. cmd' \in Adds /\ cmd'.path = p
    BY <2>3, StoreAssumption DEF StoreAssumption, Adds
  <2>5. CommandOnly(p)
    BY <1>2, <1>3, <2>1, <2>2, <2>4 DEF CommandOnly, InPart
  <2>6. CommandTrue(cmd', store'.rows[p], files'[Part(p)], files'[Disk(p)], merging.paths)
    <3>1. ~IsLive(store.rows[p]) \/ (store.rows[p].hash # h /\ force)
      BY <1>1, <1>6
    <3>2. files'[Part(p)] = Whole(h)
      BY <2>1 DEF InPart
    <3> QED BY <1>2, <2>3, <3>1, <3>2 DEF CommandTrue
  <2>7. ASSUME PathTrue(p), p \notin merging.paths
        PROVE  RowTrue(store'.rows[p], files'[Disk(p)])
    BY <1>2, <1>4, <2>1, <2>7 DEF PathTrue, InPart
  <2> QED BY <1>2, <2>2, <2>5, <2>6, <2>7, CommandKeeps
<1> QED BY <1>5, <1>6

LEMMA AddCommitKeeps ==
  ASSUME FInv, AddCommit
  PROVE  FInv'
<1>1. PICK p \in Paths : p = cmd.path /\ Commanded(p)
  BY CommandFields DEF FInv, AddCommit
<1>2. /\ cmd # NoCmd /\ cmd.op = "add" /\ cmd.step = "staged"
      /\ store' = store /\ merging' = merging /\ Crosses("cmd")
      /\ \/ files[Part(p)] = NoFile /\ cmd' = NoCmd /\ files' = files /\ download' = download
         \/ /\ files[Part(p)] # NoFile
            /\ cmd' = [cmd EXCEPT !.step = "placed"] /\ files' = Renamed(files, Part(p), Disk(p))
            /\ download' = IF download = NoDownload THEN download
                           ELSE [download EXCEPT !.at = Follow(download.at, Part(p), Disk(p))]
  BY <1>1 DEF AddCommit
<1>3. files \in Disks /\ store \in Stores /\ crossed' \subseteq Paths /\ cmd \in Adds
  BY <1>2, StateFields, CrossedPaths, CommandFields DEF FInv
<1>4. ASSUME PathTrue(p)
      PROVE  /\ files[Part(p)] = Whole(cmd.hash)
             /\ ~IsLive(store.rows[p]) \/ (store.rows[p].hash # cmd.hash /\ cmd.force)
  BY <1>1, <1>2, <1>4 DEF PathTrue, CommandTrue
<1>5. CASE files[Part(p)] = NoFile /\ cmd' = NoCmd /\ files' = files /\ download' = download
  <2>1. CommandOnly(p)
    BY <1>1, <1>2, <1>3, <1>5, NothingMoved, NothingTrails DEF FInv, CommandOnly
  <2>2. ~PathTrue(p)
    BY <1>4, <1>5, WholeIsAFile
  <2> QED BY <1>2, <2>1, <2>2, CommandKeeps
<1>6. CASE /\ files[Part(p)] # NoFile
           /\ cmd' = [cmd EXCEPT !.step = "placed"] /\ files' = Renamed(files, Part(p), Disk(p))
           /\ download' = IF download = NoDownload THEN download
                          ELSE [download EXCEPT !.at = Follow(download.at, Part(p), Disk(p))]
  <2>1. PutInPlace(files, files', p)
    BY <1>3, <1>6, PartPlaced
  <2>2. DownloadKept(p)
    <3>1. CASE download = NoDownload
      BY <1>6, <3>1, NothingTrails DEF FInv
    <3>2. CASE download # NoDownload
      BY <1>6, <3>2, Trails DEF FInv
    <3> QED BY <3>1, <3>2
  <2>3. cmd' = [op |-> "add", path |-> p, hash |-> cmd.hash, at |-> cmd.at,
                force |-> cmd.force, step |-> "placed"]
    BY <1>1, <1>2, <1>3, <1>6 DEF Adds
  <2>4. cmd' \in Adds /\ cmd'.path = p
    BY <1>3, <2>3 DEF Adds
  <2>5. CommandOnly(p)
    BY <1>1, <1>2, <1>3, <2>1, <2>2, <2>4 DEF CommandOnly, PutInPlace
  <2>6. ASSUME Alone("cmd", p) PROVE ~Downloading(p)
    BY <1>6, <2>1, <2>6 DEF Alone, Changed, PutInPlace
  <2>7. Placing(p)'
    <3>1. cmd' # NoCmd
      BY <2>3 DEF NoCmd
    <3> QED BY <2>3, <3>1 DEF Placing, Commanded
  <2>8. ASSUME PathTrue(p)
        PROVE  CommandTrue(cmd', store'.rows[p], files'[Part(p)], files'[Disk(p)], merging.paths)
    BY <1>2, <1>4, <2>1, <2>3, <2>8 DEF CommandTrue, PutInPlace
  <2> QED BY <1>2, <2>5, <2>6, <2>7, <2>8, CommandKeeps
<1> QED BY <1>2, <1>5, <1>6

LEMMA RecordPuts ==
  ASSUME NEW s \in Stores, NEW p \in Paths, NEW h \in Hashes, NEW at \in Nat \ {0},
         NEW t, t = Record(s, p, h, at)
  PROVE  /\ t \in Stores /\ \A q \in Paths : q # p => t.rows[q] = s.rows[q]
         /\ t.rows[p].hash = h /\ IsLive(t.rows[p])
<1>1. PICK row : row = [hash |-> h, added |-> at, removed |-> 0, have |-> TRUE, seen |-> 0]
  OBVIOUS
<1>2. PICK yes \in BOOLEAN : yes = TRUE
  OBVIOUS
<1>3. row \in Row /\ row.hash = h /\ row.removed = 0
  BY <1>1 DEF Row
<1>4. Put(s, t, p, row, yes)
  BY <1>1, <1>2, <1>3, WriteRowPuts DEF Record
<1>5. IsLive(t.rows[p])
  BY <1>3, <1>4, RowsLive DEF Put, IsLive, IsRemoved
<1> QED BY <1>3, <1>4, <1>5 DEF Put

LEMMA AddRecordKeeps ==
  ASSUME FInv, AddRecord
  PROVE  FInv'
<1>1. PICK p \in Paths : p = cmd.path /\ Commanded(p)
  BY CommandFields DEF FInv, AddRecord
<1>2. /\ cmd # NoCmd /\ cmd.op = "add" /\ cmd.step = "placed" /\ merging = NoMerge
      /\ cmd' = NoCmd /\ files' = files /\ download' = download /\ merging' = merging
      /\ Crosses("cmd")
      /\ store' = IF IsLive(store.rows[p]) /\ (store.rows[p].hash = cmd.hash \/ ~cmd.force)
                  THEN store ELSE Record(store, p, cmd.hash, cmd.at)
  BY <1>1 DEF AddRecord, Free
<1>3. store \in Stores /\ crossed' \subseteq Paths /\ cmd \in Adds
  BY <1>2, StateFields, CrossedPaths, CommandFields DEF FInv
<1>4. cmd.hash \in Hashes /\ cmd.at \in Nat \ {0}
  BY <1>3 DEF Adds
<1>5. store' \in Stores /\ \A q \in Paths : q # p => store'.rows[q] = store.rows[q]
  BY <1>2, <1>3, <1>4, RecordPuts
<1>6. CommandOnly(p)
  BY <1>1, <1>2, <1>3, <1>5, NothingMoved, NothingTrails DEF FInv, CommandOnly
<1>7. ~Commanded(p)' /\ ~Placing(p)'
  BY <1>2 DEF Commanded, Placing
<1>8. ASSUME PathTrue(p) PROVE RowTrue(store'.rows[p], files'[Disk(p)])
  <2>1. /\ ~IsLive(store.rows[p]) \/ (store.rows[p].hash # cmd.hash /\ cmd.force)
        /\ files[Disk(p)] = Whole(cmd.hash)
    BY <1>1, <1>2, <1>8 DEF PathTrue, CommandTrue
  <2>2. store' = Record(store, p, cmd.hash, cmd.at)
    BY <1>2, <2>1
  <2>3. store'.rows[p].hash = cmd.hash
    BY <1>3, <1>4, <2>2, RecordPuts
  <2> QED BY <1>2, <2>1, <2>3 DEF RowTrue
<1> QED BY <1>2, <1>6, <1>7, <1>8, CommandKeeps

(***************************************************************************)
(* remove: a tombstone or no row, neither of which claims anything.        *)
(***************************************************************************)
LEMMA RemovedRow ==
  ASSUME NEW s \in Stores, NEW p \in Paths, IsLive(s.rows[p]), NEW at \in Nat, at # 0,
         NEW t, t = RemoveRow(s, p, at)
  PROVE  /\ t \in Stores /\ \A q \in Paths : q # p => t.rows[q] = s.rows[q]
         /\ ~IsLive(t.rows[p])
<1>1. CASE s.rows[p].seen > s.served
  <2>1. PICK n : n = s.seq + 1
    OBVIOUS
  <2>2. t = [rows |-> [s.rows EXCEPT ![p] = Absent], seq |-> n, served |-> s.served]
    BY <1>1, <2>1 DEF RemoveRow, Stores
  <2>3. n \in Nat /\ s.rows \in [Paths -> Row \cup {Absent}] /\ s.served \in Nat
    BY <2>1, StoreRows
  <2>4. t \in Stores
    BY <2>2, <2>3 DEF Stores
  <2>5. t.rows = [s.rows EXCEPT ![p] = Absent]
    BY <2>2
  <2> QED BY <2>3, <2>4, <2>5 DEF IsLive
<1>2. CASE ~(s.rows[p].seen > s.served)
  <2>1. t = Tombstone(s, p, at) /\ s.rows[p] \in Row
    BY <1>2, StoreRows, RowsLive DEF RemoveRow
  <2>2. Buried(s, t, p, at)
    BY <2>1, TombstonePuts
  <2> QED BY <2>2 DEF Buried, IsLive, IsRemoved
<1> QED BY <1>1, <1>2

LEMMA RemoveKeeps ==
  ASSUME FInv, NEW p \in Paths, NEW at \in Times, Remove(p, at)
  PROVE  FInv'
<1>1. /\ cmd = NoCmd /\ merging = NoMerge /\ IsLive(store.rows[p])
      /\ store' = RemoveRow(store, p, at) /\ cmd' = [op |-> "remove", path |-> p]
      /\ files' = files /\ download' = download /\ merging' = merging /\ Crosses("cmd")
  BY DEF Remove, Free
<1>2. store \in Stores /\ crossed' \subseteq Paths /\ at \in Nat /\ at # 0
  BY <1>1, StateFields, CrossedPaths, StoreAssumption DEF FInv, StoreAssumption
<1>3. /\ store' \in Stores /\ \A q \in Paths : q # p => store'.rows[q] = store.rows[q]
      /\ ~IsLive(store'.rows[p])
  BY <1>1, <1>2, RemovedRow
<1>4. CommandOnly(p)
  <2>1. cmd' \in Others /\ cmd'.path = p
    BY <1>1 DEF Others
  <2> QED BY <1>1, <1>2, <1>3, <2>1, NothingMoved, NothingTrails DEF FInv, CommandOnly
<1>5. CommandTrue(cmd', store'.rows[p], files'[Part(p)], files'[Disk(p)], merging.paths)
  BY <1>1, <1>3 DEF CommandTrue
<1>6. RowTrue(store'.rows[p], files'[Disk(p)])
  BY <1>3 DEF RowTrue
<1> QED BY <1>1, <1>4, <1>5, <1>6, CommandKeeps

LEMMA RemoveBytesKeeps ==
  ASSUME FInv, RemoveBytes
  PROVE  FInv'
<1>1. PICK p \in Paths : p = cmd.path /\ Commanded(p)
  BY CommandFields DEF FInv, RemoveBytes
<1>2. /\ cmd # NoCmd /\ cmd.op = "remove" /\ files' = Unlinked(files, Disk(p)) /\ cmd' = NoCmd
      /\ download' = IF download = NoDownload THEN download
                     ELSE [download EXCEPT !.at = Follow(download.at, Disk(p), Nowhere)]
      /\ store' = store /\ merging' = merging /\ Crosses("cmd")
  BY <1>1 DEF RemoveBytes
<1>3. files \in Disks /\ store \in Stores /\ crossed' \subseteq Paths
  BY <1>2, StateFields, CrossedPaths DEF FInv
<1>4. InPlace(files, files', p, NoFile)
  BY <1>2, <1>3, PlaceUnlinked
<1>5. DownloadKept(p)
  <2>1. CASE download = NoDownload
    BY <1>2, <2>1, NothingTrails DEF FInv
  <2>2. CASE download # NoDownload
    BY <1>2, <2>2, Trails DEF FInv
  <2> QED BY <2>1, <2>2
<1>6. CommandOnly(p)
  BY <1>1, <1>2, <1>3, <1>4, <1>5 DEF CommandOnly, InPlace
<1>7. ASSUME PathTrue(p)
      PROVE  ~IsLive(store.rows[p]) /\ ~Downloading(p)
  <2>1. ~IsLive(store.rows[p])
    BY <1>1, <1>2, <1>7 DEF PathTrue, CommandTrue
  <2> QED BY <1>7, <2>1 DEF PathTrue, DownloadTrue
<1>8. ASSUME PathTrue(p) PROVE RowTrue(store'.rows[p], files'[Disk(p)])
  BY <1>2, <1>7, <1>8 DEF RowTrue
<1>9. ~Commanded(p)'
  BY <1>2 DEF Commanded
<1> QED BY <1>2, <1>6, <1>7, <1>8, <1>9, CommandKeeps

(***************************************************************************)
(* verify.                                                                 *)
(***************************************************************************)
LEMMA VerifyKeeps ==
  ASSUME FInv, NEW p \in Paths, Verify(p)
  PROVE  FInv'
<1>1. /\ cmd = NoCmd /\ IsLive(store.rows[p]) /\ store.rows[p].have /\ files[Disk(p)] = NoFile
      /\ cmd' = [op |-> "verify", path |-> p]
      /\ store' = store /\ files' = files /\ download' = download /\ merging' = merging
      /\ crossed' = crossed
  BY DEF Verify, Exists
<1>2. store \in Stores /\ crossed' \subseteq Paths /\ ~Placing(p)
  BY <1>1, StateFields, NoCommand DEF FInv
<1>3. CommandOnly(p)
  <2>1. cmd' \in Others /\ cmd'.path = p
    BY <1>1 DEF Others
  <2> QED BY <1>1, <1>2, <2>1, NothingMoved, NothingTrails DEF FInv, CommandOnly
<1>4. ASSUME PathTrue(p) PROVE p \in merging.paths
  BY <1>1, <1>2, <1>4, WholeIsAFile DEF PathTrue, RowTrue
<1>5. ASSUME PathTrue(p)
      PROVE  CommandTrue(cmd', store'.rows[p], files'[Part(p)], files'[Disk(p)], merging.paths)
  BY <1>1, <1>4, <1>5 DEF CommandTrue
<1> QED BY <1>1, <1>3, <1>4, <1>5, NothingCrossed, CommandKeeps

LEMMA VerifyMarkKeeps ==
  ASSUME FInv, VerifyMark
  PROVE  FInv'
<1>1. PICK p \in Paths : p = cmd.path /\ Commanded(p)
  BY CommandFields DEF FInv, VerifyMark
<1>2. /\ cmd # NoCmd /\ cmd.op = "verify" /\ merging = NoMerge
      /\ store' = Marked(p, FALSE) /\ cmd' = NoCmd
      /\ files' = files /\ download' = download /\ merging' = merging /\ Crosses("cmd")
  BY <1>1 DEF VerifyMark, Free
<1>3. crossed' \subseteq Paths
  BY <1>2, CrossedPaths DEF FInv
<1>4. MarkedSo(p, FALSE)
  <2>1. PICK no \in BOOLEAN : no = FALSE
    OBVIOUS
  <2> QED BY <1>2, <2>1, StateFields, MarkedRow DEF FInv
<1>5. CommandOnly(p)
  BY <1>1, <1>2, <1>3, <1>4, NothingMoved, NothingTrails DEF FInv, CommandOnly, MarkedSo
<1>6. ~PathTrue(p)
  BY <1>1, <1>2 DEF PathTrue, CommandTrue, NoMerge
<1> QED BY <1>2, <1>5, <1>6, CommandKeeps

(***************************************************************************)
(* A killed command leaves its path as it was, and an add's is crossed.    *)
(***************************************************************************)
LEMMA KillCommandKeeps ==
  ASSUME FInv, KillCommand
  PROVE  FInv'
<1>1. PICK p \in Paths : p = cmd.path /\ Commanded(p)
  BY CommandFields DEF FInv, KillCommand
<1>2. /\ cmd # NoCmd /\ cmd' = NoCmd
      /\ crossed' = IF cmd.op = "add" THEN crossed \cup {p} ELSE crossed
      /\ store' = store /\ files' = files /\ download' = download /\ merging' = merging
  BY <1>1 DEF KillCommand
<1>3. crossed \subseteq Paths /\ store \in Stores
  BY StateFields DEF FInv
<1>4. CommandOnly(p)
  BY <1>1, <1>2, <1>3, NothingMoved, NothingTrails DEF FInv, CommandOnly
<1>5. StatePart'
  BY <1>2, <1>4, CommandState DEF FInv
<1>6. ASSUME NEW q \in Paths \ crossed' PROVE PathTrue(q)'
  <2>1. PathTrue(q) /\ ~Changed(q)
    BY <1>2, <1>6 DEF FInv, PathPart, Changed
  <2>2. ~Placing(q) /\ ~Commanded(q)'
    BY <1>1, <1>2, <1>6 DEF Placing, Commanded
  <2>3. Downloading(q)' => Downloading(q) /\ download' = download
    BY <1>2 DEF Downloading
  <2> QED BY <1>2, <1>6, <2>1, <2>2, <2>3, QuietPath
<1> QED BY <1>5, <1>6 DEF FInv, PathPart

-----------------------------------------------------------------------------
(***************************************************************************)
(* What the daemon serves.                                                 *)
(***************************************************************************)
LEMMA ServeLogKeeps ==
  ASSUME FInv, ServeLog
  PROVE  FInv'
<1>1. /\ store' = [store EXCEPT !.served = store.seq]
      /\ files' = files /\ download' = download /\ cmd' = cmd /\ merging' = merging
      /\ crossed' = crossed
  BY DEF ServeLog
<1>2. store \in Stores
  BY StateFields DEF FInv
<1>3. store' = [rows |-> store.rows, seq |-> store.seq, served |-> store.seq]
  BY <1>1, <1>2 DEF Stores
<1>4. store' \in Stores /\ store'.rows = store.rows
  BY <1>2, <1>3 DEF Stores
<1>5. StatePart'
  BY <1>1, <1>4 DEF FInv, StatePart
<1>6. ASSUME NEW q \in Paths \ crossed' PROVE PathTrue(q)'
  <2>1. PathTrue(q)
    BY <1>1, <1>6 DEF FInv, PathPart
  <2> QED BY <1>1, <1>4, <2>1 DEF PathTrue, Downloading, Placing, Commanded
<1> QED BY <1>5, <1>6 DEF FInv, PathPart

LEMMA ServeFileKeeps ==
  ASSUME FInv, NEW p \in Paths, ServeFile(p)
  PROVE  FInv'
<1>1. /\ merging = NoMerge /\ IsLive(store.rows[p]) /\ store' = Marked(p, FALSE)
      /\ store.rows[p].have
      /\ files' = files /\ download' = download /\ cmd' = cmd /\ merging' = merging
      /\ Crosses("serve")
  BY DEF ServeFile, Free
<1>2. crossed' \subseteq Paths
  BY <1>1, CrossedPaths DEF FInv
<1>3. MarkedSo(p, FALSE)
  <2>1. PICK no \in BOOLEAN : no = FALSE
    OBVIOUS
  <2> QED BY <1>1, <2>1, StateFields, MarkedRow DEF FInv
<1>4. ~store'.rows[p].have /\ store'.rows[p] # store.rows[p]
  BY <1>1, <1>3 DEF MarkedSo, IsLive
<1>5. StatePart'
  <2>1. store' \in Stores
    BY <1>3 DEF MarkedSo
  <2> QED BY <1>1, <1>2, <2>1 DEF FInv, StatePart
<1>6. ASSUME NEW q \in Paths \ crossed' PROVE PathTrue(q)'
  <2>1. Alone("serve", q)
    BY <1>1, <1>6, CrossesSays
  <2>2. PathTrue(q)
    BY <2>1, <1>6 DEF FInv, PathPart, Alone
  <2>3. CASE q = p
    <3>1. ~Downloading(p) /\ ~Commanded(p) /\ p \notin merging.paths
      BY <1>4, <2>1, <2>3 DEF Alone, Changed
    <3>2. ~Downloading(p)' /\ ~Commanded(p)' /\ p \notin merging'.paths
      BY <1>1, <3>1 DEF Downloading, Commanded
    <3> QED BY <1>4, <2>3, <3>2, QuietAfter DEF RowTrue
  <2>4. CASE q # p
    <3>1. ~Changed(q)
      BY <1>1, <1>3, <2>4 DEF MarkedSo, Changed
    <3>2. /\ Downloading(q)' => Downloading(q) /\ download' = download
          /\ Commanded(q)' => Commanded(q) /\ cmd' = cmd
          /\ Placing(q) => Placing(q)'
      BY <1>1 DEF Downloading, Commanded, Placing
    <3> QED BY <1>1, <1>6, <2>2, <3>1, <3>2, QuietPath
  <2> QED BY <2>3, <2>4
<1> QED BY <1>5, <1>6 DEF FInv, PathPart

-----------------------------------------------------------------------------
(***************************************************************************)
(* A merge at paths where everything known was true, or at crossed ones.   *)
(***************************************************************************)
LEMMA Untainted ==
  ASSUME NEW paths \in SUBSET Paths, StatePart, crossed' = Tainted(paths)
  PROVE  /\ crossed \subseteq crossed' /\ crossed' \subseteq Paths
         /\ \A p \in paths : p \notin crossed' =>
              \A q \in paths : q \notin crossed /\ ~Downloading(q) /\ ~Commanded(q)
<1>1. crossed' = crossed \/ crossed' = crossed \cup paths
  BY DEF Tainted
<1>2. crossed \subseteq Paths
  BY StateFields
<1>3. ASSUME NEW p \in paths, p \notin crossed', NEW q \in paths
      PROVE  q \notin crossed /\ ~Downloading(q) /\ ~Commanded(q)
  <2>1. paths \cap (crossed \cup PathsOf("download") \cup PathsOf("cmd")) = {}
    BY <1>3 DEF Tainted
  <2>2. q \notin crossed /\ q \notin PathsOf("download") /\ q \notin PathsOf("cmd")
    BY <1>3, <2>1
  <2> QED BY <2>2, WhoIsThere
<1> QED BY <1>1, <1>2, <1>3

LEMMA MergeMovesKeeps ==
  ASSUME FInv, NEW e \in Listed, MergeMoves(e)
  PROVE  FInv'
<1>1. PICK now, n : now = Now /\ n = Merged(now, e)
  OBVIOUS
<1>2. PICK paths : paths = MergePaths(now, n, e)
  OBVIOUS
<1>3. now.store = store /\ now.files = files /\ now \in Kept
  BY <1>1, StateFields DEF FInv, Now, Kept
<1>4. /\ merging = NoMerge /\ files' = n.files /\ store' = store /\ cmd' = cmd
      /\ merging'.paths = paths /\ merging'.store = n.store
      /\ crossed' = Tainted(paths)
  BY <1>1, <1>2, <1>3 DEF MergeMoves, Free, MergePaths
<1>5. e \in Entries
  BY StoreAssumption DEF StoreAssumption
<1>6. MergeDone(now, n, e)
  BY <1>1, <1>3, <1>5, MergedTrue
<1>7. n \in Kept /\ PartsKept(now, n) /\ n.store \in Stores /\ n.files \in Disks
  BY <1>6, KeptFields DEF MergeDone
<1>8. /\ paths \in SUBSET Paths
      /\ \A p \in Paths \ paths : /\ n.store.rows[p] = store.rows[p]
                                  /\ files'[Disk(p)] = files[Disk(p)]
      /\ \A p \in Paths : files'[Part(p)] = files[Part(p)]
  BY <1>2, <1>3, <1>4, <1>7 DEF MergePaths, PartsKept
<1>9. merging' \in Merges
  <2>1. PICK had : had = {h \in Hashes : \E p \in paths :
                            /\ OnDisk(store, files, p) /\ store.rows[p].have /\ store.rows[p].hash = h
                            /\ Twins(store, p, h) = {}}
    OBVIOUS
  <2>2. merging' = [paths |-> paths, store |-> n.store, had |-> had]
    BY <1>1, <1>2, <1>3, <2>1 DEF MergeMoves, MergePaths
  <2>3. had \in SUBSET Hashes
    BY <2>1
  <2> QED BY <1>7, <1>8, <2>2, <2>3 DEF Merges
<1>10. /\ download' = download \/ (download # NoDownload /\ download.path \in paths)
       /\ download = NoDownload => download' = NoDownload
       /\ download # NoDownload =>
            \/ download' = download
            \/ download' = [download EXCEPT !.at = Nowhere] /\ download.path \in paths
  <2>1. PICK from : /\ from = {p \in paths : Exists(files, p) /\ ~Exists(n.files, p)}
                    /\ download' =
                         IF \E p \in from : download # NoDownload /\ download.at = Disk(p)
                         THEN [download EXCEPT !.at = Nowhere] ELSE download
    BY <1>1, <1>2, <1>3 DEF MergeMoves, MergePaths
  <2>2. ASSUME download # NoDownload, NEW p \in from, download.at = Disk(p)
        PROVE  download.path \in paths
    <3>1. p \in paths /\ p \in Paths
      BY <1>8, <2>1, <2>2
    <3>2. download.path \in Paths /\ download.at \in {Nowhere, Part(download.path), Disk(download.path)}
      BY <2>2, DownloadFields DEF FInv
    <3>3. download.path = p
      BY <2>2, <3>1, <3>2, PlacesApart
    <3> QED BY <3>1, <3>3
  <2> QED BY <2>1, <2>2
<1>11. DownloadKept(download.path)
  <2>1. CASE download = NoDownload
    BY <1>10, <2>1 DEF DownloadKept
  <2>2. CASE download # NoDownload
    <3>1. download \in Downloads /\ download.at \in {Nowhere, Part(download.path), Disk(download.path)}
      BY <2>2, DownloadFields DEF FInv
    <3>2. CASE download' = download
      BY <2>2, <3>1, <3>2 DEF DownloadKept
    <3>3. CASE download' = [download EXCEPT !.at = Nowhere]
      <4>1. download' = [step |-> download.step, path |-> download.path, hash |-> download.hash,
                         resume |-> download.resume, at |-> Nowhere, got |-> download.got]
        BY <3>1, <3>3 DEF Downloads
      <4>2. download' \in Downloads /\ download'.step # "none"
        BY <3>1, <4>1 DEF Downloads
      <4> QED BY <2>2, <4>1, <4>2, Unlike DEF DownloadKept
    <3> QED BY <1>10, <2>2, <3>2, <3>3
  <2> QED BY <2>1, <2>2
<1>12. StatePart'
  <2>1. download' = NoDownload \/
       /\ download' \in Downloads /\ download'.got # NoFile
       /\ download'.at \in {Nowhere, Part(download'.path), Disk(download'.path)}
    BY <1>11, DownloadFields DEF FInv, DownloadKept
  <2>2. crossed' \subseteq Paths
    BY <1>4, <1>8, Untainted DEF FInv
  <2>3. store' \in Stores /\ files' \in Disks
    BY <1>4, <1>7, StateFields DEF FInv
  <2>4. \A p \in Paths \ merging'.paths : merging'.store.rows[p] = store'.rows[p]
    BY <1>4, <1>8
  <2>5. cmd' = NoCmd \/ cmd' \in Adds \/ cmd' \in Others
    BY <1>4 DEF FInv, StatePart
  <2> QED BY <1>9, <2>1, <2>2, <2>3, <2>4, <2>5 DEF StatePart
<1>13. \A p : Downloading(p)' <=> Downloading(p)
  BY <1>11 DEF DownloadKept, Downloading
<1>14. \A p : (Commanded(p)' <=> Commanded(p)) /\ (Placing(p)' <=> Placing(p))
  BY <1>4 DEF Commanded, Placing
<1>15. \A p : p \notin merging.paths
  BY <1>4 DEF NoMerge
<1>16. ASSUME NEW p \in Paths \ crossed' PROVE PathTrue(p)'
  <2>1. CASE p \in paths
    <3>1. \A q \in paths : q \notin crossed /\ ~Downloading(q) /\ ~Commanded(q)
      BY <1>4, <1>8, <1>16, <2>1, Untainted DEF FInv
    <3>2. ASSUME NEW q \in paths PROVE ClaimTrue(now, q)
      <4>1. PathTrue(q) /\ ~Placing(q)
        BY <1>8, <3>1, <3>2 DEF FInv, PathPart, Placing
      <4> QED BY <1>3, <1>15, <4>1 DEF PathTrue, ClaimTrue
    <3>3. ClaimTrue(n, p)
      BY <1>2, <1>6, <2>1, <3>2 DEF MergeDone
    <3> QED BY <1>4, <1>13, <1>14, <2>1, <3>1, <3>3 DEF PathTrue, ClaimTrue
  <2>2. CASE p \notin paths
    <3>1. PathTrue(p)
      BY <1>4, <1>8, <1>16, Untainted DEF FInv, PathPart
    <3>2. /\ store'.rows[p] = store.rows[p] /\ files'[Disk(p)] = files[Disk(p)]
          /\ files'[Part(p)] = files[Part(p)]
      BY <1>4, <1>8, <1>16, <2>2
    <3>3. Downloading(p) => download' = download
      BY <1>10, <2>2 DEF Downloading
    <3>4. ASSUME Commanded(p)
          PROVE  CommandTrue(cmd', store'.rows[p], files'[Part(p)], files'[Disk(p)], merging'.paths)
      <4>1. CommandTrue(cmd, store.rows[p], files[Part(p)], files[Disk(p)], merging.paths)
        BY <3>1, <3>4 DEF PathTrue
      <4> QED BY <1>4, <1>15, <3>2, <4>1 DEF CommandTrue
    <3> QED BY <1>4, <1>13, <1>14, <1>15, <2>2, <3>1, <3>2, <3>3, <3>4 DEF PathTrue
  <2> QED BY <2>1, <2>2
<1> QED BY <1>12, <1>16 DEF FInv, PathPart

LEMMA MergeCommitsKeeps ==
  ASSUME FInv, MergeCommits
  PROVE  FInv'
<1>1. /\ merging # NoMerge /\ store' = merging.store /\ merging' = NoMerge
      /\ crossed' = Tainted(merging.paths)
      /\ files' = files /\ download' = download /\ cmd' = cmd
  BY DEF MergeCommits
<1>2. /\ merging.paths \in SUBSET Paths /\ merging.store \in Stores
      /\ \A p \in Paths \ merging.paths : merging.store.rows[p] = store.rows[p]
  BY <1>1 DEF FInv, StatePart, Merges
<1>3. StatePart'
  <2>1. crossed' \subseteq Paths
    BY <1>1, <1>2, Untainted DEF FInv
  <2> QED BY <1>1, <1>2, <2>1 DEF FInv, StatePart
<1>4. \A p : p \notin merging'.paths
  BY <1>1 DEF NoMerge
<1>5. \A p : /\ Downloading(p)' <=> Downloading(p)
             /\ Commanded(p)' <=> Commanded(p)
             /\ Placing(p)' <=> Placing(p)
  BY <1>1 DEF Downloading, Commanded, Placing
<1>6. ASSUME NEW p \in Paths \ crossed' PROVE PathTrue(p)'
  <2>1. PathTrue(p)
    BY <1>1, <1>2, <1>6, Untainted DEF FInv, PathPart
  <2>2. CASE p \in merging.paths
    <3>1. ~Downloading(p) /\ ~Commanded(p)
      BY <1>1, <1>2, <1>6, <2>2, Untainted DEF FInv
    <3>2. RowTrue(store'.rows[p], files'[Disk(p)])
      BY <1>1, <2>1, <2>2 DEF PathTrue
    <3> QED BY <1>4, <1>5, <1>6, <3>1, <3>2, QuietAfter
  <2>3. CASE p \notin merging.paths
    <3>1. store'.rows[p] = store.rows[p]
      BY <1>1, <1>2, <1>6, <2>3
    <3>2. ASSUME Commanded(p)
          PROVE  CommandTrue(cmd', store'.rows[p], files'[Part(p)], files'[Disk(p)], merging'.paths)
      <4>1. CommandTrue(cmd, store.rows[p], files[Part(p)], files[Disk(p)], merging.paths)
        BY <2>1, <3>2 DEF PathTrue
      <4>2. cmd.path = p
        BY <3>2 DEF Commanded
      <4> QED BY <1>1, <2>3, <3>1, <4>1, <4>2 DEF CommandTrue
    <3> QED BY <1>1, <1>4, <1>5, <2>1, <2>3, <3>1, <3>2 DEF PathTrue
  <2> QED BY <2>2, <2>3
<1> QED BY <1>3, <1>6 DEF FInv, PathPart

(***************************************************************************)
(* A killed daemon keeps the bytes of a download, and of a merge the files *)
(* where they are; it sweeps no partial a command is at.                   *)
(***************************************************************************)
LEMMA KillDaemonKeeps ==
  ASSUME FInv, NEW sweep \in BOOLEAN, KillDaemon(sweep)
  PROVE  FInv'
<1>1. PICK kept : kept = Unfinished \cup PathsOf("cmd")
  OBVIOUS
<1>2. /\ download' = NoDownload /\ merging' = NoMerge /\ crossed' = crossed \cup merging.paths
      /\ files' = [x \in Places |-> IF sweep /\ x[1] = "part" /\ x[2] \notin kept
                                    THEN NoFile ELSE files[x]]
      /\ store' = store /\ cmd' = cmd
  BY <1>1 DEF KillDaemon
<1>3. store \in Stores /\ files \in Disks /\ crossed \subseteq Paths /\ merging.paths \subseteq Paths
  BY StateFields DEF FInv, StatePart, Merges, NoMerge
<1>4. files' \in Disks
  <2>1. NoFile \in Seq(Nat)
    BY DEF NoFile
  <2> QED BY <1>2, <1>3, <2>1 DEF Disks
<1>5. StatePart'
  BY <1>2, <1>3, <1>4 DEF FInv, StatePart
<1>6. ASSUME NEW p \in Paths
      PROVE  /\ files'[Disk(p)] = files[Disk(p)]
             /\ Commanded(p) => files'[Part(p)] = files[Part(p)]
  <2>1. Disk(p) \in Places /\ Disk(p)[1] = "disk"
    BY AllApart DEF Disk
  <2>2. Part(p) \in Places /\ Part(p)[2] = p
    BY AllApart DEF Part
  <2>3. Commanded(p) => p \in kept
    BY <1>1, WhoIsThere
  <2> QED BY <1>2, <2>1, <2>2, <2>3
<1>7. ASSUME NEW p \in Paths \ crossed' PROVE PathTrue(p)'
  <2>1. PathTrue(p) /\ p \notin merging.paths
    BY <1>2, <1>7 DEF FInv, PathPart
  <2>2. ~Downloading(p)' /\ p \notin merging'.paths
    BY <1>2 DEF Downloading, NoMerge
  <2>3. (Commanded(p)' <=> Commanded(p)) /\ (Placing(p)' <=> Placing(p))
    BY <1>2 DEF Commanded, Placing
  <2>4. ASSUME Commanded(p)
        PROVE  CommandTrue(cmd', store'.rows[p], files'[Part(p)], files'[Disk(p)], merging'.paths)
    <3>1. CommandTrue(cmd, store.rows[p], files[Part(p)], files[Disk(p)], merging.paths)
      BY <2>1, <2>4 DEF PathTrue
    <3>2. cmd.path = p
      BY <2>4 DEF Commanded
    <3> QED BY <1>2, <1>6, <2>1, <2>4, <3>1, <3>2 DEF CommandTrue
  <2> QED BY <1>2, <1>6, <2>1, <2>2, <2>3, <2>4 DEF PathTrue
<1> QED BY <1>5, <1>7 DEF FInv, PathPart

-----------------------------------------------------------------------------
(***************************************************************************)
(* At first there is nothing: no row, no file and nobody at work.          *)
(***************************************************************************)
LEMMA Initially ==
  ASSUME Init
  PROVE  FInv
<1>1. /\ store = [rows |-> [p \in Paths |-> Absent], seq |-> 0, served |-> 0]
      /\ files = [x \in Places |-> NoFile]
      /\ download = NoDownload /\ cmd = NoCmd /\ merging = NoMerge /\ crossed = {}
  BY DEF Init
<1>2. store \in Stores /\ \A p \in Paths : store.rows[p] = Absent
  BY <1>1 DEF Stores
<1>3. files \in Disks
  BY <1>1 DEF Disks, NoFile
<1>4. StatePart
  BY <1>1, <1>2, <1>3 DEF StatePart
<1>5. ASSUME NEW p \in Paths PROVE PathTrue(p)
  BY <1>1, <1>2 DEF PathTrue, RowTrue, IsLive, Downloading, Placing, Commanded, NoMerge
<1> QED BY <1>4, <1>5 DEF FInv, PathPart

LEMMA StepKeeps ==
  ASSUME FInv, [Next]_vars
  PROVE  FInv'
<1>1. ASSUME Daemon PROVE FInv'
  BY <1>1, MergeMovesKeeps, MergeCommitsKeeps, ServeLogKeeps, ServeFileKeeps, FetchKeeps,
     FetchLocalKeeps, ReplyKeeps, ParkKeeps, EndKeeps, MarkHeldKeeps, BlobDoneKeeps, ChunkKeeps,
     KillDaemonKeeps, ZenonT(30) DEF Daemon
<1>2. ASSUME Commands PROVE FInv'
  BY <1>2, AddStageKeeps, AddCommitKeeps, AddRecordKeeps, RemoveKeeps, RemoveBytesKeeps,
     VerifyKeeps, VerifyMarkKeeps, KillCommandKeeps, ZenonT(30) DEF Commands
<1>3. ASSUME UNCHANGED vars PROVE FInv'
  BY <1>3 DEF vars, FInv, StatePart, PathPart, PathTrue, Downloading, Commanded, Placing
<1> QED BY <1>1, <1>2, <1>3 DEF Next

LEMMA HoldsOf ==
  ASSUME FInv
  PROVE  HeldIsOnDisk
<1>1. ASSUME NEW p \in Paths \ (crossed \cup PathsOf("download") \cup PathsOf("cmd")
                                  \cup PathsOf("merge"))
      PROVE  IsLive(store.rows[p]) /\ store.rows[p].have =>
               files[Disk(p)] = Whole(store.rows[p].hash)
  <2>1. PathTrue(p)
    BY <1>1 DEF FInv, PathPart
  <2>2. p \notin merging.paths /\ ~Placing(p)
    BY <1>1, WhoIsThere DEF Placing
  <2> QED BY <2>1, <2>2 DEF PathTrue, RowTrue
<1> QED BY <1>1 DEF HeldIsOnDisk

(***************************************************************************)
(* What a row claims to hold is on disk, whole and of the content it       *)
(* names, at every path where no operation is under way and no two ever    *)
(* overlapped or an add or merge was killed: mark_held, record, move_bytes *)
(* and the marks of verify and of serving never say what is not so.        *)
(***************************************************************************)
THEOREM HeldIsOnDiskCorrect == Spec => []HeldIsOnDisk
<1>1. Init => FInv
  BY Initially
<1>2. FInv /\ [Next]_vars => FInv'
  BY StepKeeps
<1>3. FInv => HeldIsOnDisk
  BY HoldsOf
<1> QED BY <1>1, <1>2, <1>3, PTL DEF Spec

-----------------------------------------------------------------------------
(***************************************************************************)
(* A conflict name, and a file of the content it names.                    *)
(***************************************************************************)
Named(p, hash) == Len(p) = 2 => hash = p[2]

OwnNames(s) == \A p \in Paths : IsLive(s.rows[p]) => Named(p, s.rows[p].hash)

LEMMA ConflictNamed ==
  ASSUME NEW p \in Paths, NEW h \in Hashes
  PROVE  /\ Named(ConflictName(p, h), h)
         /\ \A hash : Named(ConflictName(p, h), hash) => hash = h
         /\ ConflictName(p, h) = p => Len(p) = 2 /\ p[2] = h
  BY DEF Named, ConflictName, Paths

(***************************************************************************)
(* Content that is on disk under a live row, one that claims it, and       *)
(* content no live row has.                                                *)
(***************************************************************************)
Copy(n, p, h) ==
  IsLive(n.store.rows[p]) /\ n.store.rows[p].hash = h /\ n.files[Disk(p)] = Whole(h)

HeldCopy(n, p, h) == Copy(n, p, h) /\ n.store.rows[p].have

NoneBut(n, p, h) ==
  \A r \in Paths \ {p} : IsLive(n.store.rows[r]) => n.store.rows[r].hash # h

Unclaimed(n, h) == \A r \in Paths : IsLive(n.store.rows[r]) => n.store.rows[r].hash # h

LEMMA SameCopy ==
  ASSUME NEW n, NEW m, NEW p, Same(n, m, p), NEW h
  PROVE  (Copy(n, p, h) => Copy(m, p, h)) /\ (HeldCopy(n, p, h) => HeldCopy(m, p, h))
  BY DEF Same, Copy, HeldCopy

LEMMA HeldExists ==
  ASSUME NEW n, NEW p, NEW h, HeldCopy(n, p, h)
  PROVE  Holds(n.store, n.files, p) /\ ClaimTrue(n, p)
  BY WholeIsAFile DEF HeldCopy, Copy, Holds, Exists, ClaimTrue, RowTrue

(***************************************************************************)
(* merge's first half writes nothing, one row, or one row after what was   *)
(* at its path was moved away.                                             *)
(***************************************************************************)
HalfMade(n, w, p, e, local, settled) ==
  \/ w = n
  \/ \E have \in BOOLEAN : RowSet(n, w, p, settled, have)
  \/ /\ p = e.path /\ IsLive(local) /\ local.hash # e.hash /\ local.hash \in Hashes
     /\ \E d : /\ MovedAway(n, d, p, ConflictName(p, local.hash))
               /\ RowSet(d, w, p, settled, FALSE)

LEMMA HalfShape ==
  ASSUME NEW n \in Kept, NEW e \in Entries,
         NEW local, local = n.store.rows[e.path], ~Rejects(local, RowOf(e)),
         NEW settled, settled = SettledRow(local, RowOf(e)),
         NEW p, p = SettledAt(n, e), NEW w, w = Half(n, e)
  PROVE  /\ HalfMade(n, w, p, e, local, settled)
         /\ e.path \in Paths /\ e.hash \in Hashes /\ settled \in Row /\ settled.hash = e.hash
         /\ p \in Paths /\ (p = e.path \/ p = ConflictName(e.path, e.hash))
<1> DEFINE row == RowOf(e)
<1>1. /\ e.path \in Paths /\ e.hash \in Hashes /\ e.hash # 0
      /\ local \in Row \cup {Absent} /\ local.have \in BOOLEAN
      /\ n.store \in Stores /\ IsStore(n.store)
  <2>1. e.path \in Paths /\ e.hash \in Hashes /\ e.hash # 0
    BY RowAssumption DEF Entries, RowAssumption
  <2>2. local \in Row \cup {Absent}
    BY <2>1, KeptFields
  <2>3. CASE local \in Row
    BY <2>1, <2>2, <2>3, KeptFields, RowsLive DEF Row
  <2>4. CASE local = Absent
    BY <2>1, <2>2, <2>4, KeptFields, RowsLive DEF Absent
  <2> QED BY <2>2, <2>3, <2>4
<1>2. row \in Row /\ row.hash = e.hash /\ settled \in Row /\ settled.hash = e.hash
  BY <1>1, SettledType
<1>3. /\ p \in Paths /\ (p # e.path => BothLive(local, row) /\ ~WinsPath(row, local))
      /\ p # e.path => p = ConflictName(e.path, e.hash)
  BY <1>1, <1>2, ConflictPath DEF SettledAt, SettledPath
<1>4. BothLive(local, row) => IsLive(local) /\ local.hash # e.hash /\ local.hash \in Hashes
  <2>1. local \in Row => local.hash \in Hashes
    BY DEF Row
  <2> QED BY <1>1, <1>2, <2>1, RowsLive DEF BothLive
<1> HIDE DEF row
<1>5. PICK have \in BOOLEAN : have = (local.have /\ local.hash = settled.hash /\ p = e.path)
  BY <1>1
<1>6. CASE Displaces(local, row)
  <2>1. PICK d : d = Displaced(n, e.path)
    OBVIOUS
  <2>2. PICK away : away = ConflictName(e.path, local.hash)
    OBVIOUS
  <2>3. /\ p = e.path /\ IsLive(local) /\ local.hash # e.hash /\ have = FALSE
        /\ local.hash \in Hashes
    BY <1>2, <1>3, <1>4, <1>5, <1>6 DEF Displaces
  <2>4. MovedAway(n, d, e.path, away) /\ d \in Kept
    <3>1. /\ e.path \in Paths /\ IsLive(n.store.rows[e.path])
          /\ away = ConflictName(e.path, n.store.rows[e.path].hash)
      BY <1>1, <2>2, <2>3
    <3>2. MovedAway(n, d, e.path, away)
      BY <2>1, <3>1, DisplacedEffect
    <3> QED BY <3>2 DEF MovedAway
  <2>5. RowSet(d, w, p, settled, have)
    <3>1. w = [d EXCEPT !.store = WriteRow(d.store, p, settled, have)]
      BY <1>2, <1>5, <1>6, <2>1, <2>3 DEF Half, Unchanged, row
    <3> QED BY <1>2, <1>3, <2>4, <3>1, RowPut
  <2> QED BY <1>1, <1>2, <1>3, <2>2, <2>3, <2>4, <2>5 DEF HalfMade
<1>7. CASE ~Displaces(local, row) /\ p = e.path /\ Unchanged(local, settled)
  <2>1. w = n
    BY <1>2, <1>7 DEF Half, row
  <2> QED BY <1>1, <1>2, <1>3, <2>1 DEF HalfMade
<1>8. CASE ~Displaces(local, row) /\ ~(p = e.path /\ Unchanged(local, settled))
  <2>1. w = [n EXCEPT !.store = WriteRow(n.store, p, settled, have)]
    BY <1>5, <1>8 DEF Half, row
  <2>2. RowSet(n, w, p, settled, have)
    BY <1>2, <1>3, <2>1, RowPut
  <2> QED BY <1>1, <1>2, <1>3, <2>2 DEF HalfMade
<1> QED BY <1>6, <1>7, <1>8

(***************************************************************************)
(* It puts no other content under a conflict name (conflict_name).         *)
(***************************************************************************)
LEMMA HalfNames ==
  ASSUME NEW n \in Kept, OwnNames(n.store), NEW e \in Entries, Named(e.path, e.hash),
         NEW local, local = n.store.rows[e.path], ~Rejects(local, RowOf(e)),
         NEW settled, settled = SettledRow(local, RowOf(e)),
         NEW p, p = SettledAt(n, e), NEW w, w = Half(n, e)
  PROVE  OwnNames(w.store)
<1>1. /\ HalfMade(n, w, p, e, local, settled)
      /\ e.path \in Paths /\ e.hash \in Hashes /\ settled.hash = e.hash
      /\ p \in Paths /\ (p = e.path \/ p = ConflictName(e.path, e.hash))
  BY HalfShape
<1>2. Named(p, e.hash)
  BY <1>1, ConflictNamed
<1>3. ASSUME NEW have \in BOOLEAN, NEW d, OwnNames(d.store), RowSet(d, w, p, settled, have)
      PROVE  OwnNames(w.store)
  <2>1. ASSUME NEW q \in Paths, IsLive(w.store.rows[q]) PROVE Named(q, w.store.rows[q].hash)
    <3>1. CASE q = p
      BY <1>1, <1>2, <1>3, <3>1 DEF RowSet, Put
    <3>2. CASE q # p
      BY <1>3, <2>1, <3>2 DEF RowSet, Same, OwnNames
    <3> QED BY <3>1, <3>2
  <2> QED BY <2>1 DEF OwnNames
<1>4. CASE \E have \in BOOLEAN : RowSet(n, w, p, settled, have)
  BY <1>3, <1>4
<1>5. ASSUME p = e.path, local.hash \in Hashes, NEW d,
             MovedAway(n, d, p, ConflictName(p, local.hash)), RowSet(d, w, p, settled, FALSE)
      PROVE  OwnNames(w.store)
  <2>1. PICK away : away = ConflictName(p, local.hash) /\ away \in Paths /\ Named(away, local.hash)
    BY <1>1, <1>5, ConflictNamed, ConflictPath
  <2>2. ASSUME NEW q \in Paths, IsLive(w.store.rows[q]) PROVE Named(q, w.store.rows[q].hash)
    <3>1. CASE q = p
      BY <1>1, <1>2, <1>5, <3>1 DEF RowSet, Put
    <3>2. CASE q # p /\ q = away
      <4>1. w.store.rows[q].hash = local.hash
        BY <1>5, <2>1, <3>2 DEF RowSet, Same, MovedAway
      <4> QED BY <2>1, <3>2, <4>1
    <3>3. CASE q # p /\ q # away
      <4>1. w.store.rows[q] = n.store.rows[q]
        BY <1>5, <2>1, <3>3 DEF RowSet, Same, MovedAway
      <4> QED BY <2>2, <4>1 DEF OwnNames
    <3> QED BY <3>1, <3>2, <3>3
  <2> QED BY <2>2 DEF OwnNames
<1> QED BY <1>1, <1>4, <1>5 DEF HalfMade

(***************************************************************************)
(* merge's first half keeps the only copy of a content: where it was, at   *)
(* the name it is moved away to, or at one that is now said not to hold    *)
(* it and has no twin; or else no live row has the content any more.       *)
(***************************************************************************)
HalfKeeps(w, p, h) ==
  \/ \E q \in Paths : HeldCopy(w, q, h)
  \/ Unclaimed(w, h)
  \/ Copy(w, p, h) /\ NoneBut(w, p, h)

LEMMA HalfKeepsCopy ==
  ASSUME NEW n \in Kept, OwnNames(n.store), NEW e \in Entries, Named(e.path, e.hash),
         NEW local, local = n.store.rows[e.path], ~Rejects(local, RowOf(e)),
         NEW settled, settled = SettledRow(local, RowOf(e)),
         NEW p, p = SettledAt(n, e), NEW w, w = Half(n, e),
         NEW h, NEW x \in Paths, HeldCopy(n, x, h), NoneBut(n, x, h)
  PROVE  HalfKeeps(w, p, h)
<1>1. /\ HalfMade(n, w, p, e, local, settled)
      /\ e.path \in Paths /\ e.hash \in Hashes /\ settled.hash = e.hash /\ p \in Paths
  BY HalfShape
<1>2. CASE w = n
  BY <1>2 DEF HalfKeeps
<1>3. ASSUME NEW have \in BOOLEAN, RowSet(n, w, p, settled, have) PROVE HalfKeeps(w, p, h)
  <2>1. CASE x # p
    <3>1. HeldCopy(w, x, h)
      BY <1>3, <2>1, SameCopy DEF RowSet
    <3> QED BY <3>1 DEF HalfKeeps
  <2>2. x = p => NoneBut(w, p, h)
    BY <1>3 DEF NoneBut, RowSet, Same
  <2>3. w.store.rows[p].hash = e.hash /\ w.files = n.files
    BY <1>1, <1>3 DEF RowSet, Put
  <2>4. CASE x = p /\ (e.hash # h \/ ~IsLive(w.store.rows[p]))
    <3>1. Unclaimed(w, h)
      BY <2>2, <2>3, <2>4 DEF NoneBut, Unclaimed
    <3> QED BY <3>1 DEF HalfKeeps
  <2>5. CASE x = p /\ e.hash = h /\ IsLive(w.store.rows[p])
    <3>1. Copy(w, p, h)
      BY <2>3, <2>5 DEF HeldCopy, Copy
    <3> QED BY <2>2, <2>5, <3>1 DEF HalfKeeps
  <2> QED BY <2>1, <2>4, <2>5
<1>4. ASSUME p = e.path, IsLive(local), local.hash # e.hash, local.hash \in Hashes, NEW d,
             MovedAway(n, d, p, ConflictName(p, local.hash)), RowSet(d, w, p, settled, FALSE)
      PROVE  HalfKeeps(w, p, h)
  <2>1. PICK away : away = ConflictName(p, local.hash)
    OBVIOUS
  <2>2. away \in Paths /\ away # p /\ MovedAway(n, d, p, away)
    <3>1. ASSUME away = p PROVE FALSE
      <4>1. ConflictName(p, local.hash) = p
        BY <2>1, <3>1
      <4>2. Len(p) = 2 /\ p[2] = local.hash
        BY <1>1, <1>4, <4>1, ConflictNamed
      <4>3. Len(p) = 2 => e.hash = p[2]
        BY <1>4 DEF Named
      <4> QED BY <1>4, <4>2, <4>3
    <3>2. MovedAway(n, d, p, away)
      BY <1>4, <2>1
    <3> QED BY <3>1, <3>2 DEF MovedAway
  <2>3. CASE x = p
    <3>1. /\ d.store.rows[away].have /\ d.files[Disk(away)] = Whole(h)
          /\ IsLive(d.store.rows[away]) /\ d.store.rows[away].hash = h
      BY <2>2, <2>3, HeldExists DEF MovedAway, HeldCopy, Copy
    <3>2. HeldCopy(d, away, h) /\ Same(d, w, away)
      BY <1>4, <2>2, <3>1 DEF HeldCopy, Copy, RowSet
    <3> QED BY <2>2, <3>2, SameCopy DEF HalfKeeps
  <2>4. CASE x # p /\ x = away
    <3>1. IsLive(n.store.rows[x]) /\ n.store.rows[x].hash = h
      BY DEF HeldCopy, Copy
    <3>2. h = local.hash
      <4>1. Named(x, h)
        BY <3>1 DEF OwnNames
      <4>2. Named(ConflictName(p, local.hash), h)
        BY <2>1, <2>4, <4>1
      <4> QED BY <1>1, <1>4, <4>2, ConflictNamed
    <3> QED BY <1>1, <1>4, <2>4, <3>2 DEF NoneBut
  <2>5. CASE x # p /\ x # away
    <3>1. Same(n, d, x) /\ Same(d, w, x)
      BY <1>4, <2>2, <2>5 DEF MovedAway, RowSet
    <3>2. HeldCopy(w, x, h)
      BY <3>1, SameCopy
    <3> QED BY <3>2 DEF HalfKeeps
  <2> QED BY <2>3, <2>4, <2>5
<1> QED BY <1>1, <1>2, <1>3, <1>4 DEF HalfMade

(***************************************************************************)
(* So do both halves: where one of two files of one content is dropped,    *)
(* the one that stays is whole.                                            *)
(***************************************************************************)
JoinedTwins(w, m, p, q, h) ==
  /\ q \in Paths /\ q # p
  /\ IsLive(w.store.rows[p]) /\ w.store.rows[p].hash = h
  /\ IsLive(w.store.rows[q]) /\ w.store.rows[q].hash = h
  /\ Joined(w, m, p, q, h) \/ Joined(w, m, q, p, h)

LEMMA MergedShape ==
  ASSUME NEW n \in Kept, NEW e \in Entries, NEW m, m = Merged(n, e), m # n,
         NEW local, local = n.store.rows[e.path],
         NEW settled, settled = SettledRow(local, RowOf(e)),
         NEW p, p = SettledAt(n, e), NEW w, w = Half(n, e)
  PROVE  /\ ~Rejects(local, RowOf(e)) /\ HalfDone(n, w, p, e, settled)
         /\ m = w \/ \E q : JoinedTwins(w, m, p, q, e.hash)
<1>1. PICK q : q = Twin(w.store, p, settled.hash)
  OBVIOUS
<1>2. /\ ~Rejects(local, RowOf(e))
      /\ m = IF IsRemoved(settled) \/ Twins(w.store, p, settled.hash) = {} THEN w
             ELSE IF WinsHash(p, w.store.rows[p], q, w.store.rows[q]) THEN OneKept(w, p, q)
             ELSE OneKept(w, q, p)
  BY <1>1, MergedIsHalves
<1>3. HalfDone(n, w, p, e, settled)
  BY <1>2, HalfEffect
<1>4. /\ w \in Kept /\ p \in Paths /\ w.store.rows[p] \in Row /\ w.store.rows[p].hash = e.hash
      /\ w.store.rows[p].removed = settled.removed
  BY <1>3 DEF HalfDone
<1>5. settled.hash = e.hash
  <2>1. IsStore(n.store)
    BY KeptFields
  <2> QED BY <2>1, SettledType
<1>6. CASE IsRemoved(settled) \/ Twins(w.store, p, settled.hash) = {}
  BY <1>2, <1>3, <1>6
<1>7. CASE ~IsRemoved(settled) /\ Twins(w.store, p, settled.hash) # {}
  <2>1. w.store \in Stores /\ IsStore(w.store)
    BY <1>4, KeptFields
  <2>2. q \in Twins(w.store, p, settled.hash)
    BY <1>1, <1>4, <1>7, <2>1, TwinThere
  <2>3. q \in Paths /\ q # p /\ IsLive(w.store.rows[q]) /\ w.store.rows[q].hash = e.hash
    BY <1>5, <2>2 DEF Twins
  <2>4. IsLive(w.store.rows[p])
    BY <1>4, <1>7, RowsLive DEF IsLive, IsRemoved
  <2>5. m = OneKept(w, p, q) \/ m = OneKept(w, q, p)
    BY <1>2, <1>7
  <2>6. Joined(w, m, p, q, e.hash) \/ Joined(w, m, q, p, e.hash)
    BY <1>4, <2>3, <2>4, <2>5, OneKeptEffect
  <2> QED BY <1>2, <1>3, <1>4, <2>3, <2>4, <2>6 DEF JoinedTwins
<1> QED BY <1>6, <1>7

(***************************************************************************)
(* Nor does the second half.                                               *)
(***************************************************************************)
LEMMA MergedNames ==
  ASSUME NEW n \in Kept, OwnNames(n.store), NEW e \in Entries, Named(e.path, e.hash),
         NEW m, m = Merged(n, e), m # n
  PROVE  OwnNames(m.store)
<1>1. PICK local : local = n.store.rows[e.path]
  OBVIOUS
<1>2. PICK settled : settled = SettledRow(local, RowOf(e))
  OBVIOUS
<1>3. PICK p : p = SettledAt(n, e)
  OBVIOUS
<1>4. PICK w : w = Half(n, e)
  OBVIOUS
<1>5. /\ ~Rejects(local, RowOf(e)) /\ HalfDone(n, w, p, e, settled)
      /\ m = w \/ \E q : JoinedTwins(w, m, p, q, e.hash)
  BY <1>1, <1>2, <1>3, <1>4, MergedShape
<1>6. OwnNames(w.store) /\ p \in Paths
  BY <1>1, <1>2, <1>3, <1>4, <1>5, HalfNames DEF HalfDone
<1>7. ASSUME NEW q, JoinedTwins(w, m, p, q, e.hash) PROVE OwnNames(m.store)
  <2>1. /\ Named(p, e.hash) /\ Named(q, e.hash) /\ q \in Paths
        /\ m.store.rows[p].hash = e.hash /\ m.store.rows[q].hash = e.hash
        /\ \A r \in Paths : r # p /\ r # q => m.store.rows[r] = w.store.rows[r]
    BY <1>6, <1>7 DEF JoinedTwins, Joined, Same, OwnNames
  <2> QED BY <1>6, <2>1 DEF OwnNames
<1> QED BY <1>5, <1>6, <1>7

(***************************************************************************)
(* And the only copy of a content is kept: where the half left it, or at   *)
(* the other twin's path, to which it was moved or where it was as well.   *)
(***************************************************************************)
LEMMA MergedKeepsCopy ==
  ASSUME NEW n \in Kept, OwnNames(n.store), NEW e \in Entries, Named(e.path, e.hash),
         NEW m, m = Merged(n, e), m # n, \A r \in MergePaths(n, m, e) : ClaimTrue(n, r),
         NEW h, NEW x \in MergePaths(n, m, e), HeldCopy(n, x, h), NoneBut(n, x, h)
  PROVE  Unclaimed(m, h) \/ \E q \in MergePaths(n, m, e) : Copy(m, q, h)
<1>1. PICK local : local = n.store.rows[e.path]
  OBVIOUS
<1>2. PICK settled : settled = SettledRow(local, RowOf(e))
  OBVIOUS
<1>3. PICK p : p = SettledAt(n, e)
  OBVIOUS
<1>4. PICK w : w = Half(n, e)
  OBVIOUS
<1>5. /\ ~Rejects(local, RowOf(e)) /\ HalfDone(n, w, p, e, settled)
      /\ m = w \/ \E q : JoinedTwins(w, m, p, q, e.hash)
  BY <1>1, <1>2, <1>3, <1>4, MergedShape
<1>6. x \in Paths
  BY DEF MergePaths
<1>7. HalfKeeps(w, p, h) /\ p \in Paths
  BY <1>1, <1>2, <1>3, <1>4, <1>5, <1>6, HalfKeepsCopy DEF HalfDone
<1>8. ASSUME NEW q \in Paths, Copy(m, q, h) PROVE q \in MergePaths(n, m, e)
  <2>1. CASE q = x
    BY <2>1
  <2>2. CASE q # x
    <3>1. m.store.rows[q] # n.store.rows[q]
      BY <1>8, <2>2 DEF Copy, NoneBut
    <3> QED BY <3>1 DEF MergePaths
  <2> QED BY <2>1, <2>2
<1>9. CASE m = w
  BY <1>7, <1>8, <1>9 DEF HalfKeeps, HeldCopy
<1>10. ASSUME NEW q, JoinedTwins(w, m, p, q, e.hash)
       PROVE  Unclaimed(m, h) \/ \E r \in Paths : Copy(m, r, h)
  <2>1. /\ q \in Paths /\ q # p
        /\ IsLive(w.store.rows[p]) /\ w.store.rows[p].hash = e.hash
        /\ IsLive(w.store.rows[q]) /\ w.store.rows[q].hash = e.hash
        /\ m.store.rows[p].hash = e.hash /\ m.store.rows[q].hash = e.hash
        /\ \A r \in Paths : r # p /\ r # q => Same(w, m, r)
    BY <1>10 DEF JoinedTwins, Joined
  <2>2. CASE h # e.hash
    <3>1. ASSUME NEW r \in Paths, HeldCopy(w, r, h) PROVE Copy(m, r, h)
      <4>1. r # p /\ r # q
        BY <2>1, <2>2, <3>1 DEF HeldCopy, Copy
      <4> QED BY <2>1, <3>1, <4>1, SameCopy DEF HeldCopy
    <3>2. Unclaimed(w, h) => Unclaimed(m, h)
      BY <2>1, <2>2 DEF Unclaimed, Same
    <3>3. ~Copy(w, p, h)
      BY <2>1, <2>2 DEF Copy
    <3> QED BY <1>7, <3>1, <3>2, <3>3 DEF HalfKeeps
  <2>3. CASE h = e.hash
    <3>1. Same(n, w, q)
      BY <1>5, <2>1 DEF HalfDone
    <3>2. q = x
      BY <2>1, <2>3, <3>1 DEF Same, NoneBut
    <3>3. HeldCopy(w, q, h) /\ Holds(w.store, w.files, q)
      BY <3>1, <3>2, SameCopy, HeldExists
    <3>4. CASE Joined(w, m, q, p, e.hash)
      <4>1. Copy(m, q, h)
        BY <2>3, <3>3, <3>4 DEF Joined, HeldCopy, Copy
      <4> QED BY <2>1, <4>1
    <3>5. CASE Joined(w, m, p, q, e.hash)
      <4>1. p \in MergePaths(n, m, e)
        BY <1>7, <2>1 DEF MergePaths
      <4>2. ClaimTrue(w, p)
        BY <1>5, <4>1 DEF HalfDone
      <4>3. m.files[Disk(p)] = Whole(h)
        BY <2>1, <2>3, <3>3, <3>5, <4>2 DEF Joined, HeldCopy, Copy, ClaimTrue, RowTrue
      <4>4. Copy(m, p, h)
        BY <2>3, <3>5, <4>3 DEF Joined, Copy
      <4> QED BY <1>7, <4>4
    <3> QED BY <1>10, <3>4, <3>5 DEF JoinedTwins
  <2> QED BY <2>2, <2>3
<1> QED BY <1>5, <1>8, <1>9, <1>10

-----------------------------------------------------------------------------
(***************************************************************************)
(* The invariant of the copies, beside FInv: live rows at conflict names   *)
(* are of the content the name is of, and a merge under way that nothing   *)
(* crossed leaves each content it found held on disk under some row, or    *)
(* under none.  Users do not add under such names.                         *)
(***************************************************************************)
Then == [store |-> merging.store, files |-> files]

NamesPart ==
  /\ OwnNames(store)
  /\ merging # NoMerge => OwnNames(merging.store)
  /\ cmd.op = "add" => Len(cmd.path) = 1

CopyPart ==
  merging # NoMerge /\ merging.paths \cap crossed = {} =>
    \A h \in merging.had : Unclaimed(Then, h) \/ \E q \in merging.paths : Copy(Then, q, h)

KInv == NamesPart /\ CopyPart

(***************************************************************************)
(* What MergeKeepsACopy says of a step.                                    *)
(***************************************************************************)
CopyStep ==
  (merging # NoMerge /\ merging' = NoMerge /\ store' = merging.store
   /\ merging.paths \cap crossed = {}) =>
     \A h \in merging.had :
       (\E p \in Paths : IsLive(store'.rows[p]) /\ store'.rows[p].hash = h) =>
          \E p \in Paths : OnDisk(store', files', p) /\ store'.rows[p].hash = h

(***************************************************************************)
(* A step at no path of the merge, or one that crosses them, leaves what   *)
(* the merge has moved where it is.                                        *)
(***************************************************************************)
LEMMA BesideMerge ==
  ASSUME FInv, CopyPart, merging' = merging, crossed \subseteq crossed',
         \A p \in merging.paths : p \notin crossed' => files'[Disk(p)] = files[Disk(p)]
  PROVE  CopyPart' /\ CopyStep
<1>1. ASSUME merging # NoMerge, merging.paths \cap crossed' = {}, NEW h \in merging.had
      PROVE  Unclaimed(Then', h) \/ \E q \in merging.paths : Copy(Then', q, h)
  <2>1. Then.store = merging.store /\ Then.files = files
        /\ Then'.store = merging.store /\ Then'.files = files'
    BY DEF Then
  <2>2. Unclaimed(Then, h) \/ \E q \in merging.paths : Copy(Then, q, h)
    BY <1>1 DEF CopyPart
  <2>3. Unclaimed(Then, h) => Unclaimed(Then', h)
    BY <2>1 DEF Unclaimed
  <2>4. ASSUME NEW q \in merging.paths, Copy(Then, q, h) PROVE Copy(Then', q, h)
    BY <1>1, <2>1, <2>4 DEF Copy
  <2> QED BY <2>2, <2>3, <2>4
<1>2. CopyPart'
  BY <1>1 DEF CopyPart
<1> QED BY <1>2 DEF CopyStep

(***************************************************************************)
(* A step that writes no row.                                              *)
(***************************************************************************)
LEMMA BesideNames ==
  ASSUME NamesPart, merging' = merging, store' = store, cmd'.op = "add" => Len(cmd'.path) = 1
  PROVE  NamesPart'
  BY DEF NamesPart

(***************************************************************************)
(* A step of a transfer or a command: it crosses what it changes.          *)
(***************************************************************************)
LEMMA CrossingBeside ==
  ASSUME FInv, KInv, merging' = merging, store' = store,
         cmd'.op = "add" => Len(cmd'.path) = 1,
         NEW op \in {"download", "cmd", "serve"}, Crosses(op)
  PROVE  KInv' /\ CopyStep
<1>1. crossed \subseteq crossed'
  BY DEF Crosses
<1>2. ASSUME NEW p \in merging.paths, p \notin crossed' PROVE files'[Disk(p)] = files[Disk(p)]
  <2>1. p \in Paths
    BY DEF FInv, StatePart, Merges, NoMerge
  <2>2. Alone(op, p)
    BY <1>2, <2>1, CrossesSays
  <2> QED BY <1>2, <2>2 DEF Alone, Changed
<1> QED BY <1>1, <1>2, BesideMerge, BesideNames DEF KInv

(***************************************************************************)
(* A step that changes nothing on disk.                                    *)
(***************************************************************************)
LEMMA QuietBeside ==
  ASSUME FInv, KInv, merging' = merging, store' = store, files' = files,
         cmd'.op = "add" => Len(cmd'.path) = 1, crossed \subseteq crossed'
  PROVE  KInv' /\ CopyStep
  BY BesideMerge, BesideNames DEF KInv

(***************************************************************************)
(* A step that writes a row while no merge is under way.                   *)
(***************************************************************************)
LEMMA AloneNames ==
  ASSUME KInv, merging = NoMerge, merging' = merging, OwnNames(store'),
         cmd'.op = "add" => Len(cmd'.path) = 1
  PROVE  KInv' /\ CopyStep
  BY DEF KInv, NamesPart, CopyPart, CopyStep

(***************************************************************************)
(* One row written, of the content its path is named after.                *)
(***************************************************************************)
LEMMA OneRowNames ==
  ASSUME OwnNames(store), NEW p, \A q \in Paths : q # p => store'.rows[q] = store.rows[q],
         p \in Paths /\ IsLive(store'.rows[p]) => Named(p, store'.rows[p].hash)
  PROVE  OwnNames(store')
  BY DEF OwnNames

(***************************************************************************)
(* mark_have.                                                              *)
(***************************************************************************)
LEMMA MarkedNames ==
  ASSUME StatePart, OwnNames(store), NEW p \in Paths, NEW have \in BOOLEAN,
         store' = Marked(p, have)
  PROVE  OwnNames(store')
<1>1. MarkedSo(p, have)
  BY StateFields, MarkedRow
<1>2. CASE store.rows[p] = Absent
  BY <1>2 DEF Marked
<1>3. CASE store.rows[p] # Absent
  <2>1. IsLive(store'.rows[p]) => IsLive(store.rows[p])
    BY <1>1, <1>3 DEF MarkedSo, IsLive, IsRemoved
  <2>2. IsLive(store'.rows[p]) => Named(p, store'.rows[p].hash)
    BY <1>1, <1>3, <2>1 DEF MarkedSo, OwnNames
  <2> QED BY <1>1, <2>2, OneRowNames DEF MarkedSo
<1> QED BY <1>2, <1>3

(***************************************************************************)
(* A merge that begins, and what ends it: its commit, or a kill.           *)
(***************************************************************************)
ListedNamed == \A e \in Listed : Named(e.path, e.hash)

LEMMA MergeMovesCopies ==
  ASSUME FInv, KInv, ListedNamed, NEW e \in Listed, MergeMoves(e)
  PROVE  KInv' /\ CopyStep
<1>1. PICK now, n : now = Now /\ n = Merged(now, e)
  OBVIOUS
<1>2. PICK paths : paths = MergePaths(now, n, e)
  OBVIOUS
<1>3. now.store = store /\ now.files = files /\ now \in Kept
  BY <1>1, StateFields DEF FInv, Now, Kept
<1>4. /\ merging = NoMerge /\ files' = n.files /\ store' = store /\ cmd' = cmd /\ n # now
      /\ crossed' = Tainted(paths)
      /\ merging' = [paths |-> paths, store |-> n.store,
                     had |-> {h \in Hashes : \E p \in paths :
                                /\ OnDisk(store, files, p) /\ store.rows[p].have /\ store.rows[p].hash = h
                                /\ Twins(store, p, h) = {}}]
  BY <1>1, <1>2, <1>3 DEF MergeMoves, Free, MergePaths
<1>5. e \in Entries /\ Named(e.path, e.hash)
  BY StoreAssumption DEF StoreAssumption, ListedNamed
<1>6. OwnNames(store) /\ OwnNames(now.store)
  BY <1>3 DEF KInv, NamesPart
<1>7. OwnNames(n.store)
  BY <1>1, <1>3, <1>4, <1>5, <1>6, MergedNames
<1>8. NamesPart'
  BY <1>4, <1>7 DEF KInv, NamesPart
<1>9. ASSUME paths \cap crossed' = {}, NEW h, NEW x \in paths,
             OnDisk(store, files, x), store.rows[x].have, store.rows[x].hash = h,
             Twins(store, x, h) = {}
      PROVE  Unclaimed(n, h) \/ \E q \in paths : Copy(n, q, h)
  <2>1. paths \in SUBSET Paths
    BY <1>2 DEF MergePaths
  <2>2. ASSUME NEW q \in paths PROVE ClaimTrue(now, q)
    <3>1. q \in Paths /\ q \notin crossed /\ ~Downloading(q) /\ ~Commanded(q)
      BY <1>4, <1>9, <2>1, <2>2, Untainted DEF FInv
    <3>2. PathTrue(q) /\ ~Placing(q) /\ q \notin merging.paths
      BY <1>4, <3>1 DEF FInv, PathPart, Placing, NoMerge
    <3> QED BY <1>3, <3>2 DEF PathTrue, ClaimTrue
  <2>3. HeldCopy(now, x, h)
    BY <1>3, <1>9 DEF OnDisk, HeldCopy, Copy
  <2>4. NoneBut(now, x, h)
    BY <1>3, <1>9 DEF Twins, NoneBut
  <2> QED BY <1>1, <1>2, <1>3, <1>4, <1>5, <1>6, <2>2, <2>3, <2>4, MergedKeepsCopy
<1>10. CopyPart'
  <2>1. Then'.store = n.store /\ Then'.files = n.files
    BY <1>4 DEF Then
  <2>2. ASSUME NEW h PROVE Unclaimed(n, h) => Unclaimed(Then', h)
    BY <2>1 DEF Unclaimed
  <2>3. ASSUME NEW h, NEW q PROVE Copy(n, q, h) => Copy(Then', q, h)
    BY <2>1 DEF Copy
  <2>4. ASSUME merging'.paths \cap crossed' = {}, NEW h \in merging'.had
        PROVE  Unclaimed(Then', h) \/ \E q \in merging'.paths : Copy(Then', q, h)
    <3>1. paths \cap crossed' = {} /\ merging'.paths = paths
      BY <1>4, <2>4
    <3>2. PICK x \in paths : /\ OnDisk(store, files, x) /\ store.rows[x].have
                             /\ store.rows[x].hash = h /\ Twins(store, x, h) = {}
      BY <1>4, <2>4
    <3>3. Unclaimed(n, h) \/ \E q \in paths : Copy(n, q, h)
      BY <1>9, <3>1, <3>2
    <3> QED BY <2>2, <2>3, <3>1, <3>3
  <2> QED BY <2>4 DEF CopyPart
<1> QED BY <1>4, <1>8, <1>10 DEF KInv, CopyStep

(***************************************************************************)
(* What is true when the transaction ends is what MergeKeepsACopy says.    *)
(***************************************************************************)
LEMMA CopiesAtEnd ==
  ASSUME FInv, CopyPart, \A p \in Paths : files'[Disk(p)] = files[Disk(p)]
  PROVE  CopyStep
<1> SUFFICES ASSUME merging # NoMerge, store' = merging.store, merging.paths \cap crossed = {},
                    NEW h \in merging.had,
                    NEW r \in Paths, IsLive(store'.rows[r]), store'.rows[r].hash = h
             PROVE  \E p \in Paths : OnDisk(store', files', p) /\ store'.rows[p].hash = h
  BY DEF CopyStep
<1>1. Then.store = store' /\ Then.files = files
  BY DEF Then
<1>2. ~Unclaimed(Then, h)
  BY <1>1 DEF Unclaimed
<1>3. PICK q \in merging.paths : Copy(Then, q, h)
  BY <1>2 DEF CopyPart
<1>4. q \in Paths
  BY DEF FInv, StatePart, Merges, NoMerge
<1> QED BY <1>1, <1>3, <1>4 DEF Copy, OnDisk

(***************************************************************************)
(* Whichever way it ends, no file is moved by it.                          *)
(***************************************************************************)
LEMMA MergeEnds ==
  ASSUME FInv, KInv, merging' = NoMerge, store' = store \/ (merging # NoMerge /\ store' = merging.store),
         cmd' = cmd, \A p \in Paths : files'[Disk(p)] = files[Disk(p)]
  PROVE  KInv' /\ CopyStep
<1>1. NamesPart'
  BY DEF KInv, NamesPart
<1>2. CopyPart'
  BY DEF CopyPart
<1> QED BY <1>1, <1>2, CopiesAtEnd DEF KInv

(***************************************************************************)
(* A killed daemon sweeps partials only.                                   *)
(***************************************************************************)
LEMMA KillDaemonCopies ==
  ASSUME FInv, KInv, NEW sweep \in BOOLEAN, KillDaemon(sweep)
  PROVE  KInv' /\ CopyStep
<1>1. PICK kept : kept = Unfinished \cup PathsOf("cmd")
  OBVIOUS
<1>2. /\ merging' = NoMerge /\ store' = store /\ cmd' = cmd
      /\ files' = [x \in Places |-> IF sweep /\ x[1] = "part" /\ x[2] \notin kept
                                    THEN NoFile ELSE files[x]]
  BY <1>1 DEF KillDaemon
<1>3. ASSUME NEW p \in Paths PROVE files'[Disk(p)] = files[Disk(p)]
  <2>1. Disk(p) \in Places /\ Disk(p)[1] = "disk"
    BY AllApart DEF Disk
  <2> QED BY <1>2, <2>1
<1> QED BY <1>2, <1>3, MergeEnds

(***************************************************************************)
(* Every other step of the daemon.                                         *)
(***************************************************************************)
LEMMA TransferCopies ==
  ASSUME FInv, KInv,
         \/ \E p \in Paths : Fetch(p)
         \/ FetchLocal \/ Reply \/ Park \/ End \/ \E h \in Hashes : Chunk(h)
  PROVE  KInv' /\ CopyStep
<1>1. cmd.op = "add" => Len(cmd.path) = 1
  BY DEF KInv, NamesPart
<1>2. /\ merging' = merging /\ store' = store /\ cmd' = cmd
      /\ Crosses("download") \/ (files' = files /\ crossed' = crossed)
  BY DEF Fetch, FetchLocal, Reply, Park, End, Chunk, Idle
<1>3. CASE Crosses("download")
  BY <1>1, <1>2, <1>3, CrossingBeside
<1>4. CASE files' = files /\ crossed' = crossed
  BY <1>1, <1>2, <1>4, QuietBeside
<1> QED BY <1>2, <1>3, <1>4

LEMMA MarkingCopies ==
  ASSUME FInv, KInv, ServeLog \/ (\E p \in Paths : ServeFile(p)) \/ MarkHeld \/ BlobDone \/ VerifyMark
  PROVE  KInv' /\ CopyStep
<1>1. merging = NoMerge /\ merging' = merging /\ (cmd'.op = "add" => Len(cmd'.path) = 1)
  <2>1. CASE ServeLog \/ (\E p \in Paths : ServeFile(p)) \/ MarkHeld \/ BlobDone
    <3>1. merging = NoMerge /\ merging' = merging /\ cmd' = cmd
      BY <2>1 DEF ServeLog, ServeFile, MarkHeld, BlobDone, Free, Idle
    <3> QED BY <3>1 DEF KInv, NamesPart
  <2>2. CASE VerifyMark
    BY <2>2 DEF VerifyMark, Free, NoCmd
  <2> QED BY <2>1, <2>2
<1>2. CASE ServeLog
  <2>1. store'.rows = store.rows
    BY <1>2, StateFields DEF ServeLog, FInv, Stores
  <2>2. OwnNames(store')
    BY <2>1 DEF OwnNames, KInv, NamesPart
  <2> QED BY <1>1, <2>2, AloneNames
<1>3. CASE (\E p \in Paths : ServeFile(p)) \/ MarkHeld \/ BlobDone \/ VerifyMark
  <2>1. PICK p \in Paths, have \in BOOLEAN : store' = Marked(p, have)
    <3>1. CASE \E p \in Paths : ServeFile(p)
      BY <3>1 DEF ServeFile
    <3>2. CASE MarkHeld \/ BlobDone
      <4>1. download.path \in Paths /\ store' = Marked(download.path, TRUE)
        BY <3>2, DownloadFields DEF MarkHeld, BlobDone, FInv
      <4> QED BY <4>1
    <3>3. CASE VerifyMark
      <4>1. cmd.path \in Paths /\ store' = Marked(cmd.path, FALSE)
        BY <3>3, CommandFields DEF VerifyMark, FInv
      <4> QED BY <4>1
    <3> QED BY <1>3, <3>1, <3>2, <3>3
  <2>2. OwnNames(store')
    BY <2>1, MarkedNames DEF FInv, KInv, NamesPart
  <2> QED BY <1>1, <2>2, AloneNames
<1> QED BY <1>2, <1>3

(***************************************************************************)
(* And of the commands.                                                    *)
(***************************************************************************)
LEMMA CommandCopies ==
  ASSUME FInv, KInv, Commands
  PROVE  KInv' /\ CopyStep
<1>1. cmd.op = "add" => Len(cmd.path) = 1
  BY DEF KInv, NamesPart
<1>2. ASSUME NEW p \in Paths, NEW h \in Hashes, NEW at \in Times, NEW force \in BOOLEAN,
             Len(p) = 1, AddStage(p, h, at, force)
      PROVE  KInv' /\ CopyStep
  <2>1. merging' = merging /\ store' = store /\ Crosses("cmd")
    BY <1>2 DEF AddStage
  <2>2. cmd' = cmd \/ cmd'.path = p
    BY <1>2 DEF AddStage
  <2> QED BY <1>1, <1>2, <2>1, <2>2, CrossingBeside
<1>3. CASE AddCommit
  <2>1. cmd \in Adds
    BY <1>3, CommandFields DEF AddCommit, FInv
  <2>2. cmd' = NoCmd \/ cmd' = [cmd EXCEPT !.step = "placed"]
    BY <1>3 DEF AddCommit
  <2>3. cmd'.op = "add" => Len(cmd'.path) = 1
    BY <1>1, <2>1, <2>2 DEF NoCmd, Adds
  <2> QED BY <1>3, <2>3, CrossingBeside DEF AddCommit
<1>4. CASE AddRecord
  <2>1. PICK p \in Paths : p = cmd.path /\ Len(p) = 1
    BY <1>1, <1>4, CommandFields DEF FInv, AddRecord
  <2>2. cmd \in Adds /\ cmd.hash \in Hashes /\ cmd.at \in Nat \ {0}
    <3>1. cmd \in Adds
      BY <1>4, CommandFields DEF FInv, AddRecord
    <3> QED BY <3>1 DEF Adds
  <2>3. /\ merging = NoMerge /\ merging' = merging /\ cmd' = NoCmd
        /\ store' = store \/ store' = Record(store, p, cmd.hash, cmd.at)
    BY <1>4, <2>1 DEF AddRecord, Free
  <2>4. \A q \in Paths : q # p => store'.rows[q] = store.rows[q]
    BY <2>2, <2>3, StateFields, RecordPuts DEF FInv
  <2>5. OwnNames(store')
    BY <2>1, <2>4, OneRowNames DEF Named, KInv, NamesPart
  <2> QED BY <2>3, <2>5, AloneNames DEF NoCmd
<1>5. ASSUME NEW p \in Paths, NEW at \in Times, Remove(p, at) PROVE KInv' /\ CopyStep
  <2>1. /\ merging = NoMerge /\ merging' = merging /\ IsLive(store.rows[p])
        /\ store' = RemoveRow(store, p, at) /\ cmd' = [op |-> "remove", path |-> p]
    BY <1>5 DEF Remove, Free
  <2>2. at \in Nat /\ at # 0 /\ store \in Stores
    BY StoreAssumption, StateFields DEF StoreAssumption, FInv
  <2>3. (\A q \in Paths : q # p => store'.rows[q] = store.rows[q]) /\ ~IsLive(store'.rows[p])
    BY <2>1, <2>2, RemovedRow
  <2>4. OwnNames(store')
    BY <2>3, OneRowNames DEF KInv, NamesPart
  <2> QED BY <2>1, <2>4, AloneNames
<1>6. CASE RemoveBytes
  BY <1>6, CrossingBeside DEF RemoveBytes, NoCmd
<1>7. ASSUME NEW p \in Paths, Verify(p) PROVE KInv' /\ CopyStep
  BY <1>7, QuietBeside DEF Verify
<1>8. CASE VerifyMark
  BY <1>8, MarkingCopies
<1>9. CASE KillCommand
  BY <1>9, QuietBeside DEF KillCommand, NoCmd
<1> QED BY <1>2, <1>3, <1>4, <1>5, <1>6, <1>7, <1>8, <1>9 DEF Commands

(***************************************************************************)
(* Every step.                                                             *)
(***************************************************************************)
LEMMA StepCopies ==
  ASSUME FInv, KInv, ListedNamed, [Next]_vars
  PROVE  KInv' /\ [CopyStep]_vars
<1>1. CASE UNCHANGED vars
  <2>1. KInv'
    BY <1>1 DEF vars, KInv, NamesPart, CopyPart, Then
  <2> QED BY <1>1, <2>1
<1>2. ASSUME NEW e \in Listed, MergeMoves(e) PROVE KInv' /\ CopyStep
  BY <1>2, MergeMovesCopies
<1>3. CASE MergeCommits
  BY <1>3, MergeEnds DEF MergeCommits
<1>4. ASSUME NEW sweep \in BOOLEAN, KillDaemon(sweep) PROVE KInv' /\ CopyStep
  BY <1>4, KillDaemonCopies
<1>5. CASE Daemon
  BY <1>2, <1>3, <1>4, <1>5, TransferCopies, MarkingCopies, ZenonT(30) DEF Daemon
<1> QED BY <1>1, <1>5, CommandCopies DEF Next

(***************************************************************************)
(* At first there is no row.                                               *)
(***************************************************************************)
LEMMA CopiesStart ==
  ASSUME Init
  PROVE  KInv
<1>1. /\ store.rows = [p \in Paths |-> Absent] /\ merging = NoMerge /\ cmd.op = "none"
  BY DEF Init, NoCmd
<1> QED BY <1>1 DEF KInv, NamesPart, CopyPart, OwnNames, IsLive

(***************************************************************************)
(* A merge that finds the claims of its paths true never loses the only    *)
(* copy (move_bytes and dedup in merge): content that was whole on disk    *)
(* under a live row is so afterwards as long as any live row has it.  The  *)
(* peers list under a conflict name the content it is named after, as this *)
(* node itself does (NamesPart): conflict_name derives it from the content *)
(* only (path.rs:103), and no user adds other content under such a name.   *)
(***************************************************************************)
THEOREM MergeKeepsACopyCorrect ==
  ASSUME ListedNamed
  PROVE  Spec => MergeKeepsACopy
<1>1. Init => FInv /\ KInv
  BY Initially, CopiesStart
<1>2. FInv /\ KInv /\ [Next]_vars => FInv' /\ KInv' /\ [CopyStep]_vars
  BY StepKeeps, StepCopies
<1>3. FInv /\ KInv /\ [Next]_vars =>
        [(merging # NoMerge /\ merging' = NoMerge /\ store' = merging.store
          /\ merging.paths \cap crossed = {}) =>
           \A h \in merging.had :
             (\E p \in Paths : IsLive(store'.rows[p]) /\ store'.rows[p].hash = h) =>
                \E p \in Paths : OnDisk(store', files', p) /\ store'.rows[p].hash = h]_vars
  BY <1>2 DEF CopyStep
<1> QED BY <1>1, <1>2, <1>3, PTL DEF Spec, MergeKeepsACopy

=============================================================================
