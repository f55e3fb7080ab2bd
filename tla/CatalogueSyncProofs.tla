------------------------ MODULE CatalogueSyncProofs -------------------------
(***************************************************************************)
(* What the exchange of catalogues guarantees, for any nodes, rows, page   *)
(* size and clocks, however messages are lost, delayed or overtaken.       *)
(*                                                                         *)
(* First the rules that settle a group's file rows: which of two wins is   *)
(* never in doubt, and merging one row from a peer keeps one copy of any   *)
(* content, keeps removed content removed, and writes the log as its       *)
(* readers need it.                                                        *)
(*                                                                         *)
(* The invariant CInv says what makes it so.  A store's log is in order    *)
(* and its cached digest true; a read stands at the cursor it was started  *)
(* from; and a page on its way still holds every row of its sender that    *)
(* lies between the positions it names, as the row is now, because what    *)
(* changed since is past them.                                             *)
(***************************************************************************)
EXTENDS CatalogueSync, FiniteSetTheorems, WellFoundedInduction, TLAPS

-----------------------------------------------------------------------------
(***************************************************************************)
(* What the rules compare are numbers.                                     *)
(***************************************************************************)
LEMMA Comparable ==
  ASSUME NEW a \in Row
  PROVE  ChangedAt(a) \in Nat /\ a.hash \in Nat /\ a.added \in Nat /\ a.removed \in Nat
<1>1. a.hash \in Nat
  BY RowAssumption DEF RowAssumption, Row
<1>2. a.added \in Nat /\ a.removed \in Nat
  BY DEF Row
<1> QED BY <1>1, <1>2 DEF ChangedAt, Larger

(***************************************************************************)
(* Of two versions of a path with different contents exactly one wins      *)
(* (wins_path), and winning is transitive: nodes that compare the same     *)
(* versions in different orders end with the same one.                     *)
(***************************************************************************)
THEOREM WinsPathTotal ==
  ASSUME NEW a \in Row, NEW b \in Row, a.hash # b.hash
  PROVE  WinsPath(a, b) <=> ~WinsPath(b, a)
BY Comparable DEF WinsPath

THEOREM WinsPathTransitive ==
  ASSUME NEW a \in Row, NEW b \in Row, NEW c \in Row, WinsPath(a, b), WinsPath(b, c)
  PROVE  WinsPath(a, c)
BY Comparable DEF WinsPath

(***************************************************************************)
(* Of two paths exactly one sorts before the other.                        *)
(***************************************************************************)
LEMMA PathFields ==
  ASSUME NEW p \in Paths
  PROVE  /\ p[1] \in Nat /\ Len(p) \in {1, 2}
         /\ Len(p) = 1 => p = <<p[1]>>
         /\ Len(p) = 2 => p[2] \in Nat /\ p = <<p[1], p[2]>>
BY RowAssumption DEF RowAssumption, Paths

LEMMA PathOrder ==
  ASSUME NEW p \in Paths, NEW q \in Paths, p # q
  PROVE  PathBefore(p, q) <=> ~PathBefore(q, p)
BY PathFields DEF PathBefore

(***************************************************************************)
(* Of two live paths with one content exactly one keeps it (wins_hash), so *)
(* two nodes never drop one each.                                          *)
(***************************************************************************)
THEOREM WinsHashTotal ==
  ASSUME NEW p \in Paths, NEW q \in Paths, p # q, NEW a \in Row, NEW b \in Row
  PROVE  WinsHash(p, a, q, b) <=> ~WinsHash(q, b, p, a)
BY PathOrder DEF WinsHash, Row
-----------------------------------------------------------------------------
(***************************************************************************)
(* What a node stores of a group, as far as the rows go; it may have any   *)
(* other fields.  In a written log no two rows share a position, and none  *)
(* is past the counter.                                                    *)
(***************************************************************************)
IsStore(s) ==
  /\ s = [f \in DOMAIN s |-> s[f]] /\ {"rows", "seq"} \subseteq DOMAIN s
  /\ s.rows \in [Paths -> Row \cup {Absent}]
  /\ s.seq \in Nat

LogOrder(s) ==
  /\ \A p \in Paths : s.rows[p].seen <= s.seq
  /\ \A p, q \in Paths :
       s.rows[p] # Absent /\ s.rows[q] # Absent /\ s.rows[p].seen = s.rows[q].seen => p = q

(***************************************************************************)
(* From store s to store t the log was only written as its readers and the *)
(* cached digest need it: the counter moves, and what is changed gets a    *)
(* position past it.  Fields other than rows and seq are left alone.       *)
(***************************************************************************)
Alike(s, t) == DOMAIN t = DOMAIN s /\ \A f \in DOMAIN s \ {"rows", "seq"} : t[f] = s[f]

Logged(s, t) ==
  /\ IsStore(t) /\ Alike(s, t)
  /\ s.seq <= t.seq
  /\ t.rows # s.rows => s.seq < t.seq
  /\ \A q \in Paths : t.rows[q] # s.rows[q] => t.rows[q] # Absent /\ s.seq < t.rows[q].seen
  /\ LogOrder(s) => LogOrder(t)

(***************************************************************************)
(* A conflict name is a path, and none that a user gives.                  *)
(***************************************************************************)
LEMMA ConflictPath ==
  ASSUME NEW p \in Paths, NEW h \in Hashes
  PROVE  ConflictName(p, h) \in Paths /\ Len(ConflictName(p, h)) = 2
BY DEF Paths, ConflictName

(***************************************************************************)
(* A row, as opposed to no row.                                            *)
(***************************************************************************)
LEMMA RowsLive ==
  ASSUME NEW r \in Row \cup {Absent}
  PROVE  /\ IsLive(r) <=> r # Absent /\ r.removed = 0
         /\ r # Absent => r \in Row
         /\ r \in Row => r # Absent
         /\ r.hash \in Nat /\ r.removed \in Nat /\ r.seen \in Nat
         /\ IsRemoved(r) => r \in Row
<1>1. CASE r \in Row
  <2>1. r.hash \in Nat \ {0} /\ r.removed \in Nat /\ r.seen \in Nat
    BY <1>1, RowAssumption DEF RowAssumption, Row
  <2>2. r # Absent
    BY <2>1 DEF Absent
  <2> QED BY <1>1, <2>1, <2>2 DEF IsLive, IsRemoved
<1>2. CASE r = Absent
  <2>1. r.hash = 0 /\ r.removed = 0 /\ r.seen = 0
    BY <1>2 DEF Absent
  <2>2. r \notin Row
    BY <2>1, RowAssumption DEF RowAssumption, Row
  <2> QED BY <1>2, <2>1, <2>2 DEF IsLive, IsRemoved
<1> QED BY <1>1, <1>2

LEMMA LoggedTransitive ==
  ASSUME NEW s, NEW t, NEW u, IsStore(s), Logged(s, t), Logged(t, u)
  PROVE  Logged(s, u)
<1>1. \A q \in Paths : u.rows[q].seen \in Nat
  BY RowsLive DEF Logged, IsStore
<1>2. ASSUME NEW q \in Paths, u.rows[q] # s.rows[q]
      PROVE  u.rows[q] # Absent /\ s.seq < u.rows[q].seen
  <2>1. CASE u.rows[q] # t.rows[q]
    BY <1>1, <2>1 DEF Logged, IsStore
  <2>2. CASE u.rows[q] = t.rows[q]
    BY <1>2, <2>2 DEF Logged
  <2> QED BY <2>1, <2>2
<1>3. Alike(s, u)
  BY DEF Logged, Alike
<1> QED BY <1>2, <1>3 DEF Logged, IsStore

(***************************************************************************)
(* Store t is store s with `row` written under p at the next position.     *)
(***************************************************************************)
RowWritten(s, t, p, row) ==
  /\ IsStore(t) /\ Alike(s, t)
  /\ t.seq = s.seq + 1
  /\ \A q \in Paths \ {p} : t.rows[q] = s.rows[q]
  /\ t.rows[p] \in Row
  /\ t.rows[p].hash = row.hash /\ t.rows[p].added = row.added
  /\ t.rows[p].removed = row.removed /\ t.rows[p].seen = s.seq + 1

LEMMA WriteRowEffect ==
  ASSUME NEW s, IsStore(s), NEW p \in Paths, NEW row \in Row, NEW have \in BOOLEAN,
         NEW t, t = WriteRow(s, p, row, have)
  PROVE  RowWritten(s, t, p, row)
<1>0. PICK n \in Nat : n = s.seq + 1
  BY DEF IsStore
<1> DEFINE new == [row EXCEPT !.have = have, !.seen = n]
<1>1. new \in Row /\ new.hash = row.hash /\ new.added = row.added
      /\ new.removed = row.removed /\ new.seen = s.seq + 1
  <2>1. new \in Row
    BY DEF Row
  <2>2. new.hash = row.hash /\ new.added = row.added /\ new.removed = row.removed
    BY DEF Row
  <2>3. new.seen = n
    BY DEF Row
  <2> HIDE DEF new
  <2> QED BY <1>0, <2>1, <2>2, <2>3
<1>2. t.rows = [s.rows EXCEPT ![p] = new] /\ t.seq = s.seq + 1
  BY <1>0 DEF IsStore, WriteRow
<1>3. t = [f \in DOMAIN t |-> t[f]] /\ Alike(s, t)
  BY DEF IsStore, WriteRow, Alike
<1> HIDE DEF new
<1>4. t.rows \in [Paths -> Row \cup {Absent}] /\ t.rows[p] = new
  BY <1>1, <1>2 DEF IsStore
<1>5. \A q \in Paths \ {p} : t.rows[q] = s.rows[q]
  BY <1>2 DEF IsStore
<1>6. IsStore(t)
  BY <1>2, <1>3, <1>4 DEF IsStore, Alike
<1> QED BY <1>1, <1>2, <1>3, <1>4, <1>5, <1>6 DEF RowWritten

LEMMA TombstoneEffect ==
  ASSUME NEW s, IsStore(s), NEW p \in Paths, s.rows[p] \in Row, NEW at \in Nat,
         NEW t, t = Tombstone(s, p, at)
  PROVE  /\ \E row : RowWritten(s, t, p, row)
         /\ t.rows[p].hash = s.rows[p].hash /\ t.rows[p].removed = at
<1>0. PICK row \in Row : row = s.rows[p]
  OBVIOUS
<1> DEFINE new == [row EXCEPT !.removed = at]
<1>1. new \in Row
  BY DEF Row
<1>2. new.hash = row.hash /\ new.added = row.added /\ new.removed = at
  BY DEF Row
<1>3. t = WriteRow(s, p, new, FALSE)
  BY <1>0 DEF Tombstone
<1> HIDE DEF new
<1>4. PICK none \in BOOLEAN : none = FALSE
  OBVIOUS
<1>5. t = WriteRow(s, p, new, none)
  BY <1>3, <1>4
<1>6. RowWritten(s, t, p, new)
  BY <1>1, <1>5, WriteRowEffect
<1> QED BY <1>0, <1>2, <1>6 DEF RowWritten

(***************************************************************************)
(* A step that puts one row at the next position writes the log well.      *)
(***************************************************************************)
LEMMA OneRowLogged ==
  ASSUME NEW s, NEW t, IsStore(s), NEW p \in Paths, NEW row, RowWritten(s, t, p, row)
  PROVE  Logged(s, t)
<1> USE DEF RowWritten
<1>1. s.seq < t.seq /\ s.seq <= t.seq
  BY DEF IsStore
<1>2. \A q \in Paths : s.rows[q].seen \in Nat /\ t.rows[q].seen \in Nat
  BY RowsLive DEF IsStore
<1>3. ASSUME LogOrder(s)
      PROVE  LogOrder(t)
  <2>1. \A q \in Paths \ {p} : t.rows[q].seen <= s.seq
    BY <1>3 DEF LogOrder
  <2> QED BY <1>2, <1>3, <2>1 DEF LogOrder, IsStore
<1>4. t.rows[p] # Absent /\ s.seq < t.rows[p].seen
  BY RowsLive DEF IsStore
<1> QED BY <1>1, <1>3, <1>4 DEF Logged

LEMMA NothingLogged ==
  ASSUME NEW s, IsStore(s)
  PROVE  Logged(s, s)
BY DEF Logged, IsStore, Alike

-----------------------------------------------------------------------------
(***************************************************************************)
(* merge's second half.                                                    *)
(***************************************************************************)
LEMMA KeepOneEffect ==
  ASSUME NEW s, IsStore(s), NEW keep \in Paths, NEW drop \in Paths, keep # drop,
         s.rows[keep] \in Row, s.rows[drop] \in Row
  PROVE  LET t == KeepOne(s, keep, drop)
         IN  /\ Logged(s, t)
             /\ \A q \in Paths \ {keep, drop} : t.rows[q] = s.rows[q]
             /\ t.rows[keep] \in Row /\ t.rows[keep].hash = s.rows[keep].hash
             /\ t.rows[keep].removed = s.rows[keep].removed
             /\ t.rows[drop].hash = s.rows[drop].hash
             /\ IsRemoved(t.rows[drop])
<1> DEFINE moved == IF s.rows[drop].have /\ ~s.rows[keep].have
                    THEN WriteRow(s, keep, s.rows[keep], TRUE) ELSE s
           at == Larger(s.rows[drop].added, s.rows[keep].added)
           t == Tombstone(moved, drop, at)
<1>1. t = KeepOne(s, keep, drop)
  BY DEF KeepOne
<1>2. at \in Nat /\ at # 0
  <2>1. s.rows[drop].added \in Nat \ {0} /\ s.rows[keep].added \in Nat \ {0}
    BY DEF Row
  <2> QED BY <2>1 DEF Larger
<1> HIDE DEF at
<1>3. /\ IsStore(moved) /\ Logged(s, moved)
      /\ \A q \in Paths \ {keep} : moved.rows[q] = s.rows[q]
      /\ moved.rows[keep] \in Row /\ moved.rows[keep].hash = s.rows[keep].hash
      /\ moved.rows[keep].removed = s.rows[keep].removed
  <2>1. CASE moved = s
    BY <2>1, NothingLogged
  <2>2. CASE moved = WriteRow(s, keep, s.rows[keep], TRUE)
    <3>0. PICK have \in BOOLEAN : have = TRUE
      OBVIOUS
    <3> DEFINE w == WriteRow(s, keep, s.rows[keep], have)
    <3>1. RowWritten(s, w, keep, s.rows[keep])
      BY WriteRowEffect
    <3> HIDE DEF w
    <3>2. Logged(s, w)
      BY <3>1, OneRowLogged
    <3> QED BY <2>2, <3>0, <3>1, <3>2 DEF w, RowWritten
  <2> QED BY <2>1, <2>2
<1> HIDE DEF moved
<1>4. IsStore(moved) /\ moved.rows[drop] \in Row /\ moved.rows[drop].hash = s.rows[drop].hash
  <2>1. moved.rows[drop] = s.rows[drop]
    BY <1>3
  <2> QED BY <1>3, <2>1
<1>5. t = Tombstone(moved, drop, at)
  OBVIOUS
<1> HIDE DEF t
<1>6. /\ \E row : RowWritten(moved, t, drop, row)
      /\ t.rows[drop].hash = moved.rows[drop].hash /\ t.rows[drop].removed = at
  <2>1. at \in Nat
    BY <1>2
  <2> QED BY <1>4, <1>5, <2>1, TombstoneEffect
<1>7. PICK row : RowWritten(moved, t, drop, row)
  BY <1>6
<1>8. Logged(s, t)
  <2>1. Logged(moved, t)
    BY <1>4, <1>7, OneRowLogged
  <2> QED BY <1>3, <2>1, LoggedTransitive
<1>9. IsRemoved(t.rows[drop])
  BY <1>2, <1>6 DEF IsRemoved
<1>10. \A q \in Paths \ {drop} : t.rows[q] = moved.rows[q]
  BY <1>7 DEF RowWritten
<1> QED BY <1>1, <1>3, <1>4, <1>5, <1>6, <1>8, <1>9, <1>10

(***************************************************************************)
(* Of any live paths with one content there is one that keeps it: numbers  *)
(* have a least one, and the order of such paths is of numbers.            *)
(***************************************************************************)
LEMMA LeastNumber ==
  ASSUME NEW T \in SUBSET Nat, T # {}
  PROVE  \E x \in T : \A y \in T : x <= y
<1> DEFINE R == {ss \in Nat \X Nat : ss[1] < ss[2]}
<1>1. IsWellFoundedOn(R, Nat)
  BY NatLessThanWellFounded DEF OpToRel
<1>2. \A x, y \in Nat : x < y => <<x, y>> \in R
  OBVIOUS
<1> HIDE DEF R
<1>3. PICK x \in T : \A y \in T : ~(<<y, x>> \in R)
  BY <1>1, WFMin
<1>4. ASSUME NEW y \in T PROVE x <= y
  <2>1. x \in Nat /\ y \in Nat
    OBVIOUS
  <2>2. ~(y < x)
    BY <1>2, <1>3, <2>1
  <2> QED BY <2>1, <2>2
<1> QED BY <1>4

LEMMA LeastBy ==
  ASSUME NEW S, S # {}, NEW key \in [S -> Nat]
  PROVE  \E q \in S : \A r \in S : key[q] <= key[r]
<1>1. {key[q] : q \in S} \in SUBSET Nat /\ {key[q] : q \in S} # {}
  OBVIOUS
<1>2. PICK x \in {key[q] : q \in S} : \A y \in {key[q] : q \in S} : x <= y
  BY <1>1, LeastNumber
<1> QED BY <1>2

LEMMA TwinThere ==
  ASSUME NEW s, IsStore(s), NEW p \in Paths, NEW h, Twins(s, p, h) # {}
  PROVE  Twin(s, p, h) \in Twins(s, p, h)
<1> DEFINE S == Twins(s, p, h)
           rank(q) == IF (Len(q) = 1 <=> ConflictFirst) THEN 1 ELSE 0
           tail(q) == IF Len(q) = 2 THEN q[2] ELSE 0
<1>1. \A q \in S : q \in Paths /\ s.rows[q].added \in Nat /\ q[1] \in Nat /\ Len(q) \in {1, 2}
                   /\ rank(q) \in Nat /\ tail(q) \in Nat
  <2>1. ASSUME NEW q \in S PROVE q \in Paths /\ s.rows[q] \in Row
    BY RowsLive DEF Twins, IsStore
  <2> QED BY <2>1, PathFields DEF Row
<1> HIDE DEF S
<1>2. PICK a \in S : \A r \in S : s.rows[a].added <= s.rows[r].added
  <2> DEFINE key == [q \in S |-> s.rows[q].added]
  <2>1. key \in [S -> Nat] /\ \A q \in S : key[q] = s.rows[q].added
    BY <1>1
  <2> HIDE DEF key
  <2> QED BY <2>1, LeastBy DEF S
<1> DEFINE S1 == {r \in S : s.rows[r].added = s.rows[a].added}
<1>3. PICK b \in S1 : \A r \in S1 : b[1] <= r[1]
  <2> DEFINE key == [q \in S1 |-> q[1]]
  <2>1. key \in [S1 -> Nat] /\ (\A q \in S1 : key[q] = q[1]) /\ S1 # {}
    BY <1>1
  <2> HIDE DEF key, S1
  <2> QED BY <2>1, LeastBy
<1> DEFINE S2 == {r \in S1 : r[1] = b[1]}
<1>4. PICK c \in S2 : \A r \in S2 : rank(c) <= rank(r)
  <2> DEFINE key == [q \in S2 |-> rank(q)]
  <2>1. key \in [S2 -> Nat] /\ (\A q \in S2 : key[q] = rank(q)) /\ S2 # {}
    BY <1>1
  <2> HIDE DEF key, S2, rank
  <2> QED BY <2>1, LeastBy
<1> DEFINE S3 == {r \in S2 : rank(r) = rank(c)}
<1>5. PICK d \in S3 : \A r \in S3 : tail(d) <= tail(r)
  <2> DEFINE key == [q \in S3 |-> tail(q)]
  <2>1. key \in [S3 -> Nat] /\ (\A q \in S3 : key[q] = tail(q)) /\ S3 # {}
    BY <1>1
  <2> HIDE DEF key, S3, tail
  <2> QED BY <2>1, LeastBy
<1>6. d \in S
  OBVIOUS
<1>7. ASSUME NEW r \in S \ {d} PROVE WinsHash(d, s.rows[d], r, s.rows[r])
  <2>1. /\ d \in Paths /\ r \in Paths /\ s.rows[d].added \in Nat /\ s.rows[r].added \in Nat
        /\ d[1] \in Nat /\ r[1] \in Nat /\ Len(d) \in {1, 2} /\ Len(r) \in {1, 2}
    BY <1>1, <1>6
  <2>2. CASE r \notin S1
    BY <1>2, <2>1, <2>2 DEF WinsHash
  <2>3. CASE r \in S1 /\ r \notin S2
    <3>1. s.rows[d].added = s.rows[r].added /\ d[1] < r[1]
      BY <1>3, <2>1, <2>3
    <3> QED BY <3>1 DEF WinsHash, PathBefore
  <2>4. CASE r \in S2 /\ r \notin S3
    <3>1. s.rows[d].added = s.rows[r].added /\ d[1] = r[1] /\ rank(d) < rank(r)
      BY <1>1, <1>4, <2>1, <2>4
    <3>2. rank(d) = 0 /\ rank(r) = 1
      BY <3>1
    <3>3. CASE ConflictFirst
      <4>1. Len(d) = 2 /\ Len(r) = 1
        BY <2>1, <3>2, <3>3
      <4> QED BY <3>1, <3>3, <4>1 DEF WinsHash, PathBefore
    <3>4. CASE ~ConflictFirst
      <4>1. Len(d) = 1 /\ Len(r) = 2
        BY <2>1, <3>2, <3>4
      <4> QED BY <3>1, <3>4, <4>1 DEF WinsHash, PathBefore
    <3> QED BY <3>3, <3>4
  <2>5. CASE r \in S3
    <3>1. s.rows[d].added = s.rows[r].added /\ d[1] = r[1] /\ rank(d) = rank(r)
          /\ tail(d) <= tail(r)
      BY <1>5, <2>5
    <3>2. Len(d) = Len(r)
      BY <2>1, <3>1
    <3>3. Len(d) = 2 /\ Len(r) = 2 /\ d[2] # r[2]
      BY <2>1, <3>1, <3>2, PathFields
    <3>4. d[2] < r[2]
      BY <2>1, <3>1, <3>3, PathFields
    <3> QED BY <3>1, <3>3, <3>4 DEF WinsHash, PathBefore
  <2> QED BY <2>2, <2>3, <2>4, <2>5
<1> QED BY <1>6, <1>7 DEF S, Twin

(***************************************************************************)
(* Two live rows with one content are never both other than the row just   *)
(* written.                                                                *)
(***************************************************************************)
OneCopyBut(s, p) ==
  \A q, r \in Paths \ {p} :
    IsLive(s.rows[q]) /\ IsLive(s.rows[r]) /\ s.rows[q].hash = s.rows[r].hash => q = r

(***************************************************************************)
(* From s to t no path changes its content, only live rows are touched and *)
(* none becomes live.                                                      *)
(***************************************************************************)
SameContent(s, t) ==
  \A q \in Paths :
    /\ t.rows[q].hash = s.rows[q].hash
    /\ t.rows[q] # s.rows[q] => IsLive(s.rows[q])
    /\ IsLive(t.rows[q]) => IsLive(s.rows[q])

LEMMA KeepOneSettles ==
  ASSUME NEW s, IsStore(s), NEW p \in Paths, NEW q \in Paths, p # q,
         IsLive(s.rows[p]), IsLive(s.rows[q]), s.rows[p].hash = s.rows[q].hash,
         NEW keep, NEW drop, {keep, drop} = {p, q}, keep # drop,
         NEW t, t = KeepOne(s, keep, drop)
  PROVE  Logged(s, t) /\ SameContent(s, t) /\ (OneCopyBut(s, p) => OneCopy(t))
<1>1. keep \in Paths /\ drop \in Paths /\ s.rows[keep] \in Row /\ s.rows[drop] \in Row
  <2>1. \A r \in {p, q} : r \in Paths /\ s.rows[r] \in Row
    BY RowsLive DEF IsStore
  <2> QED BY <2>1
<1>2. /\ Logged(s, t)
      /\ \A r \in Paths \ {keep, drop} : t.rows[r] = s.rows[r]
      /\ t.rows[keep] \in Row /\ t.rows[keep].hash = s.rows[keep].hash
      /\ t.rows[keep].removed = s.rows[keep].removed
      /\ t.rows[drop].hash = s.rows[drop].hash
      /\ IsRemoved(t.rows[drop])
  BY <1>1, KeepOneEffect
<1>3. ~IsLive(t.rows[drop])
  BY <1>2 DEF IsLive
<1>4. SameContent(s, t)
  BY <1>1, <1>2, <1>3 DEF SameContent
<1>5. OneCopyBut(s, p) => OneCopy(t)
  BY <1>2, <1>3, <1>4 DEF OneCopy, OneCopyBut, SameContent
<1> QED BY <1>2, <1>4, <1>5

LEMMA DeduplicatedEffect ==
  ASSUME NEW s, IsStore(s), NEW p \in Paths, IsLive(s.rows[p]),
         NEW t, t = Deduplicated(s, p)
  PROVE  Logged(s, t) /\ SameContent(s, t) /\ (OneCopyBut(s, p) => OneCopy(t))
<1> DEFINE h == s.rows[p].hash
           q == Twin(s, p, h)
<1>1. CASE Twins(s, p, h) = {}
  <2>1. t = s
    BY <1>1 DEF Deduplicated
  <2>2. OneCopyBut(s, p) => OneCopy(s)
    BY <1>1 DEF Twins, OneCopy, OneCopyBut
  <2> QED BY <2>1, <2>2, NothingLogged DEF SameContent
<1>2. CASE Twins(s, p, h) # {}
  <2>1. q \in Twins(s, p, h)
    BY <1>2, TwinThere
  <2>2. q \in Paths /\ q # p /\ IsLive(s.rows[q]) /\ s.rows[q].hash = s.rows[p].hash
    BY <2>1 DEF Twins
  <2>3. t = KeepOne(s, p, q) \/ t = KeepOne(s, q, p)
    BY <1>2 DEF Deduplicated
  <2> HIDE DEF q, h
  <2> QED BY <2>2, <2>3, KeepOneSettles
<1> QED BY <1>1, <1>2

-----------------------------------------------------------------------------
(***************************************************************************)
(* merge's first half: the row it settles on and the store with that row   *)
(* written, the one it displaced before it.                                *)
(***************************************************************************)
LEMMA SettledType ==
  ASSUME NEW s, IsStore(s), NEW e \in Entries
  PROVE  LET local == s.rows[e.path]
             settled == SettledRow(local, RowOf(e))
         IN  /\ RowOf(e) \in Row /\ RowOf(e).hash = e.hash
             /\ settled \in Row /\ settled.hash = e.hash
             /\ IsRemoved(local) /\ local.hash = e.hash => IsRemoved(settled)
             /\ local.hash # e.hash => settled = RowOf(e)
<1> DEFINE local == s.rows[e.path]
           row == RowOf(e)
           added == Smaller(row.added, local.added)
           removed == Larger(row.removed, local.removed)
<1>1. row \in Row /\ row.hash = e.hash
  BY DEF RowOf, Row, Entries
<1>2. local \in Row \cup {Absent}
  BY DEF IsStore, Entries
<1>3. CASE local # Absent /\ local.hash = row.hash
  <2>1. PICK r \in Row : r = row
    BY <1>1
  <2>2. /\ row.added \in Nat \ {0} /\ local.added \in Nat \ {0}
        /\ row.removed \in Nat /\ local.removed \in Nat
    BY <1>1, <1>2, <1>3 DEF Row
  <2>3. added \in Nat \ {0} /\ removed \in Nat /\ (local.removed # 0 => removed # 0)
    BY <2>2 DEF Smaller, Larger
  <2> DEFINE new == [r EXCEPT !.added = added, !.removed = removed]
  <2>4. SettledRow(local, row) = new
    BY <1>3, <2>1 DEF SettledRow
  <2> HIDE DEF added, removed, local, row
  <2>5. new \in Row
    BY <2>3 DEF Row
  <2>6. new.hash = r.hash /\ new.removed = removed
    BY DEF Row
  <2> HIDE DEF new
  <2>7. IsRemoved(local) => IsRemoved(new)
    BY <2>3, <2>6 DEF IsRemoved
  <2> QED BY <1>1, <1>3, <2>1, <2>4, <2>5, <2>6, <2>7 DEF local, row
<1>4. CASE ~(local # Absent /\ local.hash = row.hash)
  <2>1. SettledRow(local, row) = row
    BY <1>4 DEF SettledRow
  <2>2. IsRemoved(local) => local # Absent
    BY DEF IsRemoved, Absent
  <2> HIDE DEF local, row
  <2> QED BY <1>1, <1>4, <2>1, <2>2 DEF local, row
<1> QED BY <1>3, <1>4

(***************************************************************************)
(* What the first half leaves: the row it settled on under p, whatever it  *)
(* displaced under a conflict name, and the rest as it was.                *)
(***************************************************************************)
HalfMerged(s, w, p, e, settled) ==
  /\ Logged(s, w)
  /\ OneCopy(s) => OneCopyBut(w, p)
  /\ p \in Paths
  /\ w.rows[p] \in Row
  /\ w.rows[p].hash = settled.hash /\ w.rows[p].removed = settled.removed
  /\ \A q \in Paths \ {p} : Len(q) = 1 => w.rows[q] = s.rows[q]
  /\ Len(p) = 1 => p = e.path

LEMMA RowSettled ==
  ASSUME NEW s, IsStore(s), NEW e, NEW p \in Paths, Len(p) = 1 => p = e.path,
         NEW settled, NEW w, RowWritten(s, w, p, settled)
  PROVE  HalfMerged(s, w, p, e, settled)
<1>1. Logged(s, w)
  BY OneRowLogged
<1>2. OneCopy(s) => OneCopyBut(w, p)
  BY DEF OneCopy, OneCopyBut, RowWritten
<1> QED BY <1>1, <1>2 DEF HalfMerged, RowWritten

LEMMA RowDisplaced ==
  ASSUME NEW s, IsStore(s), NEW e, NEW p \in Paths, p = e.path,
         NEW c \in Paths, Len(c) = 2,
         NEW d, IsLive(s.rows[p]), RowWritten(s, d, c, s.rows[p]),
         NEW settled, NEW w, RowWritten(d, w, p, settled)
  PROVE  HalfMerged(s, w, p, e, settled)
<1>1. Logged(s, w)
  <2>1. Logged(s, d)
    BY OneRowLogged
  <2>2. Logged(d, w)
    BY OneRowLogged DEF RowWritten
  <2> QED BY <2>1, <2>2, LoggedTransitive
<1>2. OneCopy(s) => OneCopyBut(w, p)
  BY DEF OneCopy, OneCopyBut, RowWritten
<1> QED BY <1>1, <1>2 DEF HalfMerged, RowWritten

(***************************************************************************)
(* merge does nothing, or it settles on a row, and removes a twin of it.   *)
(***************************************************************************)
LEMMA MergeByHalves ==
  ASSUME NEW s, IsStore(s), NEW e \in Entries, Merge(s, e) # s
  PROVE  \E w, p, settled :
           /\ HalfMerged(s, w, p, e, settled)
           /\ settled.hash = e.hash
           /\ IsRemoved(s.rows[e.path]) /\ s.rows[e.path].hash = e.hash => IsRemoved(settled)
           /\ Merge(s, e) = IF IsRemoved(settled) THEN w ELSE Deduplicated(w, p)
<1> DEFINE row == RowOf(e)
           local == s.rows[e.path]
           settled == SettledRow(local, row)
           p == SettledPath(e.path, local, row)
           c == ConflictName(e.path, local.hash)
           have == local.have /\ local.hash = settled.hash /\ p = e.path
           displaced == IF Displaces(local, row) THEN WriteRow(s, c, local, local.have) ELSE s
           written == IF p = e.path /\ Unchanged(local, settled) THEN displaced
                      ELSE WriteRow(displaced, p, settled, have)
<1>1. ~Rejects(local, row)
  BY DEF Merge
<1>2. Merge(s, e) = IF IsRemoved(settled) THEN written ELSE Deduplicated(written, p)
  BY <1>1 DEF Merge
<1>3. /\ row \in Row /\ row.hash = e.hash /\ settled \in Row /\ settled.hash = e.hash
      /\ IsRemoved(local) /\ local.hash = e.hash => IsRemoved(settled)
  BY SettledType
<1>4. e.path \in Paths /\ local \in Row \cup {Absent} /\ e.hash \in Hashes
  BY DEF IsStore, Entries
<1>5. p \in Paths /\ (p = e.path \/ Len(p) = 2)
  BY <1>3, <1>4, ConflictPath DEF SettledPath
<1>6. BothLive(local, row) => local \in Row /\ IsLive(local) /\ local.hash # settled.hash
  BY <1>3, <1>4, RowsLive DEF BothLive
<1>7. Unchanged(local, settled) => local = s.rows[e.path] /\ local \in Row
                                   /\ local.removed = settled.removed /\ local.hash = settled.hash
  <2>1. settled.hash # 0
    BY <1>3, <1>4, RowAssumption DEF RowAssumption
  <2> QED BY <1>4, <2>1 DEF Unchanged, Absent
<1> SUFFICES HalfMerged(s, written, p, e, settled)
  BY <1>2, <1>3
<1>8. PICK h \in BOOLEAN : h = have
  OBVIOUS
<1> HIDE DEF settled, have
<1>9. CASE Displaces(local, row)
  <2>1. local \in Row /\ IsLive(local) /\ p = e.path /\ ~Unchanged(local, settled)
    BY <1>6, <1>9 DEF Displaces, SettledPath, Unchanged
  <2>2. c \in Paths /\ Len(c) = 2 /\ local.have \in BOOLEAN
    BY <1>4, <2>1, ConflictPath DEF Row
  <2>3. displaced = WriteRow(s, c, local, local.have)
    BY <1>9
  <2>4. written = WriteRow(displaced, p, settled, h)
    BY <1>8, <2>1
  <2> HIDE DEF displaced, written, p, c
  <2>5. RowWritten(s, displaced, c, local)
    BY <2>1, <2>2, <2>3, WriteRowEffect
  <2>6. IsStore(displaced)
    BY <2>5 DEF RowWritten
  <2>7. RowWritten(displaced, written, p, settled)
    BY <1>3, <1>5, <2>4, <2>6, WriteRowEffect
  <2> QED BY <1>5, <2>1, <2>2, <2>5, <2>7, RowDisplaced
<1>10. CASE ~Displaces(local, row) /\ p = e.path /\ Unchanged(local, settled)
  <2>1. written = s
    BY <1>10
  <2> QED BY <1>5, <1>7, <1>10, <2>1, NothingLogged DEF HalfMerged, OneCopy, OneCopyBut
<1>11. CASE ~Displaces(local, row) /\ ~(p = e.path /\ Unchanged(local, settled))
  <2>1. written = WriteRow(s, p, settled, h)
    BY <1>8, <1>11
  <2> HIDE DEF displaced, written, p
  <2>2. RowWritten(s, written, p, settled)
    BY <1>3, <1>5, <2>1, WriteRowEffect
  <2> QED BY <1>5, <2>2, RowSettled
<1> QED BY <1>9, <1>10, <1>11

-----------------------------------------------------------------------------
(***************************************************************************)
(* Merging a row from a peer keeps one copy of any content, whatever the   *)
(* row and whatever it displaces (Files::merge, the twin).                 *)
(***************************************************************************)
THEOREM MergeKeepsOneCopy ==
  ASSUME NEW s, IsStore(s), OneCopy(s), NEW e \in Entries
  PROVE  OneCopy(Merge(s, e))
<1>1. CASE Merge(s, e) = s
  BY <1>1
<1>2. CASE Merge(s, e) # s
  <2>1. PICK w, p, settled :
           /\ HalfMerged(s, w, p, e, settled)
           /\ Merge(s, e) = IF IsRemoved(settled) THEN w ELSE Deduplicated(w, p)
    BY <1>2, MergeByHalves
  <2>2. CASE IsRemoved(settled)
    <3>1. Merge(s, e) = w /\ ~IsLive(w.rows[p])
      BY <2>1, <2>2 DEF HalfMerged, IsLive, IsRemoved
    <3> QED BY <2>1, <3>1 DEF HalfMerged, OneCopy, OneCopyBut
  <2>3. CASE ~IsRemoved(settled)
    <3>1. Merge(s, e) = Deduplicated(w, p) /\ IsStore(w) /\ p \in Paths /\ OneCopyBut(w, p)
      BY <2>1, <2>3 DEF HalfMerged, Logged
    <3>2. IsLive(w.rows[p])
      BY <2>1, <2>3, RowsLive DEF HalfMerged, IsRemoved
    <3> QED BY <3>1, <3>2, DeduplicatedEffect
  <2> QED BY <2>2, <2>3
<1> QED BY <1>1, <1>2

(***************************************************************************)
(* What the theorems below need of a merge: it writes the log well, and    *)
(* what it leaves live under a plain name is not what was removed there.   *)
(***************************************************************************)
LEMMA MergeEffect ==
  ASSUME NEW s, IsStore(s), NEW e \in Entries
  PROVE  /\ Logged(s, Merge(s, e))
         /\ \A q \in Paths :
              Len(q) = 1 /\ IsRemoved(s.rows[q]) /\ IsLive(Merge(s, e).rows[q])
                => Merge(s, e).rows[q].hash # s.rows[q].hash
         /\ \A q \in Paths \ {e.path} :
              Len(q) = 1 => /\ Merge(s, e).rows[q].hash = s.rows[q].hash
                            /\ Merge(s, e).rows[q] # s.rows[q] => IsLive(s.rows[q])
<1>1. CASE Merge(s, e) = s
  BY <1>1, NothingLogged DEF IsLive
<1>2. CASE Merge(s, e) # s
  <2> DEFINE t == Merge(s, e)
  <2>1. PICK w, p, settled :
           /\ HalfMerged(s, w, p, e, settled)
           /\ settled.hash = e.hash
           /\ IsRemoved(s.rows[e.path]) /\ s.rows[e.path].hash = e.hash => IsRemoved(settled)
           /\ t = IF IsRemoved(settled) THEN w ELSE Deduplicated(w, p)
    BY <1>2, MergeByHalves
  <2> HIDE DEF t
  <2>2. Logged(w, t) /\ SameContent(w, t)
    <3>1. CASE IsRemoved(settled)
      BY <2>1, <3>1, NothingLogged DEF HalfMerged, Logged, SameContent
    <3>2. CASE ~IsRemoved(settled)
      <4>1. t = Deduplicated(w, p) /\ IsStore(w) /\ p \in Paths
        BY <2>1, <3>2 DEF HalfMerged, Logged
      <4>2. IsLive(w.rows[p])
        BY <2>1, <3>2, RowsLive DEF HalfMerged, IsRemoved
      <4> QED BY <4>1, <4>2, DeduplicatedEffect
    <3> QED BY <3>1, <3>2
  <2>3. Logged(s, t)
    BY <2>1, <2>2, LoggedTransitive DEF HalfMerged
  <2>4. ASSUME NEW q \in Paths, Len(q) = 1, IsRemoved(s.rows[q]), IsLive(t.rows[q]),
               t.rows[q].hash = s.rows[q].hash
        PROVE  FALSE
    <3>1. IsLive(w.rows[q]) /\ w.rows[q].hash = s.rows[q].hash
      BY <2>2, <2>4 DEF SameContent
    <3>2. q = p /\ q = e.path
      BY <2>1, <2>4, <3>1 DEF HalfMerged, IsLive
    <3>3. IsRemoved(settled)
      BY <2>1, <2>4, <3>1, <3>2 DEF HalfMerged
    <3> QED BY <2>1, <3>1, <3>2, <3>3 DEF HalfMerged, IsLive, IsRemoved
  <2>5. ASSUME NEW q \in Paths \ {e.path}, Len(q) = 1
        PROVE  t.rows[q].hash = s.rows[q].hash /\ (t.rows[q] # s.rows[q] => IsLive(s.rows[q]))
    <3>1. w.rows[q] = s.rows[q]
      BY <2>1, <2>5 DEF HalfMerged
    <3> QED BY <2>2, <3>1 DEF SameContent
  <2> QED BY <2>3, <2>4, <2>5 DEF t
<1> QED BY <1>1, <1>2

(***************************************************************************)
(* Content that a node has as removed from a plain name is not live there  *)
(* again because of a row from a peer.                                     *)
(***************************************************************************)
THEOREM MergeKeepsRemoved ==
  ASSUME NEW s, IsStore(s), NEW e \in Entries, NEW name \in Names,
         IsRemoved(s.rows[<<name>>]), IsLive(Merge(s, e).rows[<<name>>])
  PROVE  Merge(s, e).rows[<<name>>].hash # s.rows[<<name>>].hash
<1>1. <<name>> \in Paths /\ Len(<<name>>) = 1
  BY DEF Paths
<1> QED BY <1>1, MergeEffect

(***************************************************************************)
(* A merge that changes any row moves the log, so that a digest cached     *)
(* against the log's counter is never taken for that of other rows, and it *)
(* leaves every row at a position of its own, none past the counter.       *)
(***************************************************************************)
THEOREM MergeWritesLog ==
  ASSUME NEW s, IsStore(s), NEW e \in Entries
  PROVE  /\ IsStore(Merge(s, e)) /\ s.seq <= Merge(s, e).seq
         /\ Merge(s, e).rows # s.rows => s.seq < Merge(s, e).seq
         /\ LogOrder(s) => LogOrder(Merge(s, e))
BY MergeEffect DEF Logged

-----------------------------------------------------------------------------
(***************************************************************************)
(* What is true of 0 and, with a number, of the next, is true up to n.     *)
(***************************************************************************)
LEMMA UpTo ==
  ASSUME NEW n \in Nat, NEW S, 0 \in S, \A i \in 1 .. n : i - 1 \in S => i \in S
  PROVE  0 .. n \subseteq S
<1> DEFINE T == (0 .. n) \ S
<1>1. SUFFICES ASSUME T # {} PROVE FALSE
  OBVIOUS
<1>2. T \in SUBSET Nat
  OBVIOUS
<1>3. PICK x \in T : \A y \in T : x <= y
  <2> HIDE DEF T
  <2> QED BY <1>1, <1>2, LeastNumber
<1>4. x \in 1 .. n
  OBVIOUS
<1>5. x - 1 \in 0 .. n /\ x - 1 \notin T
  BY <1>3, <1>4
<1> QED BY <1>4, <1>5

-----------------------------------------------------------------------------
(***************************************************************************)
(* Merging the rows of a page: Merged is a run of single merges.           *)
(***************************************************************************)
MergesUpTo(s, entries, k, g) ==
  /\ g[0] = s
  /\ \A i \in 1 .. k : g[i] = Merge(g[i - 1], entries[i])

LEMMA MergesThere ==
  ASSUME NEW s, NEW entries \in Seq(Entries)
  PROVE  \E g : MergesUpTo(s, entries, Len(entries), g)
<1> DEFINE S == {k \in 0 .. Len(entries) : \E g : MergesUpTo(s, entries, k, g)}
<1>1. 0 \in S
  <2> DEFINE g == [i \in {0} |-> s]
  <2>1. MergesUpTo(s, entries, 0, g)
    BY DEF MergesUpTo
  <2> QED BY <2>1
<1>2. ASSUME NEW k \in 1 .. Len(entries), k - 1 \in S PROVE k \in S
  <2>1. PICK g : MergesUpTo(s, entries, k - 1, g)
    BY <1>2
  <2>2. PICK more : more = Merge(g[k - 1], entries[k])
    OBVIOUS
  <2> DEFINE h == [i \in 0 .. k |-> IF i = k THEN more ELSE g[i]]
  <2>3. h[0] = s
    BY <2>1 DEF MergesUpTo
  <2>4. ASSUME NEW i \in 1 .. k PROVE h[i] = Merge(h[i - 1], entries[i])
    <3>1. h[i - 1] = g[i - 1]
      OBVIOUS
    <3>2. CASE i = k
      BY <2>2, <3>1, <3>2
    <3>3. CASE i # k
      <4>1. i \in 1 .. k - 1 /\ h[i] = g[i]
        BY <3>3
      <4> QED BY <2>1, <3>1, <4>1 DEF MergesUpTo
    <3> QED BY <3>2, <3>3
  <2> HIDE DEF h
  <2>5. MergesUpTo(s, entries, k, h)
    BY <2>3, <2>4 DEF MergesUpTo
  <2> QED BY <2>5
<1>3. Len(entries) \in S
  <2> HIDE DEF S
  <2>1. Len(entries) \in Nat
    OBVIOUS
  <2>2. 0 .. Len(entries) \subseteq S
    BY <1>1, <1>2, <2>1, UpTo
  <2> QED BY <2>1, <2>2
<1> QED BY <1>3

LEMMA MergedRun ==
  ASSUME NEW s, NEW entries \in Seq(Entries)
  PROVE  \E g : /\ MergesUpTo(s, entries, Len(entries), g)
                /\ Merged(s, entries) = g[Len(entries)]
<1> DEFINE Run(f) == f = [i \in 0 .. Len(entries) |->
                            IF i = 0 THEN s ELSE Merge(f[i - 1], entries[i])]
           g == CHOOSE f : Run(f)
<1>1. Len(entries) \in Nat
  OBVIOUS
<1>2. \E f : Run(f)
  <2>1. PICK h : MergesUpTo(s, entries, Len(entries), h)
    BY MergesThere
  <2> DEFINE f == [i \in 0 .. Len(entries) |-> h[i]]
  <2>2. ASSUME NEW i \in 0 .. Len(entries)
        PROVE  f[i] = IF i = 0 THEN s ELSE Merge(f[i - 1], entries[i])
    <3>1. CASE i = 0
      BY <2>1, <3>1 DEF MergesUpTo
    <3>2. CASE i # 0
      <4>1. i \in 1 .. Len(entries) /\ f[i] = h[i] /\ f[i - 1] = h[i - 1]
        BY <3>2
      <4>2. h[i] = Merge(h[i - 1], entries[i])
        BY <2>1, <4>1 DEF MergesUpTo
      <4> QED BY <3>2, <4>1, <4>2
    <3> QED BY <3>1, <3>2
  <2>3. f = [i \in 0 .. Len(entries) |-> f[i]]
    OBVIOUS
  <2> HIDE DEF f
  <2>4. Run(f)
    BY <2>2, <2>3
  <2> QED BY <2>4
<1>3. Run(g)
  <2> HIDE DEF Run
  <2> QED BY <1>2
<1>4. Merged(s, entries) = g[Len(entries)]
  BY DEF Merged
<1>5. g[0] = s /\ \A i \in 1 .. Len(entries) : g[i] = Merge(g[i - 1], entries[i])
  <2> HIDE DEF g
  <2> QED BY <1>1, <1>3
<1> HIDE DEF g
<1> QED BY <1>4, <1>5 DEF MergesUpTo

(***************************************************************************)
(* What is removed from path q in s is not live there in t.                *)
(***************************************************************************)
KeepsRemoved(s, t, q) ==
  IsRemoved(s.rows[q]) => ~(IsLive(t.rows[q]) /\ t.rows[q].hash = s.rows[q].hash)

LEMMA MergedEffect ==
  ASSUME NEW s, IsStore(s), NEW entries \in Seq(Entries)
  PROVE  /\ Logged(s, Merged(s, entries))
         /\ OneCopy(s) => OneCopy(Merged(s, entries))
<1>1. PICK g : /\ MergesUpTo(s, entries, Len(entries), g)
               /\ Merged(s, entries) = g[Len(entries)]
  BY MergedRun
<1> DEFINE S == {i \in 0 .. Len(entries) : Logged(s, g[i]) /\ (OneCopy(s) => OneCopy(g[i]))}
<1>2. 0 \in S
  BY <1>1, NothingLogged DEF MergesUpTo
<1>3. ASSUME NEW i \in 1 .. Len(entries), i - 1 \in S PROVE i \in S
  <2>1. g[i] = Merge(g[i - 1], entries[i]) /\ entries[i] \in Entries
    BY <1>1 DEF MergesUpTo
  <2>2. IsStore(g[i - 1]) /\ Logged(s, g[i - 1])
    BY <1>3 DEF Logged
  <2>3. Logged(g[i - 1], g[i])
    BY <2>1, <2>2, MergeEffect
  <2>4. Logged(s, g[i])
    BY <2>2, <2>3, LoggedTransitive
  <2>5. OneCopy(s) => OneCopy(g[i])
    BY <1>3, <2>1, <2>2, MergeKeepsOneCopy
  <2> QED BY <2>4, <2>5
<1>4. Len(entries) \in Nat
  OBVIOUS
<1>5. Len(entries) \in S
  <2> HIDE DEF S
  <2>1. PICK n \in Nat : n = Len(entries)
    BY <1>4
  <2>2. \A i \in 1 .. n : i - 1 \in S => i \in S
    BY <1>3, <2>1
  <2>3. 0 .. n \subseteq S
    BY <1>2, <2>2, UpTo
  <2> QED BY <2>1, <2>3
<1> QED BY <1>1, <1>5

(***************************************************************************)
(* No two entries of a page are of one path.                               *)
(***************************************************************************)
Distinct(entries) == \A i, j \in 1 .. Len(entries) : entries[i].path = entries[j].path => i = j

LEMMA MergedKeepsRemoved ==
  ASSUME NEW s, IsStore(s), NEW entries \in Seq(Entries), Distinct(entries),
         NEW q \in Paths, Len(q) = 1
  PROVE  KeepsRemoved(s, Merged(s, entries), q)
<1>1. PICK g : /\ MergesUpTo(s, entries, Len(entries), g)
               /\ Merged(s, entries) = g[Len(entries)]
  BY MergedRun
<1>2. SUFFICES ASSUME IsRemoved(s.rows[q])
               PROVE  ~(IsLive(g[Len(entries)].rows[q]) /\ g[Len(entries)].rows[q].hash = s.rows[q].hash)
  BY <1>1 DEF KeepsRemoved
<1> DEFINE Good(i) ==
      /\ IsStore(g[i])
      /\ (\A j \in 1 .. i : entries[j].path # q) => g[i].rows[q] = s.rows[q]
      /\ ~(IsLive(g[i].rows[q]) /\ g[i].rows[q].hash = s.rows[q].hash)
    S == {i \in 0 .. Len(entries) : Good(i)}
<1>3. 0 \in S
  BY <1>1, <1>2 DEF MergesUpTo, IsLive
<1>4. ASSUME NEW i \in 1 .. Len(entries), i - 1 \in S PROVE Good(i)
  <2>1. g[i] = Merge(g[i - 1], entries[i]) /\ entries[i] \in Entries
    BY <1>1 DEF MergesUpTo
  <2>2. IsStore(g[i - 1])
    BY <1>4
  <2>3. IsStore(g[i])
    BY <2>1, <2>2, MergeEffect DEF Logged
  <2>4. CASE entries[i].path = q
    <3>1. \A j \in 1 .. i - 1 : entries[j].path # q
      BY <2>4 DEF Distinct
    <3>2. g[i - 1].rows[q] = s.rows[q]
      BY <1>4, <3>1
    <3>3. IsLive(g[i].rows[q]) => g[i].rows[q].hash # s.rows[q].hash
      BY <1>2, <2>1, <2>2, <3>2, MergeEffect
    <3>4. ~(\A j \in 1 .. i : entries[j].path # q)
      BY <2>4
    <3> QED BY <2>3, <3>3, <3>4
  <2>5. CASE entries[i].path # q
    <3>1. /\ g[i].rows[q].hash = g[i - 1].rows[q].hash
          /\ g[i].rows[q] # g[i - 1].rows[q] => IsLive(g[i - 1].rows[q])
      BY <2>1, <2>2, <2>5, MergeEffect
    <3>2. ~(IsLive(g[i].rows[q]) /\ g[i].rows[q].hash = s.rows[q].hash)
      BY <1>4, <3>1
    <3>3. ASSUME \A j \in 1 .. i : entries[j].path # q PROVE g[i].rows[q] = s.rows[q]
      <4>1. \A j \in 1 .. i - 1 : j \in 1 .. i
        OBVIOUS
      <4>2. g[i - 1].rows[q] = s.rows[q]
        BY <1>4, <3>3, <4>1
      <4> QED BY <1>2, <3>1, <4>2 DEF IsLive
    <3> QED BY <2>3, <3>2, <3>3
  <2> QED BY <2>4, <2>5
<1>5. \A i \in 1 .. Len(entries) : i - 1 \in S => i \in S
  BY <1>4
<1>6. Len(entries) \in Nat
  OBVIOUS
<1>7. Len(entries) \in S
  <2> HIDE DEF S, Good
  <2>1. 0 .. Len(entries) \subseteq S
    BY <1>3, <1>5, <1>6, UpTo
  <2> QED BY <1>6, <2>1
<1> QED BY <1>7

-----------------------------------------------------------------------------
(***************************************************************************)
(* The log past a cursor.  The rows past it are finitely many, whatever    *)
(* the paths, because each has a position of its own; so After finds them  *)
(* in the order of their positions, and finds them all.                    *)
(***************************************************************************)
LEMMA PastFinite ==
  ASSUME NEW s, IsStore(s), LogOrder(s), NEW cursor \in Nat
  PROVE  IsFiniteSet(Past(s, cursor))
<1> DEFINE P == Past(s, cursor)
           f == [p \in P |-> s.rows[p].seen]
<1>1. \A p \in P : p \in Paths /\ s.rows[p] # Absent /\ s.rows[p].seen \in 0 .. s.seq
  <2> SUFFICES ASSUME NEW p \in P
               PROVE  p \in Paths /\ s.rows[p] # Absent /\ s.rows[p].seen \in 0 .. s.seq
    OBVIOUS
  <2>1. p \in Paths /\ s.rows[p].seen > cursor
    BY DEF Past
  <2>2. s.rows[p].seen \in Nat /\ s.rows[p].seen <= s.seq /\ s.seq \in Nat
    BY <2>1, RowsLive DEF IsStore, LogOrder
  <2>3. Absent.seen = 0
    BY DEF Absent
  <2> QED BY <2>1, <2>2, <2>3
<1> HIDE DEF P
<1>2. \A p, q \in P : f[p] = f[q] => p = q
  BY <1>1 DEF LogOrder
<1>3. f \in Injection(P, 0 .. s.seq)
  BY <1>1, <1>2 DEF Injection, IsInjective
<1>4. IsFiniteSet(0 .. s.seq)
  <2>1. 0 \in Int /\ s.seq \in Int
    BY DEF IsStore
  <2> QED BY <2>1, FS_Interval
<1> QED BY <1>3, <1>4, FS_Injection DEF P

(***************************************************************************)
(* The paths of P, each once, in the order of their positions in s.        *)
(***************************************************************************)
LogOf(s, P, log) ==
  /\ log \in [1 .. Cardinality(P) -> P]
  /\ \A i, j \in DOMAIN log :
       i < j => log[i] # log[j] /\ s.rows[log[i]].seen <= s.rows[log[j]].seen

LEMMA LogThere ==
  ASSUME NEW s, IsStore(s), NEW P \in SUBSET Paths, IsFiniteSet(P)
  PROVE  \E log : LogOf(s, P, log)
<1> DEFINE Sorted(k) == \A Q \in SUBSET P : Cardinality(Q) = k => \E log : LogOf(s, Q, log)
           S == {k \in 0 .. Cardinality(P) : Sorted(k)}
<1>1. \A Q \in SUBSET P : IsFiniteSet(Q) /\ Cardinality(Q) \in 0 .. Cardinality(P)
  BY FS_Subset, FS_CardinalityType
<1>2. Sorted(0)
  <2> SUFFICES ASSUME NEW Q \in SUBSET P, Cardinality(Q) = 0
               PROVE  \E log : LogOf(s, Q, log)
    OBVIOUS
  <2>1. Q = {}
    BY <1>1, FS_EmptySet
  <2> DEFINE log == [i \in 1 .. 0 |-> i]
  <2>2. LogOf(s, Q, log)
    BY <2>1 DEF LogOf
  <2> QED BY <2>2
<1>3. ASSUME NEW k \in 1 .. Cardinality(P), Sorted(k - 1) PROVE Sorted(k)
  <2> SUFFICES ASSUME NEW Q \in SUBSET P, Cardinality(Q) = k
               PROVE  \E log : LogOf(s, Q, log)
    OBVIOUS
  <2>1. Q # {}
    BY FS_EmptySet
  <2>2. PICK x \in Q : \A q \in Q : s.rows[x].seen <= s.rows[q].seen
    <3> DEFINE key == [q \in Q |-> s.rows[q].seen]
    <3>1. key \in [Q -> Nat] /\ \A q \in Q : key[q] = s.rows[q].seen
      BY RowsLive DEF IsStore
    <3> HIDE DEF key
    <3> QED BY <2>1, <3>1, LeastBy
  <2>3. Cardinality(Q \ {x}) = k - 1
    BY <1>1, FS_RemoveElement
  <2>4. PICK rest : LogOf(s, Q \ {x}, rest)
    BY <1>3, <2>3
  <2>5. /\ rest \in [1 .. k - 1 -> Q \ {x}]
        /\ \A i, j \in 1 .. k - 1 :
             i < j => rest[i] # rest[j] /\ s.rows[rest[i]].seen <= s.rows[rest[j]].seen
    BY <2>3, <2>4 DEF LogOf
  <2> DEFINE log == [i \in 1 .. k |-> IF i = 1 THEN x ELSE rest[i - 1]]
  <2>6. log \in [1 .. k -> Q]
    BY <2>5
  <2>7. ASSUME NEW i \in 1 .. k, NEW j \in 1 .. k, i < j
        PROVE  log[i] # log[j] /\ s.rows[log[i]].seen <= s.rows[log[j]].seen
    <3>1. j - 1 \in 1 .. k - 1 /\ log[j] = rest[j - 1] /\ log[j] \in Q \ {x}
      BY <2>5, <2>7
    <3>2. CASE i = 1
      BY <2>2, <3>1, <3>2
    <3>3. CASE i # 1
      <4>1. i - 1 \in 1 .. k - 1 /\ log[i] = rest[i - 1] /\ i - 1 < j - 1
        BY <2>7, <3>3
      <4> HIDE DEF log
      <4> QED BY <2>5, <3>1, <4>1
    <3> QED BY <3>2, <3>3
  <2> HIDE DEF log
  <2>8. DOMAIN log = 1 .. k
    BY <2>6
  <2>9. LogOf(s, Q, log)
    BY <2>6, <2>7, <2>8 DEF LogOf
  <2> QED BY <2>9
<1>4. Cardinality(P) \in Nat
  BY FS_CardinalityType
<1>5. Cardinality(P) \in S
  <2>1. 0 \in S
    BY <1>2, <1>4
  <2>2. \A k \in 1 .. Cardinality(P) : k - 1 \in S => k \in S
    BY <1>3
  <2> HIDE DEF S, Sorted
  <2> QED BY <1>4, <2>1, <2>2, UpTo
<1>6. Sorted(Cardinality(P))
  BY <1>5
<1> QED BY <1>6

LEMMA AfterIsLog ==
  ASSUME NEW s, IsStore(s), LogOrder(s), NEW cursor \in Nat
  PROVE  /\ LogOf(s, Past(s, cursor), After(s, cursor))
         /\ After(s, cursor) \in Seq(Past(s, cursor))
         /\ \A p \in Past(s, cursor) : \E i \in 1 .. Len(After(s, cursor)) : After(s, cursor)[i] = p
<1> DEFINE P == Past(s, cursor)
           log == After(s, cursor)
           n == Cardinality(P)
<1>1. IsFiniteSet(P) /\ P \in SUBSET Paths /\ n \in Nat
  <2>1. IsFiniteSet(P)
    BY PastFinite
  <2> QED BY <2>1, FS_CardinalityType DEF Past
<1>2. \E l : LogOf(s, P, l)
  <2> HIDE DEF P
  <2> QED BY <1>1, LogThere
<1>3. LogOf(s, P, log)
  <2> DEFINE Q(l) == \A i, j \in DOMAIN l :
                       i < j => l[i] # l[j] /\ s.rows[l[i]].seen <= s.rows[l[j]].seen
  <2>1. \E l \in [1 .. Cardinality(P) -> P] : Q(l)
    BY <1>2 DEF LogOf
  <2>2. log = CHOOSE l \in [1 .. Cardinality(P) -> P] : Q(l)
    BY DEF After
  <2> HIDE DEF log, P, Q
  <2>3. log \in [1 .. Cardinality(P) -> P] /\ Q(log)
    BY <2>1, <2>2
  <2> QED BY <2>3 DEF LogOf, Q
<1> HIDE DEF P, log
<1>4. log \in [1 .. n -> P] /\ DOMAIN log = 1 .. n
  BY <1>3 DEF LogOf
<1>5. log \in Seq(P) /\ Len(log) = n
  BY <1>1, <1>4
<1>6. \A i, j \in 1 .. n : log[i] = log[j] => i = j
  BY <1>1, <1>3, <1>4 DEF LogOf
<1>7. log \in Injection(1 .. n, P)
  BY <1>4, <1>6 DEF Injection, IsInjective
<1>8. Cardinality(1 .. n) = n
  BY <1>1, FS_Interval
<1>9. log \in Surjection(1 .. n, P)
  BY <1>1, <1>7, <1>8, FS_Injection
<1>10. \A p \in P : \E i \in 1 .. n : log[i] = p
  BY <1>9 DEF Surjection
<1> QED BY <1>3, <1>5, <1>10 DEF P, log

(***************************************************************************)
(* A page: the entries of the first rows past the cursor, each path once;  *)
(* every row from the cursor up to the position it names is among them.    *)
(***************************************************************************)
Covers(s, after, next, entries) ==
  \A p \in Paths :
    s.rows[p].seen \in after + 1 .. next =>
      \E i \in 1 .. Len(entries) : entries[i] = EntryOf(p, s.rows[p])

EntriesOf(s, after) ==
  [i \in DOMAIN Page(s, after) |-> EntryOf(Page(s, after)[i], s.rows[Page(s, after)[i]])]

LEMMA EntryType ==
  ASSUME NEW p \in Paths, NEW row \in Row
  PROVE  EntryOf(p, row) \in Entries /\ EntryOf(p, row).path = p
  BY DEF EntryOf, Entries, Row

LEMMA PageOfLog ==
  ASSUME NEW s, IsStore(s), LogOrder(s), NEW after \in Nat
  PROVE  LET log == After(s, after)
             k == Smaller(PageSize, Len(log))
         IN  /\ Len(log) \in Nat /\ k \in 0 .. Len(log) /\ (k = 0 => Len(log) = 0)
             /\ Page(s, after) \in Seq(Past(s, after)) /\ Len(Page(s, after)) = k
             /\ \A i \in 1 .. k : Page(s, after)[i] = log[i]
<1> DEFINE log == After(s, after)
           k == Smaller(PageSize, Len(log))
<1>1. log \in Seq(Past(s, after))
  BY AfterIsLog
<1>2. Page(s, after) = SubSeq(log, 1, k)
  BY DEF Page
<1>3. PageSize \in Nat \ {0}
  BY SizeAssumption DEF SizeAssumption
<1>4. Len(log) \in Nat /\ k \in 0 .. Len(log) /\ (k = 0 => Len(log) = 0)
  BY <1>1, <1>3 DEF Smaller
<1> HIDE DEF log, k
<1>5. /\ SubSeq(log, 1, k) \in Seq(Past(s, after)) /\ Len(SubSeq(log, 1, k)) = k
      /\ \A i \in 1 .. k : SubSeq(log, 1, k)[i] = log[i]
  BY <1>1, <1>4
<1> QED BY <1>2, <1>4, <1>5 DEF log, k

LEMMA PageThere ==
  ASSUME NEW s, IsStore(s), LogOrder(s), NEW after \in Nat, after <= s.seq
  PROVE  /\ EntriesOf(s, after) \in Seq(Entries) /\ Distinct(EntriesOf(s, after))
         /\ NextCursor(s, after) \in Nat
         /\ after <= NextCursor(s, after) /\ NextCursor(s, after) <= s.seq
         /\ Covers(s, after, NextCursor(s, after), EntriesOf(s, after))
<1> DEFINE P == Past(s, after)
           log == After(s, after)
           n == Len(log)
           page == Page(s, after)
           k == Len(page)
           entries == EntriesOf(s, after)
           next == NextCursor(s, after)
<1>1. /\ n \in Nat /\ k \in 0 .. n /\ (k = 0 => n = 0)
      /\ page \in Seq(P) /\ \A i \in 1 .. k : page[i] = log[i]
  BY PageOfLog
<1>2. /\ log \in Seq(P)
      /\ \A i, j \in 1 .. n : i < j => log[i] # log[j] /\ s.rows[log[i]].seen <= s.rows[log[j]].seen
      /\ \A p \in P : \E i \in 1 .. n : log[i] = p
  <2>1. LogOf(s, P, log) /\ log \in Seq(P) /\ \A p \in P : \E i \in 1 .. n : log[i] = p
    BY AfterIsLog
  <2>2. DOMAIN log = 1 .. n
    BY <2>1
  <2> QED BY <2>1, <2>2 DEF LogOf
<1>3. \A p \in P : /\ p \in Paths /\ s.rows[p] \in Row
                   /\ s.rows[p].seen \in Nat /\ after < s.rows[p].seen /\ s.rows[p].seen <= s.seq
  <2> SUFFICES ASSUME NEW p \in P
               PROVE  /\ p \in Paths /\ s.rows[p] \in Row
                      /\ s.rows[p].seen \in Nat /\ after < s.rows[p].seen /\ s.rows[p].seen <= s.seq
    OBVIOUS
  <2>1. p \in Paths /\ s.rows[p].seen > after
    BY DEF Past
  <2>2. s.rows[p] \in Row \cup {Absent} /\ s.rows[p].seen \in Nat /\ s.rows[p].seen <= s.seq
    BY <2>1, RowsLive DEF IsStore, LogOrder
  <2>3. Absent.seen = 0
    BY DEF Absent
  <2> QED BY <2>1, <2>2, <2>3
<1>4. \A p \in Paths : s.rows[p].seen \in Nat /\ (s.rows[p].seen > after => p \in P)
  BY RowsLive DEF IsStore, Past
<1>5. next = IF k = 0 THEN after ELSE s.rows[page[k]].seen
  <2>1. page = <<>> <=> k = 0
    BY <1>1
  <2> QED BY <2>1 DEF NextCursor
<1>6. entries = [i \in 1 .. k |-> EntryOf(page[i], s.rows[page[i]])]
  <2>1. DOMAIN page = 1 .. k
    BY <1>1
  <2> QED BY <2>1 DEF EntriesOf
<1> HIDE DEF P, log, n, page, k, entries, next
<1>7. \A i \in 1 .. k : i \in 1 .. n /\ page[i] = log[i] /\ page[i] \in P
  <2>1. \A i \in 1 .. k : i \in 1 .. n /\ page[i] = log[i]
    BY <1>1
  <2>2. \A i \in 1 .. n : log[i] \in P
    BY <1>2 DEF n
  <2> QED BY <2>1, <2>2
<1>8. \A i \in 1 .. k : entries[i] \in Entries /\ entries[i].path = page[i]
                        /\ entries[i] = EntryOf(page[i], s.rows[page[i]])
  BY <1>3, <1>6, <1>7, EntryType
<1>9. entries \in Seq(Entries) /\ Len(entries) = k
  <2>1. k \in Nat
    BY <1>1
  <2>2. entries \in [1 .. k -> Entries]
    BY <1>6, <1>8
  <2> QED BY <2>1, <2>2
<1>10. Distinct(entries)
  <2> SUFFICES ASSUME NEW i \in 1 .. k, NEW j \in 1 .. k, i # j, page[i] = page[j]
               PROVE  FALSE
    BY <1>8, <1>9 DEF Distinct
  <2>1. i \in 1 .. n /\ j \in 1 .. n /\ log[i] = log[j]
    BY <1>7
  <2>2. i < j \/ j < i
    BY <1>1, <2>1
  <2> QED BY <1>2, <2>1, <2>2
<1>11. next \in Nat /\ after <= next /\ next <= s.seq
  <2>1. CASE k = 0
    BY <1>5, <2>1
  <2>2. CASE k # 0
    <3>1. k \in 1 .. k
      BY <1>1, <2>2
    <3>2. page[k] \in P
      BY <1>7, <3>1
    <3> QED BY <1>3, <1>5, <2>2, <3>2
  <2> QED BY <2>1, <2>2
<1>12. Covers(s, after, next, entries)
  <2> SUFFICES ASSUME NEW p \in Paths, s.rows[p].seen \in after + 1 .. next
               PROVE  \E i \in 1 .. k : entries[i] = EntryOf(p, s.rows[p])
    BY <1>9 DEF Covers
  <2>1. p \in P /\ s.rows[p].seen \in Nat /\ after < s.rows[p].seen /\ s.rows[p].seen <= next
    BY <1>4, <1>11
  <2>2. k # 0
    BY <1>5, <1>11, <2>1
  <2>3. PICK i \in 1 .. n : log[i] = p
    BY <1>2, <2>1
  <2>4. CASE i <= k
    <3>1. i \in 1 .. k
      BY <1>1, <2>3, <2>4
    <3>2. page[i] = p
      BY <1>7, <2>3, <3>1
    <3> QED BY <1>8, <3>1, <3>2
  <2>5. CASE i > k
    <3>1. k \in 1 .. n /\ k \in 1 .. k /\ k < i
      BY <1>1, <2>2, <2>5
    <3>2. page[k] = log[k] /\ page[k] \in P
      BY <1>7, <3>1
    <3>3. log[k] # log[i] /\ s.rows[log[k]].seen <= s.rows[log[i]].seen
      BY <1>2, <2>3, <3>1
    <3>4. next = s.rows[log[k]].seen
      BY <1>5, <2>2, <3>2
    <3>5. s.rows[log[k]].seen = s.rows[p].seen
      BY <1>3, <2>1, <2>3, <3>2, <3>3, <3>4
    <3>6. log[k] \in Paths /\ s.rows[log[k]] # Absent /\ s.rows[p] # Absent
      <4>1. log[k] \in P /\ s.rows[log[k]] \in Row /\ s.rows[p] \in Row
        BY <1>3, <2>1, <3>2
      <4>2. \A r \in Row : r # Absent
        BY RowsLive
      <4> QED BY <1>3, <4>1, <4>2
    <3> QED BY <2>3, <3>3, <3>5, <3>6 DEF LogOrder
  <2>6. i <= k \/ i > k
    BY <1>1, <2>3
  <2> QED BY <2>4, <2>5, <2>6
<1> QED BY <1>9, <1>10, <1>11, <1>12 DEF entries, next

-----------------------------------------------------------------------------
(***************************************************************************)
(* What a node stores is sound: its log is in order and its digest true.   *)
(* What a step makes of it goes onward: what changed is past what the log  *)
(* said before, or gone.  And it settles content as it should: one copy,   *)
(* and nothing removed comes back.                                         *)
(***************************************************************************)
DigestSound(s) ==
  s.digest.at <= s.seq /\ (s.digest.at = s.seq => s.digest.view = View(s.rows))

Sound(s) == s \in Stores /\ LogOrder(s) /\ DigestSound(s)

Onward(s, t) ==
  /\ Sound(t) /\ s.seq <= t.seq
  /\ \A q \in Paths : t.rows[q] # s.rows[q] => t.rows[q] = Absent \/ s.seq < t.rows[q].seen

Settles(s, t) ==
  /\ OneCopy(s) => OneCopy(t)
  /\ \A q \in Paths : Len(q) = 1 => KeepsRemoved(s, t, q)

LEMMA StoreIsStore ==
  ASSUME NEW s \in Stores
  PROVE  IsStore(s)
  BY DEF Stores, IsStore

LEMMA StoreFields ==
  ASSUME NEW s \in Stores
  PROVE  /\ s.rows \in [Paths -> Row \cup {Absent}] /\ s.seq \in Nat /\ s.served \in Nat
         /\ s.cursor \in [Nodes -> Nat] /\ s.digest \in [at : Nat, view : Views]
         /\ s.digest.at \in Nat /\ s.digest.view \in Views
         /\ \A p \in Paths : s.rows[p] \in Row \cup {Absent} /\ s.rows[p].seen \in Nat
<1>1. /\ s.rows \in [Paths -> Row \cup {Absent}] /\ s.seq \in Nat /\ s.served \in Nat
      /\ s.cursor \in [Nodes -> Nat] /\ s.digest \in [at : Nat, view : Views]
  BY DEF Stores
<1>2. s.digest.at \in Nat /\ s.digest.view \in Views
  BY <1>1
<1>3. \A p \in Paths : s.rows[p] \in Row \cup {Absent} /\ s.rows[p].seen \in Nat
  BY <1>1, RowsLive
<1> QED BY <1>1, <1>2, <1>3

LEMMA ViewType ==
  ASSUME NEW rows \in [Paths -> Row \cup {Absent}]
  PROVE  View(rows) \in Views
<1>1. ASSUME NEW p \in Paths
      PROVE  EntryOf(p, rows[p]) \in [path : Paths, hash : Hashes \cup {0}, added : Nat, removed : Nat]
  <2>1. CASE rows[p] \in Row
    BY <2>1 DEF EntryOf, Row
  <2>2. CASE rows[p] = Absent
    BY <2>2 DEF EntryOf, Absent
  <2> QED BY <2>1, <2>2
<1> QED BY <1>1 DEF View, Views

LEMMA LoggedStore ==
  ASSUME NEW s \in Stores, NEW t, Logged(s, t)
  PROVE  t \in Stores /\ t.cursor = s.cursor /\ t.served = s.served /\ t.digest = s.digest
<1>1. DOMAIN s = {"rows", "seq", "served", "cursor", "digest"}
  BY DEF Stores
<1>2. /\ t = [f \in DOMAIN t |-> t[f]] /\ DOMAIN t = DOMAIN s
      /\ t.rows \in [Paths -> Row \cup {Absent}] /\ t.seq \in Nat
  BY DEF Logged, IsStore, Alike
<1>3. t.cursor = s.cursor /\ t.served = s.served /\ t.digest = s.digest
  BY <1>1 DEF Logged, Alike
<1>4. t = [rows |-> t.rows, seq |-> t.seq, served |-> t.served, cursor |-> t.cursor,
           digest |-> t.digest]
  BY <1>1, <1>2
<1>5. t.served \in Nat /\ t.cursor \in [Nodes -> Nat] /\ t.digest \in [at : Nat, view : Views]
  BY <1>3 DEF Stores
<1> QED BY <1>2, <1>3, <1>4, <1>5 DEF Stores

LEMMA LoggedOnward ==
  ASSUME NEW s, Sound(s), NEW t, Logged(s, t)
  PROVE  Onward(s, t)
<1>1. t \in Stores /\ t.digest = s.digest /\ s.seq \in Nat /\ t.seq \in Nat /\ s.digest.at \in Nat
  BY LoggedStore, StoreFields DEF Sound
<1>2. s.seq <= t.seq /\ LogOrder(t) /\ (t.rows # s.rows => s.seq < t.seq)
  BY DEF Logged, Sound
<1>3. DigestSound(t)
  BY <1>1, <1>2 DEF Sound, DigestSound
<1> QED BY <1>1, <1>2, <1>3 DEF Onward, Sound, Logged

(***************************************************************************)
(* A step that leaves the rows and the log alone.                          *)
(***************************************************************************)
LEMMA RestOnward ==
  ASSUME NEW s, Sound(s), NEW t \in Stores, t.rows = s.rows, t.seq = s.seq, DigestSound(t)
  PROVE  Onward(s, t) /\ Settles(s, t)
<1>1. LogOrder(t) /\ s.seq <= t.seq
  BY StoreFields DEF Sound, LogOrder
<1> QED BY <1>1 DEF Onward, Sound, Settles, KeepsRemoved, OneCopy, IsRemoved, IsLive

LEMMA SameOnward ==
  ASSUME NEW s, Sound(s)
  PROVE  Onward(s, s) /\ Settles(s, s)
  BY RestOnward DEF Sound

LEMMA OnwardOn ==
  ASSUME NEW s, NEW t, NEW u, Sound(s), Onward(s, t), Onward(t, u)
  PROVE  Onward(s, u)
<1>1. /\ s \in Stores /\ t \in Stores /\ u \in Stores
      /\ s.seq \in Nat /\ t.seq \in Nat /\ u.seq \in Nat
  BY StoreFields DEF Sound, Onward
<1>2. \A q \in Paths : u.rows[q].seen \in Nat
  BY <1>1, StoreFields
<1>3. ASSUME NEW q \in Paths, u.rows[q] # s.rows[q]
      PROVE  u.rows[q] = Absent \/ s.seq < u.rows[q].seen
  <2>1. CASE u.rows[q] # t.rows[q]
    BY <1>1, <1>2, <2>1 DEF Onward
  <2>2. CASE u.rows[q] = t.rows[q]
    BY <1>3, <2>2 DEF Onward
  <2> QED BY <2>1, <2>2
<1> QED BY <1>1, <1>3 DEF Onward

LEMMA DigestedEffect ==
  ASSUME NEW s, Sound(s)
  PROVE  /\ Onward(s, Digested(s)) /\ Settles(s, Digested(s))
         /\ Digested(s).cursor = s.cursor /\ Digested(s).rows = s.rows /\ Digested(s).seq = s.seq
         /\ Digest(s) \in Views /\ Digest(s) = View(s.rows)
<1> DEFINE t == Digested(s)
<1>1. s \in Stores /\ s.rows \in [Paths -> Row \cup {Absent}] /\ s.seq \in Nat
  BY StoreFields DEF Sound
<1>2. Digest(s) = View(s.rows)
  BY DEF Digest, Sound, DigestSound
<1>3. Digest(s) \in Views
  BY <1>1, <1>2, ViewType
<1>4. /\ t \in Stores /\ t.rows = s.rows /\ t.seq = s.seq /\ t.cursor = s.cursor
      /\ t.digest = [at |-> s.seq, view |-> Digest(s)]
  BY <1>1, <1>3 DEF Digested, Stores
<1> HIDE DEF t
<1>5. DigestSound(t)
  BY <1>1, <1>2, <1>4 DEF DigestSound
<1> QED BY <1>2, <1>3, <1>4, <1>5, RestOnward DEF t

LEMMA CursorEffect ==
  ASSUME NEW s, Sound(s), NEW m \in Nodes, NEW x \in Nat, NEW t, t = [s EXCEPT !.cursor[m] = x]
  PROVE  /\ Onward(s, t) /\ Settles(s, t) /\ t.rows = s.rows /\ t.seq = s.seq
         /\ t.cursor[m] = x /\ \A n \in Nodes \ {m} : t.cursor[n] = s.cursor[n]
<1>1. s \in Stores /\ s.cursor \in [Nodes -> Nat]
  BY StoreFields DEF Sound
<1>2. /\ t.rows = s.rows /\ t.seq = s.seq /\ t.digest = s.digest
      /\ t.cursor = [s.cursor EXCEPT ![m] = x]
  BY <1>1 DEF Stores
<1>3. t.cursor \in [Nodes -> Nat]
  BY <1>1, <1>2
<1>4. t \in Stores
  BY <1>1, <1>3 DEF Stores
<1>5. DigestSound(t)
  BY <1>2 DEF Sound, DigestSound
<1>6. Onward(s, t) /\ Settles(s, t)
  BY <1>2, <1>4, <1>5, RestOnward
<1> QED BY <1>1, <1>2, <1>6

LEMMA ServedEffect ==
  ASSUME NEW s, Sound(s), NEW after \in Nat, NextCursor(s, after) \in Nat
  PROVE  /\ Onward(s, Served(s, after)) /\ Settles(s, Served(s, after))
         /\ Served(s, after).cursor = s.cursor
<1> DEFINE t == Served(s, after)
           x == Larger(s.served, NextCursor(s, after))
<1>1. s \in Stores /\ s.served \in Nat
  BY StoreFields DEF Sound
<1>2. x \in Nat
  BY <1>1 DEF Larger
<1>3. t = [s EXCEPT !.served = x]
  BY DEF Served
<1> HIDE DEF x, t
<1>4. t \in Stores /\ t.rows = s.rows /\ t.seq = s.seq /\ t.digest = s.digest /\ t.cursor = s.cursor
  BY <1>1, <1>2, <1>3 DEF Stores
<1>5. DigestSound(t)
  BY <1>4 DEF Sound, DigestSound
<1> QED BY <1>4, <1>5, RestOnward DEF t

LEMMA RecordEffect ==
  ASSUME NEW s, Sound(s), NEW p \in Paths, NEW hash \in Hashes, NEW at \in Nat \ {0}
  PROVE  Onward(s, Record(s, p, hash, at)) /\ Record(s, p, hash, at).cursor = s.cursor
<1> DEFINE row == [hash |-> hash, added |-> at, removed |-> 0, have |-> TRUE, seen |-> 0]
<1>1. row \in Row
  BY DEF Row
<1>2. PICK t : t = Record(s, p, hash, at)
  OBVIOUS
<1>3. PICK have \in BOOLEAN : have = TRUE
  OBVIOUS
<1>4. t = WriteRow(s, p, row, have)
  BY <1>2, <1>3 DEF Record
<1>5. IsStore(s)
  BY StoreIsStore DEF Sound
<1> HIDE DEF row
<1>6. RowWritten(s, t, p, row)
  BY <1>1, <1>4, <1>5, WriteRowEffect
<1>7. Logged(s, t)
  BY <1>5, <1>6, OneRowLogged
<1> QED BY <1>2, <1>7, LoggedOnward, LoggedStore DEF Sound

LEMMA RemoveEffect ==
  ASSUME NEW s, Sound(s), NEW p \in Paths, IsLive(s.rows[p]), NEW at \in Nat \ {0},
         NEW t, t = RemoveRow(s, p, at)
  PROVE  Onward(s, t) /\ Settles(s, t) /\ t.cursor = s.cursor
<1>1. /\ IsStore(s) /\ s \in Stores /\ s.seq \in Nat /\ s.rows \in [Paths -> Row \cup {Absent}]
      /\ s.digest.at \in Nat
  BY StoreIsStore, StoreFields DEF Sound
<1>2. s.rows[p] \in Row /\ ~IsRemoved(s.rows[p])
  BY <1>1, RowsLive DEF IsLive
<1>3. CASE s.rows[p].seen > s.served
  <2>0. PICK n \in Nat : n = s.seq + 1
    BY <1>1
  <2>1. t = [s EXCEPT !.seq = n, !.rows[p] = Absent]
    BY <1>3, <2>0 DEF RemoveRow
  <2>2. /\ t.rows = [s.rows EXCEPT ![p] = Absent] /\ t.seq = s.seq + 1
        /\ t.digest = s.digest /\ t.cursor = s.cursor
    BY <1>1, <2>0, <2>1 DEF Stores
  <2>3. t.rows \in [Paths -> Row \cup {Absent}]
    BY <1>1, <2>2
  <2>4. t \in Stores
    BY <1>1, <2>0, <2>1, <2>3 DEF Stores
  <2>5. t.rows[p] = Absent /\ \A q \in Paths \ {p} : t.rows[q] = s.rows[q]
    BY <1>1, <2>2
  <2>6. Absent.seen = 0 /\ ~IsLive(Absent)
    BY DEF Absent, IsLive
  <2>7. LogOrder(t)
    <3>1. \A q \in Paths : s.rows[q].seen <= s.seq /\ s.rows[q].seen \in Nat
      BY StoreFields DEF Sound, LogOrder
    <3>2. \A q \in Paths : t.rows[q].seen <= t.seq
      BY <1>1, <2>2, <2>5, <2>6, <3>1
    <3>3. ASSUME NEW q \in Paths, NEW r \in Paths, t.rows[q] # Absent, t.rows[r] # Absent,
                 t.rows[q].seen = t.rows[r].seen
          PROVE  q = r
      <4>1. t.rows[q] = s.rows[q] /\ t.rows[r] = s.rows[r]
        BY <2>5, <3>3
      <4> QED BY <3>3, <4>1 DEF Sound, LogOrder
    <3> QED BY <3>2, <3>3 DEF LogOrder
  <2>8. DigestSound(t)
    BY <1>1, <2>2 DEF Sound, DigestSound
  <2>9. Onward(s, t)
    BY <1>1, <2>2, <2>4, <2>5, <2>7, <2>8 DEF Onward, Sound
  <2>10. Settles(s, t)
    BY <2>5, <2>6 DEF Settles, OneCopy, KeepsRemoved, IsLive
  <2> QED BY <2>2, <2>9, <2>10
<1>4. CASE ~(s.rows[p].seen > s.served)
  <2>1. t = Tombstone(s, p, at) /\ at \in Nat
    BY <1>4 DEF RemoveRow
  <2>2. (\E row : RowWritten(s, t, p, row)) /\ t.rows[p].removed = at
    BY <1>1, <1>2, <2>1, TombstoneEffect
  <2>3. PICK row : RowWritten(s, t, p, row)
    BY <2>2
  <2>4. Logged(s, t)
    BY <1>1, <2>3, OneRowLogged
  <2>5. ~IsLive(t.rows[p]) /\ \A q \in Paths \ {p} : t.rows[q] = s.rows[q]
    BY <2>2, <2>3 DEF IsLive, IsRemoved, RowWritten
  <2>6. Settles(s, t)
    BY <2>5 DEF Settles, OneCopy, KeepsRemoved, IsLive
  <2> QED BY <1>1, <2>4, <2>6, LoggedOnward, LoggedStore
<1> QED BY <1>3, <1>4

LEMMA MergedOnward ==
  ASSUME NEW s, Sound(s), NEW entries \in Seq(Entries), Distinct(entries)
  PROVE  /\ Onward(s, Merged(s, entries)) /\ Settles(s, Merged(s, entries))
         /\ Merged(s, entries).cursor = s.cursor
<1>1. IsStore(s) /\ s \in Stores
  BY StoreIsStore DEF Sound
<1>2. Logged(s, Merged(s, entries)) /\ (OneCopy(s) => OneCopy(Merged(s, entries)))
  BY <1>1, MergedEffect
<1>3. \A q \in Paths : Len(q) = 1 => KeepsRemoved(s, Merged(s, entries), q)
  BY <1>1, MergedKeepsRemoved
<1> QED BY <1>1, <1>2, <1>3, LoggedOnward, LoggedStore DEF Settles

(***************************************************************************)
(* A page still covers what it covered when its sender has moved on.       *)
(***************************************************************************)
LEMMA CoversOnward ==
  ASSUME NEW s, NEW t, Sound(s), Onward(s, t), NEW after \in Nat, NEW next \in Nat, next <= s.seq,
         NEW entries, Covers(s, after, next, entries)
  PROVE  Covers(t, after, next, entries) /\ next <= t.seq
<1>1. s.seq \in Nat /\ t.seq \in Nat /\ \A p \in Paths : t.rows[p].seen \in Nat
  BY StoreFields DEF Sound, Onward
<1>2. next <= t.seq
  BY <1>1 DEF Onward
<1>3. ASSUME NEW p \in Paths, t.rows[p].seen \in after + 1 .. next
      PROVE  t.rows[p] = s.rows[p]
  <2>1. t.rows[p].seen # 0 /\ ~(s.seq < t.rows[p].seen)
    BY <1>1, <1>3
  <2>2. t.rows[p] # Absent
    BY <2>1 DEF Absent
  <2> QED BY <2>1, <2>2 DEF Onward
<1> QED BY <1>2, <1>3 DEF Covers

-----------------------------------------------------------------------------
(***************************************************************************)
(* The reads of a node fit: there are slots for them, each has a peer of   *)
(* its own, and so has each that waits.  After a handler one waits only    *)
(* while every slot is taken.                                              *)
(***************************************************************************)
Reads == [peer : Nodes, after : Nat, retried : BOOLEAN]
Waits == [reads : SUBSET Reads, deferred : Seq(Nodes), sent : SUBSET Reads]

Fits(rs, peers) ==
  /\ IsFiniteSet(rs) /\ Cardinality(rs) \in 0 .. MaxReads /\ Len(peers) <= MaxDeferred
  /\ \A r, o \in rs : r.peer = o.peer => r = o
  /\ \A i, j \in 1 .. Len(peers) : peers[i] = peers[j] => i = j
  /\ \A r \in rs : \A i \in 1 .. Len(peers) : r.peer # peers[i]

SlotsTaken(rs, peers) == peers # <<>> => Cardinality(rs) = MaxReads

Fitting(wait) == wait \in Waits /\ Fits(wait.reads, wait.deferred) /\ wait.sent \subseteq wait.reads

LEMMA WaitFields ==
  ASSUME NEW wait \in Waits
  PROVE  /\ wait.reads \in SUBSET Reads /\ wait.deferred \in Seq(Nodes) /\ wait.sent \in SUBSET Reads
         /\ Len(wait.deferred) \in Nat
  BY DEF Waits

LEMMA Limits == MaxReads \in Nat /\ MaxReads # 0 /\ MaxDeferred \in Nat
  BY SizeAssumption DEF SizeAssumption

LEMMA OneMoreRead ==
  ASSUME NEW wait, Fitting(wait), NEW r \in Reads, Cardinality(wait.reads) < MaxReads,
         \A o \in wait.reads : o.peer # r.peer,
         \A i \in 1 .. Len(wait.deferred) : wait.deferred[i] # r.peer,
         NEW w, w = [wait EXCEPT !.reads = @ \cup {r}, !.sent = @ \cup {r}]
  PROVE  Fitting(w) /\ w.reads = wait.reads \cup {r}
<1>1. /\ wait \in Waits /\ wait.reads \in SUBSET Reads /\ wait.sent \in SUBSET Reads
      /\ IsFiniteSet(wait.reads) /\ Cardinality(wait.reads) \in Nat
  BY WaitFields, FS_CardinalityType DEF Fitting, Fits
<1>2. w.reads = wait.reads \cup {r} /\ w.sent = wait.sent \cup {r} /\ w.deferred = wait.deferred
  BY <1>1 DEF Waits
<1>3. w \in Waits
  BY <1>1, <1>2 DEF Waits
<1>4. IsFiniteSet(w.reads) /\ Cardinality(w.reads) \in 0 .. MaxReads
  <2>1. r \notin wait.reads
    OBVIOUS
  <2>2. IsFiniteSet(wait.reads \cup {r}) /\ Cardinality(wait.reads \cup {r}) = Cardinality(wait.reads) + 1
    BY <1>1, <2>1, FS_AddElement
  <2> QED BY <1>1, <1>2, <2>2, Limits
<1>5. Fits(w.reads, w.deferred)
  BY <1>2, <1>4 DEF Fitting, Fits
<1> QED BY <1>2, <1>3, <1>5 DEF Fitting

LEMMA OneMoreDeferred ==
  ASSUME NEW wait, Fitting(wait), NEW peer \in Nodes, Len(wait.deferred) < MaxDeferred,
         \A o \in wait.reads : o.peer # peer,
         \A i \in 1 .. Len(wait.deferred) : wait.deferred[i] # peer,
         NEW w, w = [wait EXCEPT !.deferred = Append(@, peer)]
  PROVE  Fitting(w) /\ w.reads = wait.reads
<1>1. wait \in Waits /\ wait.deferred \in Seq(Nodes) /\ Len(wait.deferred) \in Nat
  BY WaitFields DEF Fitting
<1>2. w.reads = wait.reads /\ w.sent = wait.sent /\ w.deferred = Append(wait.deferred, peer)
  BY <1>1 DEF Waits
<1>3. PICK d \in Seq(Nodes) : d = wait.deferred
  BY <1>1
<1>4. /\ Append(d, peer) \in Seq(Nodes) /\ Len(Append(d, peer)) = Len(d) + 1
      /\ \A i \in 1 .. Len(d) : Append(d, peer)[i] = d[i]
      /\ Append(d, peer)[Len(d) + 1] = peer
  OBVIOUS
<1>5. w \in Waits
  BY <1>1, <1>2, <1>3, <1>4 DEF Waits
<1>6. PICK e : e = Append(d, peer)
  OBVIOUS
<1>7. \A i \in 1 .. Len(e) : \/ i \in 1 .. Len(d) /\ e[i] = d[i]
                             \/ i = Len(d) + 1 /\ e[i] = peer
  BY <1>1, <1>3, <1>4, <1>6
<1>8. Fits(wait.reads, e)
  <2>1. Len(e) <= MaxDeferred
    BY <1>1, <1>3, <1>4, <1>6, Limits
  <2>2. \A i, j \in 1 .. Len(e) : e[i] = e[j] => i = j
    BY <1>3, <1>7 DEF Fitting, Fits
  <2>3. \A r \in wait.reads : \A i \in 1 .. Len(e) : r.peer # e[i]
    BY <1>3, <1>7 DEF Fitting, Fits
  <2> QED BY <2>1, <2>2, <2>3 DEF Fitting, Fits
<1> QED BY <1>2, <1>3, <1>5, <1>6, <1>8 DEF Fitting

(***************************************************************************)
(* start_read, once a slot is free for the peer or it does not wait.       *)
(***************************************************************************)
LEMMA ReadEffect ==
  ASSUME NEW wait, Fitting(wait), NEW r \in Reads,
         Cardinality(wait.reads) < MaxReads =>
           \A i \in 1 .. Len(wait.deferred) : wait.deferred[i] # r.peer
  PROVE  Fitting(Read(wait, r)) /\ Read(wait, r).reads \subseteq wait.reads \cup {r}
<1>1. wait \in Waits /\ wait.deferred \in Seq(Nodes) /\ r.peer \in Nodes /\ Len(wait.deferred) \in Nat
  BY WaitFields DEF Fitting, Reads
<1>2. CASE \E o \in wait.reads : o.peer = r.peer
  BY <1>2 DEF Read
<1>3. CASE /\ ~\E o \in wait.reads : o.peer = r.peer
           /\ Cardinality(wait.reads) < MaxReads
  <2>1. Read(wait, r) = [wait EXCEPT !.reads = @ \cup {r}, !.sent = @ \cup {r}]
    BY <1>3 DEF Read
  <2> QED BY <1>3, <2>1, OneMoreRead
<1>4. CASE /\ ~\E o \in wait.reads : o.peer = r.peer
           /\ ~(Cardinality(wait.reads) < MaxReads)
  <2>1. CASE r.peer \in SX!ToSet(wait.deferred) \/ Len(wait.deferred) >= MaxDeferred
    <3>1. Read(wait, r) = wait
      BY <1>4, <2>1 DEF Read
    <3> QED BY <3>1
  <2>2. CASE ~(r.peer \in SX!ToSet(wait.deferred) \/ Len(wait.deferred) >= MaxDeferred)
    <3>1. Read(wait, r) = [wait EXCEPT !.deferred = Append(@, r.peer)]
      BY <1>4, <2>2 DEF Read
    <3>2. \A i \in 1 .. Len(wait.deferred) : wait.deferred[i] # r.peer
      BY <1>1, <2>2 DEF SX!ToSet
    <3>3. Len(wait.deferred) < MaxDeferred
      BY <1>1, <2>2, Limits
    <3> QED BY <1>1, <1>4, <3>1, <3>2, <3>3, OneMoreDeferred
  <2> QED BY <2>1, <2>2
<1> QED BY <1>2, <1>3, <1>4

LEMMA RestOfSeq ==
  ASSUME NEW d \in Seq(Nodes), NEW k \in 0 .. Len(d)
  PROVE  LET rest == SubSeq(d, k + 1, Len(d))
         IN  /\ rest \in Seq(Nodes) /\ Len(rest) = Len(d) - k
             /\ \A i \in 1 .. Len(rest) : k + i \in 1 .. Len(d) /\ rest[i] = d[k + i]
<1> DEFINE rest == SubSeq(d, k + 1, Len(d))
<1>1. rest \in Seq(Nodes) /\ Len(rest) = Len(d) - k
  OBVIOUS
<1>2. ASSUME NEW i \in 1 .. Len(rest) PROVE k + i \in 1 .. Len(d) /\ rest[i] = d[k + i]
  <2>1. i \in 1 .. Len(d) - k
    BY <1>1
  <2>2. k + i \in 1 .. Len(d)
    BY <2>1
  <2>3. rest[i] = d[k + 1 + i - 1]
    BY <2>1
  <2>4. k + 1 + i - 1 = k + i
    BY <2>1
  <2> QED BY <2>2, <2>3, <2>4
<1> QED BY <1>1, <1>2

(***************************************************************************)
(* The reads that wait are started while there are slots.                  *)
(***************************************************************************)
LEMMA DrainedEffect ==
  ASSUME NEW wait, Fitting(wait), NEW s, s.cursor \in [Nodes -> Nat]
  PROVE  LET w == Drained(wait, s)
         IN  /\ Fitting(w) /\ SlotsTaken(w.reads, w.deferred)
             /\ \A r \in w.reads : r \in wait.reads \/ r.after = s.cursor[r.peer]
<1> DEFINE d == wait.deferred
           c == Cardinality(wait.reads)
           k == Smaller(MaxReads - c, Len(d))
           read(i) == ReadOf(d[i], s.cursor[d[i]], FALSE)
           next == {read(i) : i \in 1 .. k}
           rest == SubSeq(d, k + 1, Len(d))
           w == Drained(wait, s)
<1>1. /\ wait \in Waits /\ wait.reads \in SUBSET Reads /\ d \in Seq(Nodes) /\ wait.sent \in SUBSET Reads
      /\ Len(d) \in Nat /\ IsFiniteSet(wait.reads) /\ c \in 0 .. MaxReads
      /\ wait.sent \subseteq wait.reads
  BY WaitFields DEF Fitting, Fits
<1>2. k \in Nat /\ k <= Len(d) /\ k <= MaxReads - c /\ (k = Len(d) \/ k = MaxReads - c)
  BY <1>1, Limits DEF Smaller
<1>3. w = [reads |-> wait.reads \cup next, sent |-> wait.sent \cup next, deferred |-> rest]
  BY DEF Drained
<1> HIDE DEF d, c, k, w, rest
<1>4. w.reads = wait.reads \cup next /\ w.sent = wait.sent \cup next /\ w.deferred = rest
  <2> HIDE DEF next
  <2> QED BY <1>3
<1>5. \A i \in 1 .. Len(d) : d[i] \in Nodes /\ read(i) \in Reads /\ read(i).peer = d[i]
                            /\ read(i).after = s.cursor[read(i).peer]
  <2> SUFFICES ASSUME NEW i \in 1 .. Len(d)
               PROVE  /\ d[i] \in Nodes /\ read(i) \in Reads /\ read(i).peer = d[i]
                      /\ read(i).after = s.cursor[read(i).peer]
    OBVIOUS
  <2>1. d[i] \in Nodes
    BY <1>1
  <2>2. s.cursor[d[i]] \in Nat
    BY <2>1
  <2> QED BY <2>1, <2>2 DEF ReadOf, Reads
<1>6. \A i \in 1 .. k : i \in 1 .. Len(d)
  BY <1>1, <1>2
<1>7. /\ \A i, j \in 1 .. Len(d) : d[i] = d[j] => i = j
      /\ \A r \in wait.reads : \A i \in 1 .. Len(d) : r.peer # d[i]
      /\ \A r, o \in wait.reads : r.peer = o.peer => r = o
      /\ Len(d) <= MaxDeferred
  BY DEF Fitting, Fits, d
<1> HIDE DEF read
<1>8. IsFiniteSet(next) /\ Cardinality(next) = k
  <2> DEFINE f == [i \in 1 .. k |-> read(i)]
  <2>1. \A i, j \in 1 .. k : f[i] = f[j] => i = j
    BY <1>5, <1>6, <1>7
  <2>2. f \in Bijection(1 .. k, next)
    <3>1. f \in [1 .. k -> next] /\ \A x \in next : \E i \in 1 .. k : f[i] = x
      OBVIOUS
    <3> HIDE DEF f, next
    <3> QED BY <2>1, <3>1 DEF Bijection, Injection, Surjection, IsInjective
  <2>3. ExistsBijection(1 .. k, next)
    BY <2>2 DEF ExistsBijection
  <2> HIDE DEF next
  <2> QED BY <1>2, <2>3, FS_NatBijection, FS_CountingElements
<1>9. \A r \in next : r \in Reads /\ r.after = s.cursor[r.peer]
                     /\ \E i \in 1 .. k : r = read(i) /\ r.peer = d[i]
  BY <1>5, <1>6
<1> HIDE DEF next
<1>10. IsFiniteSet(w.reads) /\ Cardinality(w.reads) = c + k
  <2>1. wait.reads \cap next = {}
    BY <1>6, <1>7, <1>9
  <2>2. Cardinality(wait.reads \cap next) = 0
    BY <2>1, FS_EmptySet
  <2>3. /\ IsFiniteSet(wait.reads \cup next)
        /\ Cardinality(wait.reads \cup next) =
             Cardinality(wait.reads) + Cardinality(next) - Cardinality(wait.reads \cap next)
    BY <1>1, <1>8, FS_Union
  <2> QED BY <1>1, <1>2, <1>4, <1>8, <2>2, <2>3 DEF c
<1>11. /\ rest \in Seq(Nodes) /\ Len(rest) = Len(d) - k
       /\ \A i \in 1 .. Len(rest) : k + i \in 1 .. Len(d) /\ rest[i] = d[k + i]
  <2>1. PICK dd \in Seq(Nodes) : dd = d
    BY <1>1
  <2>2. k \in 0 .. Len(dd)
    BY <1>2, <2>1
  <2>3. PICK r : r = SubSeq(dd, k + 1, Len(dd))
    OBVIOUS
  <2>4. /\ r \in Seq(Nodes) /\ Len(r) = Len(dd) - k
        /\ \A i \in 1 .. Len(r) : k + i \in 1 .. Len(dd) /\ r[i] = dd[k + i]
    BY <2>2, <2>3, RestOfSeq
  <2>5. rest = r
    BY <2>1, <2>3 DEF rest
  <2> QED BY <2>1, <2>4, <2>5
<1>12. w \in Waits
  BY <1>1, <1>3, <1>9, <1>11 DEF Waits
<1>13. Fits(w.reads, w.deferred)
  <2>1. Cardinality(w.reads) \in 0 .. MaxReads /\ Len(rest) <= MaxDeferred
    BY <1>1, <1>2, <1>7, <1>10, <1>11, Limits
  <2>2. ASSUME NEW r \in w.reads, NEW o \in w.reads, r.peer = o.peer PROVE r = o
    BY <1>4, <1>6, <1>7, <1>9, <2>2
  <2>3. ASSUME NEW i \in 1 .. Len(rest), NEW j \in 1 .. Len(rest), rest[i] = rest[j] PROVE i = j
    <3>1. /\ k + i \in 1 .. Len(d) /\ k + j \in 1 .. Len(d)
          /\ d[k + i] = rest[i] /\ d[k + j] = rest[j]
      BY <1>11, <2>3
    <3>2. PICK x \in 1 .. Len(d), y \in 1 .. Len(d) : x = k + i /\ y = k + j /\ d[x] = d[y]
      BY <2>3, <3>1
    <3>3. x = y
      BY <1>7, <3>2
    <3> QED BY <1>2, <3>2, <3>3
  <2>4. ASSUME NEW r \in w.reads, NEW i \in 1 .. Len(rest) PROVE r.peer # rest[i]
    <3>1. k + i \in 1 .. Len(d) /\ rest[i] = d[k + i]
      BY <1>11
    <3>2. CASE r \in wait.reads
      BY <1>7, <3>1, <3>2
    <3>3. CASE r \in next
      <4>1. PICK j \in 1 .. k : r.peer = d[j]
        BY <1>9, <3>3
      <4>2. j # k + i /\ j \in 1 .. Len(d)
        BY <1>2, <1>6
      <4> QED BY <1>7, <3>1, <4>1, <4>2
    <3> QED BY <1>4, <3>2, <3>3
  <2> QED BY <1>4, <1>10, <2>1, <2>2, <2>3, <2>4 DEF Fits
<1>14. SlotsTaken(w.reads, w.deferred)
  <2> SUFFICES ASSUME rest # <<>> PROVE c + k = MaxReads
    BY <1>4, <1>10 DEF SlotsTaken
  <2>1. k # Len(d)
    BY <1>1, <1>2, <1>11
  <2> QED BY <1>1, <1>2, <2>1, Limits
<1>15. w.sent \subseteq w.reads
  BY <1>1, <1>4
<1>16. \A r \in w.reads : r \in wait.reads \/ r.after = s.cursor[r.peer]
  BY <1>4, <1>9
<1> QED BY <1>12, <1>13, <1>14, <1>15, <1>16 DEF Fitting, w

-----------------------------------------------------------------------------
(***************************************************************************)
(* What is true of a message on its way: a request asks for no more than   *)
(* the log there has, and a page covers what it says it does.              *)
(***************************************************************************)
MsgTrue(m) ==
  /\ m.type = "changes" => m.after <= store[m.to].seq
  /\ m.type = "page" =>
       /\ Distinct(m.entries)
       /\ m.after <= m.next /\ m.next <= store[m.by].seq
       /\ Covers(store[m.by], m.after, m.next, m.entries)

(***************************************************************************)
(* The inductive invariant.                                                *)
(***************************************************************************)
Adds == [path : Paths, hash : Hashes, at : Nat \ {0}, force : BOOLEAN]

StorePart ==
  /\ store \in [Nodes -> Stores]
  /\ \A n \in Nodes : Sound(store[n])
  /\ \A n, m \in Nodes : store[n].cursor[m] <= store[m].seq

MsgPart == \A m \in msgs : m \in Messages /\ MsgTrue(m)

ReadPart ==
  /\ reads \in [Nodes -> SUBSET Reads] /\ deferred \in [Nodes -> Seq(Nodes)]
  /\ \A n \in Nodes :
       /\ Fits(reads[n], deferred[n]) /\ SlotsTaken(reads[n], deferred[n])
       /\ \A r \in reads[n] : r.after = store[n].cursor[r.peer]

UserPart ==
  /\ adding \in [Nodes -> Adds \cup {NoAdd}]
  /\ gone \in [Nodes -> SUBSET (Paths \X Hashes)]
  /\ asked \in SUBSET (Nodes \X Nodes) /\ edits \in Nat /\ mishaps \in Nat

CInv == StorePart /\ MsgPart /\ ReadPart /\ UserPart

-----------------------------------------------------------------------------
(***************************************************************************)
(* What a step does besides: it settles content as it should, unless it    *)
(* records what a user adds, and moves a cursor over a page only.          *)
(***************************************************************************)
SettlesAll == \A n \in Nodes : adding'[n] = adding[n] => Settles(store[n], store'[n])

OverPages ==
  \A n, m \in Nodes :
    store'[n].cursor[m] > store[n].cursor[m] =>
      \E page \in msgs :
        /\ page.type = "page" /\ page.to = n /\ page.by = m
        /\ page.after = store[n].cursor[m] /\ page.next = store'[n].cursor[m]

LEMMA MessageFields ==
  ASSUME NEW m \in Messages
  PROVE  /\ m.to \in Nodes /\ m.by \in Nodes
         /\ m.type = "changes" => m.after \in Nat
         /\ m.type = "page" => m.after \in Nat /\ m.next \in Nat /\ m.entries \in Seq(Entries)
  BY DEF Messages

LEMMA SettlesRows ==
  ASSUME NEW s, NEW t, NEW u, Settles(s, t), u.rows = t.rows
  PROVE  Settles(s, u)
  BY DEF Settles, OneCopy, KeepsRemoved

(***************************************************************************)
(* The store of one node goes onward: the logs, the cursors into them and  *)
(* the messages on their way stay true.                                    *)
(***************************************************************************)
LEMMA StoreStep ==
  ASSUME StorePart, MsgPart, NEW n \in Nodes, NEW s, Onward(store[n], s),
         \A m \in Nodes : s.cursor[m] <= store[m].seq,
         store' = [store EXCEPT ![n] = s],
         \A m \in msgs' : m \in msgs \/ (m \in Messages /\ MsgTrue(m))
  PROVE  StorePart' /\ MsgPart'
<1>1. /\ store \in [Nodes -> Stores] /\ \A k \in Nodes : Sound(store[k])
      /\ \A k, m \in Nodes : store[k].cursor[m] <= store[m].seq
  BY DEF StorePart
<1>2. store'[n] = s /\ \A k \in Nodes \ {n} : store'[k] = store[k]
  BY <1>1
<1>3. \A k \in Nodes : Onward(store[k], store'[k])
  BY <1>1, <1>2, SameOnward
<1>4. \A k \in Nodes : Sound(store'[k]) /\ store'[k] \in Stores /\ store[k].seq <= store'[k].seq
  BY <1>3 DEF Onward, Sound
<1>5. \A k \in Nodes : store[k].seq \in Nat /\ store'[k].seq \in Nat
  BY <1>1, <1>4, StoreFields
<1>6. \A k, m \in Nodes : store'[k].cursor[m] \in Nat
  BY <1>4, StoreFields
<1>7. store' \in [Nodes -> Stores]
  BY <1>1, <1>2, <1>4
<1>8. \A k, m \in Nodes : store'[k].cursor[m] <= store'[m].seq
  <2> SUFFICES ASSUME NEW k \in Nodes, NEW m \in Nodes PROVE store'[k].cursor[m] <= store'[m].seq
    OBVIOUS
  <2>1. store'[k].cursor[m] <= store[m].seq
    BY <1>1, <1>2
  <2> QED BY <1>4, <1>5, <1>6, <2>1
<1>9. StorePart'
  BY <1>4, <1>7, <1>8 DEF StorePart
<1>10. ASSUME NEW m \in msgs'
       PROVE  m \in Messages /\ MsgTrue(m)'
  <2>1. m \in Messages /\ MsgTrue(m)
    BY <1>10 DEF MsgPart
  <2>2. m.to \in Nodes /\ m.by \in Nodes
    BY <2>1, MessageFields
  <2>3. ASSUME m.type = "changes" PROVE m.after <= store'[m.to].seq
    <3>1. m.after \in Nat /\ m.after <= store[m.to].seq
      BY <2>1, <2>3, MessageFields DEF MsgTrue
    <3> QED BY <1>4, <1>5, <2>2, <3>1
  <2>4. ASSUME m.type = "page"
        PROVE  /\ Distinct(m.entries) /\ m.after <= m.next /\ m.next <= store'[m.by].seq
               /\ Covers(store'[m.by], m.after, m.next, m.entries)
    <3>1. /\ m.after \in Nat /\ m.next \in Nat /\ Distinct(m.entries) /\ m.after <= m.next
          /\ m.next <= store[m.by].seq /\ Covers(store[m.by], m.after, m.next, m.entries)
      BY <2>1, <2>4, MessageFields DEF MsgTrue
    <3> QED BY <1>1, <1>3, <2>2, <3>1, CoversOnward
  <2> QED BY <2>1, <2>3, <2>4 DEF MsgTrue
<1>11. MsgPart'
  BY <1>10 DEF MsgPart
<1> QED BY <1>9, <1>11

(***************************************************************************)
(* A step that touches no read and no cursor.                              *)
(***************************************************************************)
LEMMA ReadsLeft ==
  ASSUME StorePart, MsgPart, ReadPart, NEW n \in Nodes, NEW s, Onward(store[n], s),
         s.cursor = store[n].cursor, store' = [store EXCEPT ![n] = s],
         \A m \in msgs' : m \in msgs \/ (m \in Messages /\ MsgTrue(m)),
         UNCHANGED <<reads, deferred>>,
         adding'[n] = adding[n] => Settles(store[n], s)
  PROVE  StorePart' /\ MsgPart' /\ ReadPart' /\ SettlesAll /\ OverPages
<1>1. /\ store \in [Nodes -> Stores] /\ \A k \in Nodes : Sound(store[k])
      /\ \A k, m \in Nodes : store[k].cursor[m] <= store[m].seq
  BY DEF StorePart
<1>2. store'[n] = s /\ \A k \in Nodes \ {n} : store'[k] = store[k]
  BY <1>1
<1>3. StorePart' /\ MsgPart'
  <2>1. \A m \in Nodes : s.cursor[m] <= store[m].seq
    BY <1>1
  <2> QED BY <2>1, StoreStep
<1>4. \A k \in Nodes : store'[k].cursor = store[k].cursor
  BY <1>2
<1>5. ReadPart'
  BY <1>4 DEF ReadPart
<1>6. SettlesAll
  BY <1>1, <1>2, SameOnward DEF SettlesAll
<1>7. OverPages
  <2>1. \A k, m \in Nodes : store[k].cursor[m] \in Nat
    BY <1>1, StoreFields
  <2> QED BY <1>4, <2>1 DEF OverPages
<1> QED BY <1>3, <1>5, <1>6, <1>7

(***************************************************************************)
(* The end of a handler: what it leaves as reads fits, and follows its     *)
(* cursors.                                                                *)
(***************************************************************************)
LEMMA HandledEffect ==
  ASSUME StorePart, MsgPart, ReadPart, NEW n \in Nodes, NEW s, Onward(store[n], s),
         \A m \in Nodes : s.cursor[m] <= store[m].seq,
         NEW wait, Fitting(wait), \A r \in wait.reads : r.after = s.cursor[r.peer],
         NEW taken, Handled(n, wait, s, taken)
  PROVE  StorePart' /\ MsgPart' /\ ReadPart' /\ store' = [store EXCEPT ![n] = s]
<1> DEFINE w == Drained(wait, s)
<1>1. /\ store' = [store EXCEPT ![n] = s]
      /\ reads' = [reads EXCEPT ![n] = w.reads]
      /\ deferred' = [deferred EXCEPT ![n] = w.deferred]
      /\ msgs' = (msgs \ taken) \cup {Request(n, r) : r \in w.sent}
  BY DEF Handled
<1>2. store \in [Nodes -> Stores] /\ s \in Stores /\ s.cursor \in [Nodes -> Nat]
  BY StoreFields DEF StorePart, Onward, Sound
<1>3. /\ Fitting(w) /\ SlotsTaken(w.reads, w.deferred)
      /\ \A r \in w.reads : r \in wait.reads \/ r.after = s.cursor[r.peer]
  BY <1>2, DrainedEffect
<1> HIDE DEF w
<1>4. /\ w.reads \in SUBSET Reads /\ w.deferred \in Seq(Nodes) /\ Fits(w.reads, w.deferred)
      /\ w.sent \subseteq w.reads
  BY <1>3, WaitFields DEF Fitting
<1>5. \A r \in w.reads : r \in Reads /\ r.after = s.cursor[r.peer]
  BY <1>3, <1>4
<1>6. ASSUME NEW r \in w.sent
      PROVE  Request(n, r) \in Messages /\ MsgTrue(Request(n, r))
  <2>1. r \in Reads /\ r.after = s.cursor[r.peer] /\ r.peer \in Nodes /\ r.after \in Nat
    BY <1>4, <1>5 DEF Reads
  <2>2. Request(n, r) \in Messages
    BY <2>1 DEF Request, Messages
  <2>3. MsgTrue(Request(n, r))
    BY <2>1 DEF Request, MsgTrue
  <2> QED BY <2>2, <2>3
<1>7. StorePart' /\ MsgPart'
  <2>1. \A m \in msgs' : m \in msgs \/ (m \in Messages /\ MsgTrue(m))
    BY <1>1, <1>6
  <2> QED BY <1>1, <2>1, StoreStep
<1>8. ReadPart'
  <2>1. /\ reads \in [Nodes -> SUBSET Reads] /\ deferred \in [Nodes -> Seq(Nodes)]
        /\ \A k \in Nodes : /\ Fits(reads[k], deferred[k]) /\ SlotsTaken(reads[k], deferred[k])
                            /\ \A r \in reads[k] : r.after = store[k].cursor[r.peer]
    BY DEF ReadPart
  <2>2. reads' \in [Nodes -> SUBSET Reads] /\ deferred' \in [Nodes -> Seq(Nodes)]
    BY <1>1, <1>4, <2>1
  <2>3. /\ reads'[n] = w.reads /\ deferred'[n] = w.deferred /\ store'[n] = s
        /\ \A k \in Nodes \ {n} : /\ reads'[k] = reads[k] /\ deferred'[k] = deferred[k]
                                  /\ store'[k] = store[k]
    BY <1>1, <1>2, <2>1
  <2>4. ASSUME NEW k \in Nodes
        PROVE  /\ Fits(reads'[k], deferred'[k]) /\ SlotsTaken(reads'[k], deferred'[k])
               /\ \A r \in reads'[k] : r.after = store'[k].cursor[r.peer]
    <3>1. CASE k = n
      BY <1>3, <1>4, <1>5, <2>3, <3>1
    <3>2. CASE k # n
      BY <2>1, <2>3, <3>2
    <3> QED BY <3>1, <3>2
  <2> QED BY <2>2, <2>4 DEF ReadPart
<1> QED BY <1>1, <1>7, <1>8

LEMMA WaitType ==
  ASSUME NEW rs \in SUBSET Reads, NEW peers \in Seq(Nodes), NEW read
  PROVE  [reads |-> rs \ {read}, deferred |-> peers, sent |-> {}] \in Waits
  BY DEF Waits

LEMMA LessWait ==
  ASSUME NEW n, NEW read, reads[n] \in SUBSET Reads, deferred[n] \in Seq(Nodes),
         NEW wait, wait = [Waiting(n) EXCEPT !.reads = @ \ {read}]
  PROVE  /\ wait.reads = reads[n] \ {read} /\ wait.deferred = deferred[n] /\ wait.sent = {}
         /\ wait \in Waits
<1>1. wait = [reads |-> reads[n] \ {read}, deferred |-> deferred[n], sent |-> {}]
  BY DEF Waiting
<1>2. /\ wait.reads = reads[n] \ {read} /\ wait.deferred = deferred[n] /\ wait.sent = {}
  BY <1>1
<1>3. [reads |-> reads[n] \ {read}, deferred |-> deferred[n], sent |-> {}] \in Waits
  BY WaitType
<1> QED BY <1>1, <1>2, <1>3

LEMMA NowWaits ==
  ASSUME ReadPart, NEW n \in Nodes
  PROVE  /\ Fitting(Waiting(n)) /\ Waiting(n).reads = reads[n] /\ Waiting(n).deferred = deferred[n]
         /\ \A r \in reads[n] : r.after = store[n].cursor[r.peer]
  BY DEF ReadPart, Waiting, Fitting, Waits

(***************************************************************************)
(* A node no longer waits on one of its reads.                             *)
(***************************************************************************)
Without(n, read) == [Waiting(n) EXCEPT !.reads = @ \ {read}]

LEMMA OneReadLess ==
  ASSUME ReadPart, NEW n \in Nodes, NEW read \in reads[n], NEW wait, wait = Without(n, read)
  PROVE  /\ Fitting(wait) /\ wait.reads = reads[n] \ {read}
         /\ \A i \in 1 .. Len(wait.deferred) : wait.deferred[i] # read.peer
         /\ \A r \in wait.reads : r.peer # read.peer
<1>1. /\ reads[n] \in SUBSET Reads /\ deferred[n] \in Seq(Nodes)
      /\ Fits(reads[n], deferred[n])
  BY DEF ReadPart
<1>3. /\ wait.reads = reads[n] \ {read} /\ wait.deferred = deferred[n] /\ wait.sent = {}
      /\ wait \in Waits
  <2>1. wait = [Waiting(n) EXCEPT !.reads = @ \ {read}]
    BY DEF Without
  <2> QED BY <1>1, <2>1, LessWait
<1>4. IsFiniteSet(wait.reads) /\ Cardinality(wait.reads) \in 0 .. MaxReads
  <2>1. /\ IsFiniteSet(reads[n] \ {read}) /\ Cardinality(reads[n] \ {read}) = Cardinality(reads[n]) - 1
        /\ Cardinality(reads[n] \ {read}) \in Nat
    BY <1>1, FS_RemoveElement, FS_CardinalityType DEF Fits
  <2>2. PICK c \in 0 .. MaxReads : c = Cardinality(reads[n])
    BY <1>1 DEF Fits
  <2>3. c - 1 \in Nat => c - 1 \in 0 .. MaxReads
    BY Limits
  <2> QED BY <1>3, <2>1, <2>2, <2>3
<1>5. Fits(wait.reads, wait.deferred)
  BY <1>1, <1>3, <1>4 DEF Fits
<1> QED BY <1>1, <1>3, <1>5 DEF Fits, Fitting

-----------------------------------------------------------------------------
(***************************************************************************)
(* Every action keeps the invariant, settles content as it should and      *)
(* moves cursors over pages only.                                          *)
(***************************************************************************)
Kept == CInv' /\ SettlesAll /\ OverPages

LEMMA InitInv == Init => CInv
<1> SUFFICES ASSUME Init PROVE CInv
  OBVIOUS
<1>1. /\ Empty \in Stores /\ \A p \in Paths : Empty.rows[p] = Absent
      /\ Empty.seq = 0 /\ Empty.digest.at = 0 /\ Empty.digest.view = View(Empty.rows)
      /\ \A n \in Nodes : Empty.cursor[n] = 0
  <2> DEFINE none == [p \in Paths |-> Absent]
             view == View(none)
  <2>1. none \in [Paths -> Row \cup {Absent}]
    OBVIOUS
  <2>2. view \in Views
    BY <2>1, ViewType
  <2>3. Empty = [rows |-> none, seq |-> 0, served |-> 0, cursor |-> [n \in Nodes |-> 0],
                 digest |-> [at |-> 0, view |-> view]]
    BY DEF Empty
  <2> HIDE DEF view
  <2>4. /\ Empty.rows = none /\ Empty.seq = 0 /\ Empty.digest.at = 0 /\ Empty.digest.view = view
        /\ Empty.cursor = [n \in Nodes |-> 0]
    BY <2>3
  <2>5. Empty \in Stores
    <3> HIDE DEF none
    <3> QED BY <2>1, <2>2, <2>3 DEF Stores
  <2>6. \A p \in Paths : Empty.rows[p] = Absent
    BY <2>4
  <2> QED BY <2>4, <2>5, <2>6 DEF view
<1>2. Sound(Empty)
  <2>1. LogOrder(Empty)
    BY <1>1 DEF LogOrder, Absent
  <2> QED BY <1>1, <2>1 DEF Sound, DigestSound
<1>3. store \in [Nodes -> Stores] /\ \A n \in Nodes : store[n] = Empty
  BY <1>1 DEF Init
<1>4. StorePart
  BY <1>1, <1>2, <1>3 DEF StorePart
<1>5. MsgPart
  BY DEF Init, MsgPart
<1>6. ReadPart
  <2>1. reads \in [Nodes -> SUBSET Reads] /\ deferred \in [Nodes -> Seq(Nodes)]
    BY DEF Init
  <2>2. \A n \in Nodes : reads[n] = {} /\ deferred[n] = <<>>
    BY DEF Init
  <2>3. Fits({}, <<>>)
    BY FS_EmptySet, Limits DEF Fits
  <2> QED BY <2>1, <2>2, <2>3 DEF ReadPart, SlotsTaken
<1>7. UserPart
  BY DEF Init, UserPart
<1> QED BY <1>4, <1>5, <1>6, <1>7 DEF CInv

LEMMA StutterKeeps ==
  ASSUME CInv, UNCHANGED vars
  PROVE  Kept
<1>1. CInv'
  BY DEF CInv, StorePart, MsgPart, MsgTrue, ReadPart, UserPart, vars
<1>2. SettlesAll /\ OverPages
  <2>1. store' = store
    BY DEF vars
  <2>2. \A n \in Nodes : Sound(store[n]) /\ \A m \in Nodes : store[n].cursor[m] \in Nat
    BY StoreFields DEF CInv, StorePart
  <2> QED BY <2>1, <2>2, SameOnward DEF SettlesAll, OverPages
<1> QED BY <1>1, <1>2 DEF Kept

LEMMA LeaveStore ==
  ASSUME CInv, NEW n \in Nodes, UNCHANGED <<store, reads, deferred>>, msgs' \subseteq msgs
  PROVE  StorePart' /\ MsgPart' /\ ReadPart' /\ SettlesAll /\ OverPages
<1>1. StorePart /\ MsgPart /\ ReadPart
  BY DEF CInv
<1>2. Onward(store[n], store[n]) /\ Settles(store[n], store[n])
  BY <1>1, SameOnward DEF StorePart
<1>3. store' = [store EXCEPT ![n] = store[n]]
  BY <1>1 DEF StorePart
<1>4. \A m \in msgs' : m \in msgs \/ (m \in Messages /\ MsgTrue(m))
  OBVIOUS
<1>5. PICK s : s = store[n]
  OBVIOUS
<1> QED BY <1>1, <1>2, <1>3, <1>4, <1>5, ReadsLeft

LEMMA AddCheckKeeps ==
  ASSUME CInv, NEW n \in Nodes, NEW p \in Paths, NEW hash \in Hashes, NEW at \in Nat \ {0},
         NEW force \in BOOLEAN, AddCheck(n, p, hash, at, force)
  PROVE  Kept
<1>1. StorePart' /\ MsgPart' /\ ReadPart' /\ SettlesAll /\ OverPages
  BY LeaveStore DEF AddCheck
<1>2. UserPart'
  <2>1. [path |-> p, hash |-> hash, at |-> at, force |-> force] \in Adds
    BY DEF Adds
  <2>2. adding' \in [Nodes -> Adds \cup {NoAdd}]
    BY <2>1 DEF CInv, UserPart, AddCheck
  <2> QED BY <2>2 DEF CInv, UserPart, AddCheck
<1> QED BY <1>1, <1>2 DEF Kept, CInv

LEMMA AddRecordKeeps ==
  ASSUME CInv, NEW n \in Nodes, AddRecord(n)
  PROVE  Kept
<1> DEFINE a == adding[n]
           row == store[n].rows[a.path]
<1>1. a \in Adds /\ a # NoAdd
  BY DEF CInv, UserPart, AddRecord
<1>2. /\ adding' = [adding EXCEPT ![n] = NoAdd]
      /\ UNCHANGED <<reads, deferred, asked, msgs, edits, mishaps>>
  BY DEF AddRecord
<1>3. adding'[n] # adding[n]
  BY <1>1, <1>2 DEF CInv, UserPart
<1>4. a.path \in Paths /\ a.hash \in Hashes /\ a.at \in Nat \ {0}
  BY <1>1 DEF Adds
<1>5. CASE IsLive(row) /\ (row.hash = a.hash \/ ~a.force)
  <2>1. UNCHANGED <<store, gone>>
    BY <1>5 DEF AddRecord
  <2>2. StorePart' /\ MsgPart' /\ ReadPart' /\ SettlesAll /\ OverPages
    BY <1>2, <2>1, LeaveStore
  <2>3. UserPart'
    BY <1>2, <2>1 DEF CInv, UserPart
  <2> QED BY <2>2, <2>3 DEF Kept, CInv
<1>6. CASE ~(IsLive(row) /\ (row.hash = a.hash \/ ~a.force))
  <2>1. /\ store' = [store EXCEPT ![n] = Record(store[n], a.path, a.hash, a.at)]
        /\ gone' = [gone EXCEPT ![n] = @ \ {<<a.path, a.hash>>}]
    BY <1>6 DEF AddRecord
  <2>2. PICK s : s = Record(store[n], a.path, a.hash, a.at)
    OBVIOUS
  <2>3. Onward(store[n], s) /\ s.cursor = store[n].cursor
    BY <1>4, <2>2, RecordEffect DEF CInv, StorePart
  <2>4. StorePart' /\ MsgPart' /\ ReadPart' /\ SettlesAll /\ OverPages
    <3>1. StorePart /\ MsgPart /\ ReadPart /\ store' = [store EXCEPT ![n] = s]
      BY <2>1, <2>2 DEF CInv
    <3>2. \A m \in msgs' : m \in msgs \/ (m \in Messages /\ MsgTrue(m))
      BY <1>2
    <3>3. UNCHANGED <<reads, deferred>>
      BY <1>2
    <3> HIDE DEF a, row
    <3> QED BY <1>3, <2>3, <3>1, <3>2, <3>3, ReadsLeft
  <2>5. UserPart'
    BY <1>2, <2>1 DEF CInv, UserPart
  <2> QED BY <2>4, <2>5 DEF Kept, CInv
<1> QED BY <1>5, <1>6

LEMMA RemoveKeeps ==
  ASSUME CInv, NEW n \in Nodes, NEW p \in Paths, NEW at \in Nat \ {0}, Remove(n, p, at)
  PROVE  Kept
<1>1. PICK s : s = RemoveRow(store[n], p, at)
  OBVIOUS
<1>2. /\ store' = [store EXCEPT ![n] = s] /\ IsLive(store[n].rows[p])
      /\ UNCHANGED <<reads, deferred, adding, asked, msgs, mishaps>>
  BY <1>1 DEF Remove
<1>3. Sound(store[n]) /\ StorePart /\ MsgPart /\ ReadPart
  BY DEF CInv, StorePart
<1>4. Onward(store[n], s) /\ Settles(store[n], s) /\ s.cursor = store[n].cursor
  BY <1>1, <1>2, <1>3, RemoveEffect
<1>5. StorePart' /\ MsgPart' /\ ReadPart' /\ SettlesAll /\ OverPages
  <2>1. \A m \in msgs' : m \in msgs \/ (m \in Messages /\ MsgTrue(m))
    BY <1>2
  <2>2. UNCHANGED <<reads, deferred>>
    BY <1>2
  <2> QED BY <1>2, <1>3, <1>4, <2>1, <2>2, ReadsLeft
<1>6. UserPart'
  <2>1. store[n].rows[p] \in Row
    BY <1>2, <1>3, StoreFields DEF Sound, IsLive
  <2>2. <<p, store[n].rows[p].hash>> \in Paths \X Hashes
    BY <2>1 DEF Row
  <2>3. gone' \in [Nodes -> SUBSET (Paths \X Hashes)]
    BY <2>2 DEF Remove, CInv, UserPart
  <2> QED BY <2>3 DEF Remove, CInv, UserPart
<1> QED BY <1>5, <1>6 DEF Kept, CInv

LEMMA AskKeeps ==
  ASSUME CInv, NEW n \in Nodes, NEW m \in Nodes, Ask(n, m)
  PROVE  Kept
<1>1. PICK s : s = Digested(store[m])
  OBVIOUS
<1> DEFINE heads == [type |-> "heads", to |-> n, by |-> m, digest |-> Digest(store[m])]
<1>2. /\ store' = [store EXCEPT ![m] = s] /\ msgs' = msgs \cup {heads}
      /\ UNCHANGED <<reads, deferred, adding, edits, gone, mishaps>>
  BY <1>1 DEF Ask
<1>3. Sound(store[m]) /\ StorePart /\ MsgPart /\ ReadPart
  BY DEF CInv, StorePart
<1>4. /\ Onward(store[m], s) /\ Settles(store[m], s) /\ s.cursor = store[m].cursor
      /\ Digest(store[m]) \in Views
  BY <1>1, <1>3, DigestedEffect
<1>5. heads \in Messages /\ MsgTrue(heads)
  BY <1>4 DEF Messages, MsgTrue
<1> HIDE DEF heads
<1>6. StorePart' /\ MsgPart' /\ ReadPart' /\ SettlesAll /\ OverPages
  <2>1. \A k \in msgs' : k \in msgs \/ (k \in Messages /\ MsgTrue(k))
    BY <1>2, <1>5
  <2>2. UNCHANGED <<reads, deferred>>
    BY <1>2
  <2> QED BY <1>2, <1>3, <1>4, <2>1, <2>2, ReadsLeft
<1>7. UserPart'
  <2>1. asked' \in SUBSET (Nodes \X Nodes)
    BY DEF Ask, CInv, UserPart
  <2> QED BY <1>2, <2>1 DEF CInv, UserPart
<1> QED BY <1>6, <1>7 DEF Kept, CInv

LEMMA LoseKeeps ==
  ASSUME CInv, NEW m \in msgs, Lose(m)
  PROVE  Kept
<1>1. PICK n \in Nodes : n = m.to
  BY MessageFields DEF CInv, MsgPart
<1>2. StorePart' /\ MsgPart' /\ ReadPart' /\ SettlesAll /\ OverPages
  BY LeaveStore DEF Lose
<1>3. UserPart'
  BY DEF Lose, CInv, UserPart
<1> QED BY <1>2, <1>3 DEF Kept, CInv

(***************************************************************************)
(* A handler that moves no cursor.                                         *)
(***************************************************************************)
LEMMA OneStoreOnward ==
  ASSUME StorePart, NEW n \in Nodes, NEW s, store' = [store EXCEPT ![n] = s],
         s.cursor = store[n].cursor, Settles(store[n], s)
  PROVE  SettlesAll /\ OverPages
<1>1. /\ store \in [Nodes -> Stores] /\ \A k \in Nodes : Sound(store[k])
      /\ \A k, m \in Nodes : store[k].cursor[m] \in Nat
  BY StoreFields DEF StorePart
<1>2. store'[n] = s /\ \A k \in Nodes \ {n} : store'[k] = store[k]
  BY <1>1
<1>3. SettlesAll
  BY <1>1, <1>2, SameOnward DEF SettlesAll
<1>4. \A k \in Nodes : store'[k].cursor = store[k].cursor
  BY <1>2
<1>5. OverPages
  BY <1>1, <1>4 DEF OverPages
<1> QED BY <1>3, <1>5

LEMMA HandledQuietly ==
  ASSUME CInv, NEW n \in Nodes, NEW s, Onward(store[n], s), Settles(store[n], s),
         s.cursor = store[n].cursor,
         NEW wait, Fitting(wait), \A r \in wait.reads : r.after = s.cursor[r.peer],
         NEW taken, Handled(n, wait, s, taken)
  PROVE  StorePart' /\ MsgPart' /\ ReadPart' /\ SettlesAll /\ OverPages
<1>1. StorePart /\ MsgPart /\ ReadPart
  BY DEF CInv
<1>2. \A m \in Nodes : s.cursor[m] <= store[m].seq
  BY <1>1 DEF StorePart
<1>3. StorePart' /\ MsgPart' /\ ReadPart' /\ store' = [store EXCEPT ![n] = s]
  BY <1>1, <1>2, HandledEffect
<1>4. SettlesAll /\ OverPages
  BY <1>1, <1>3, OneStoreOnward
<1> QED BY <1>3, <1>4

LEMMA TimeoutKeeps ==
  ASSUME CInv, NEW n \in Nodes, NEW r \in reads[n], Timeout(n, r)
  PROVE  Kept
<1>1. PICK wait : wait = Without(n, r)
  OBVIOUS
<1>2. ReadPart /\ Sound(store[n])
  BY DEF CInv, StorePart
<1>3. Fitting(wait) /\ wait.reads = reads[n] \ {r}
  BY <1>1, <1>2, OneReadLess
<1>4. PICK s : s = store[n]
  OBVIOUS
<1>5. \A o \in wait.reads : o.after = s.cursor[o.peer]
  BY <1>2, <1>3, <1>4 DEF ReadPart
<1>6. Onward(store[n], s) /\ Settles(store[n], s) /\ s.cursor = store[n].cursor
  BY <1>2, <1>4, SameOnward
<1>7. PICK taken : taken = {}
  OBVIOUS
<1>8. Handled(n, wait, s, taken)
  BY <1>1, <1>4, <1>7 DEF Timeout, Without
<1>9. StorePart' /\ MsgPart' /\ ReadPart' /\ SettlesAll /\ OverPages
  BY <1>3, <1>5, <1>6, <1>8, HandledQuietly
<1>10. UserPart'
  BY DEF Timeout, CInv, UserPart
<1> QED BY <1>9, <1>10 DEF Kept, CInv

LEMMA OnHeadsKeeps ==
  ASSUME CInv, NEW m \in msgs, OnHeads(m)
  PROVE  Kept
<1> DEFINE n == m.to
           s == Digested(store[n])
           read == ReadOf(m.by, s.cursor[m.by], FALSE)
           wait == IF Digest(s) = m.digest THEN Waiting(n) ELSE Read(Waiting(n), read)
<1>1. n \in Nodes /\ m.by \in Nodes
  BY MessageFields DEF CInv, MsgPart
<1>2. Handled(n, wait, s, {m}) /\ UNCHANGED <<adding, asked, edits, gone, mishaps>>
  BY DEF OnHeads
<1>3. StorePart /\ MsgPart /\ ReadPart /\ Sound(store[n])
  BY <1>1 DEF CInv, StorePart
<1>4. Onward(store[n], s) /\ Settles(store[n], s) /\ s.cursor = store[n].cursor
      /\ s.cursor \in [Nodes -> Nat]
  BY <1>3, DigestedEffect, StoreFields DEF Sound
<1>5. /\ Fitting(Waiting(n)) /\ Waiting(n).reads = reads[n] /\ Waiting(n).deferred = deferred[n]
      /\ \A r \in reads[n] : r.after = s.cursor[r.peer]
  BY <1>1, <1>3, <1>4, NowWaits
<1> HIDE DEF s, n
<1>6. read \in Reads /\ read.peer = m.by /\ read.after = s.cursor[m.by]
  BY <1>1, <1>4 DEF Reads, ReadOf
<1>7. Cardinality(Waiting(n).reads) < MaxReads =>
        \A i \in 1 .. Len(Waiting(n).deferred) : Waiting(n).deferred[i] # read.peer
  <2>1. SlotsTaken(reads[n], deferred[n])
    BY <1>1, <1>3 DEF ReadPart
  <2>2. Cardinality(reads[n]) < MaxReads => deferred[n] = <<>>
    BY <2>1, Limits DEF SlotsTaken
  <2> QED BY <1>5, <2>2
<1>8. /\ Fitting(Read(Waiting(n), read))
      /\ Read(Waiting(n), read).reads \subseteq Waiting(n).reads \cup {read}
  <2> HIDE DEF read
  <2> QED BY <1>5, <1>6, <1>7, ReadEffect
<1> HIDE DEF read
<1>9. Fitting(wait) /\ \A r \in wait.reads : r.after = s.cursor[r.peer]
  BY <1>5, <1>6, <1>8
<1> HIDE DEF wait
<1>10. StorePart' /\ MsgPart' /\ ReadPart' /\ SettlesAll /\ OverPages
  BY <1>1, <1>2, <1>4, <1>9, HandledQuietly
<1>11. UserPart'
  BY <1>2 DEF CInv, UserPart
<1> QED BY <1>10, <1>11 DEF Kept, CInv

LEMMA OnRequestKeeps ==
  ASSUME CInv, NEW m \in msgs, OnRequest(m)
  PROVE  Kept
<1> DEFINE n == m.to
           s == store[n]
           next == NextCursor(s, m.after)
           entries == EntriesOf(s, m.after)
           served == Served(s, m.after)
           t == Digested(served)
           more == After(s, next) # <<>>
           page == [type |-> "page", to |-> m.by, by |-> n, after |-> m.after,
                    entries |-> entries, next |-> next, more |-> more, digest |-> Digest(s)]
<1>1. m \in Messages /\ m.type = "changes" /\ MsgTrue(m)
  BY DEF CInv, MsgPart, OnRequest
<1>2. n \in Nodes /\ m.by \in Nodes /\ m.after \in Nat /\ m.after <= s.seq
  BY <1>1, MessageFields DEF MsgTrue
<1>3. /\ store' = [store EXCEPT ![n] = t] /\ msgs' = (msgs \ {m}) \cup {page}
      /\ UNCHANGED <<reads, deferred, adding, asked, edits, gone, mishaps>>
  BY DEF OnRequest, EntriesOf
<1>4. StorePart /\ MsgPart /\ ReadPart /\ Sound(s)
  BY <1>2 DEF CInv, StorePart
<1>5. IsStore(s) /\ LogOrder(s)
  BY <1>4, StoreIsStore DEF Sound
<1> HIDE DEF n, s
<1>6. /\ entries \in Seq(Entries) /\ Distinct(entries) /\ next \in Nat
      /\ m.after <= next /\ next <= s.seq /\ Covers(s, m.after, next, entries)
  BY <1>2, <1>5, PageThere
<1>7. Onward(s, served) /\ Settles(s, served) /\ served.cursor = s.cursor /\ Sound(served)
  <2>1. NextCursor(s, m.after) \in Nat
    BY <1>6
  <2> QED BY <1>2, <1>4, <2>1, ServedEffect DEF Onward
<1> HIDE DEF served
<1>8. Onward(served, t) /\ t.cursor = served.cursor /\ t.rows = served.rows
  BY <1>7, DigestedEffect
<1> HIDE DEF t
<1>9. Onward(s, t) /\ Settles(s, t) /\ t.cursor = s.cursor
  BY <1>4, <1>7, <1>8, OnwardOn, SettlesRows
<1>10. Digest(s) \in Views
  BY <1>4, DigestedEffect
<1>11. more \in BOOLEAN
  OBVIOUS
<1> HIDE DEF next, entries, more
<1>12. page \in Messages
  BY <1>2, <1>6, <1>10, <1>11 DEF Messages
<1>13. /\ page.type = "page" /\ page.by = n /\ page.after = m.after /\ page.next = next
       /\ page.entries = entries
  OBVIOUS
<1> HIDE DEF page
<1>14. MsgTrue(page)
  <2>1. page.type # "changes"
    BY <1>13
  <2> QED BY <1>6, <1>13, <2>1 DEF MsgTrue, s
<1>15. \A k \in msgs' : k \in msgs \/ (k \in Messages /\ MsgTrue(k))
  BY <1>3, <1>12, <1>14
<1>16. StorePart' /\ MsgPart' /\ ReadPart' /\ SettlesAll /\ OverPages
  <2>1. UNCHANGED <<reads, deferred>>
    BY <1>3
  <2> QED BY <1>2, <1>3, <1>4, <1>9, <1>15, <2>1, ReadsLeft DEF s
<1>17. UserPart'
  BY <1>3 DEF CInv, UserPart
<1> QED BY <1>16, <1>17 DEF Kept, CInv

(***************************************************************************)
(* The page that a read waits on moves the cursor from where the read      *)
(* stood to where the page ends.                                           *)
(***************************************************************************)
Awaited(n, m) == \E r \in reads[n] : r.peer = m.by /\ r.after = m.after

LEMMA AwaitedRead ==
  ASSUME CInv, NEW m \in msgs, m.type = "page", NEW n, n = m.to, Awaited(n, m),
         NEW read, read = CHOOSE r \in reads[n] : r.peer = m.by
  PROVE  /\ read \in reads[n] /\ read \in Reads /\ read.peer = m.by
         /\ m.after = store[n].cursor[m.by]
<1>1. n \in Nodes
  BY MessageFields DEF CInv, MsgPart
<1>2. PICK r \in reads[n] : r.peer = m.by /\ r.after = m.after
  BY DEF Awaited
<1>3. read \in reads[n] /\ read.peer = m.by
  BY <1>2
<1>4. /\ reads[n] \in SUBSET Reads
      /\ \A o \in reads[n] : o.after = store[n].cursor[o.peer]
  BY <1>1 DEF CInv, ReadPart
<1> QED BY <1>2, <1>3, <1>4

(***************************************************************************)
(* What n stores once the page is merged, without and with the reset.      *)
(***************************************************************************)
Advanced(n, m) == [Merged(store[n], m.entries) EXCEPT !.cursor[m.by] = m.next]
Reset(n, m) == [Digested(Advanced(n, m)) EXCEPT !.cursor[m.by] = 0]

LEMMA AdvancedEffect ==
  ASSUME CInv, NEW m \in msgs, m.type = "page", NEW n, n = m.to
  PROVE  /\ Onward(store[n], Advanced(n, m)) /\ Settles(store[n], Advanced(n, m))
         /\ Advanced(n, m).cursor[m.by] = m.next
         /\ \A k \in Nodes \ {m.by} : Advanced(n, m).cursor[k] = store[n].cursor[k]
         /\ \A k \in Nodes : Advanced(n, m).cursor[k] <= store[k].seq
<1> DEFINE merged == Merged(store[n], m.entries)
           s == Advanced(n, m)
<1>1. m \in Messages /\ MsgTrue(m) /\ n \in Nodes /\ m.by \in Nodes
  BY MessageFields DEF CInv, MsgPart
<1>2. m.entries \in Seq(Entries) /\ m.next \in Nat /\ Distinct(m.entries) /\ m.next <= store[m.by].seq
  BY <1>1, MessageFields DEF MsgTrue
<1>3. Sound(store[n]) /\ \A k \in Nodes : store[n].cursor[k] <= store[k].seq
  BY <1>1 DEF CInv, StorePart
<1>4. Onward(store[n], merged) /\ Settles(store[n], merged) /\ merged.cursor = store[n].cursor
  BY <1>2, <1>3, MergedOnward
<1>5. Sound(merged) /\ s = [merged EXCEPT !.cursor[m.by] = m.next]
  BY <1>4 DEF Onward, Advanced
<1> HIDE DEF merged, s
<1>6. /\ Onward(merged, s) /\ s.rows = merged.rows /\ s.cursor[m.by] = m.next
      /\ \A k \in Nodes \ {m.by} : s.cursor[k] = merged.cursor[k]
  <2>1. PICK x \in Nat : x = m.next
    BY <1>2
  <2>2. s = [merged EXCEPT !.cursor[m.by] = x]
    BY <1>5, <2>1
  <2> QED BY <1>1, <1>5, <2>1, <2>2, CursorEffect
<1>7. Onward(store[n], s) /\ Settles(store[n], s)
  BY <1>3, <1>4, <1>6, OnwardOn, SettlesRows
<1>8. \A k \in Nodes : s.cursor[k] <= store[k].seq
  BY <1>2, <1>3, <1>4, <1>6
<1> QED BY <1>4, <1>6, <1>7, <1>8 DEF s

LEMMA ResetEffect ==
  ASSUME CInv, NEW m \in msgs, m.type = "page", NEW n, n = m.to
  PROVE  /\ Onward(store[n], Reset(n, m)) /\ Settles(store[n], Reset(n, m))
         /\ Reset(n, m).cursor[m.by] = 0
         /\ \A k \in Nodes \ {m.by} : Reset(n, m).cursor[k] = store[n].cursor[k]
         /\ \A k \in Nodes : Reset(n, m).cursor[k] <= store[k].seq
         /\ Onward(store[n], Digested(Advanced(n, m))) /\ Settles(store[n], Digested(Advanced(n, m)))
         /\ Digested(Advanced(n, m)).cursor = Advanced(n, m).cursor
<1> DEFINE s == Advanced(n, m)
           d == Digested(s)
           t == Reset(n, m)
<1>1. m.by \in Nodes /\ n \in Nodes
  BY MessageFields DEF CInv, MsgPart
<1>2. Sound(store[n]) /\ \A k \in Nodes : store[k].seq \in Nat
  BY <1>1, StoreFields DEF CInv, StorePart
<1>3. /\ Onward(store[n], s) /\ Settles(store[n], s)
      /\ \A k \in Nodes \ {m.by} : s.cursor[k] = store[n].cursor[k]
      /\ \A k \in Nodes : s.cursor[k] <= store[k].seq
  BY AdvancedEffect
<1> HIDE DEF s
<1>4. Onward(s, d) /\ d.rows = s.rows /\ d.cursor = s.cursor
  BY <1>3, DigestedEffect DEF Onward
<1>5. t = [d EXCEPT !.cursor[m.by] = 0]
  BY DEF Reset, s
<1> HIDE DEF d, t
<1>6. PICK zero \in Nat : zero = 0
  OBVIOUS
<1>7. t = [d EXCEPT !.cursor[m.by] = zero]
  BY <1>5, <1>6
<1>8. /\ Onward(d, t) /\ t.rows = d.rows /\ t.cursor[m.by] = 0
      /\ \A k \in Nodes \ {m.by} : t.cursor[k] = d.cursor[k]
  <2>1. Sound(d)
    BY <1>4 DEF Onward
  <2> QED BY <1>1, <1>6, <1>7, <2>1, CursorEffect
<1>9. Onward(store[n], d) /\ Settles(store[n], d)
  BY <1>2, <1>3, <1>4, OnwardOn, SettlesRows
<1>10. Onward(store[n], t) /\ Settles(store[n], t)
  BY <1>2, <1>8, <1>9, OnwardOn, SettlesRows
<1>11. \A k \in Nodes : t.cursor[k] <= store[k].seq
  BY <1>2, <1>3, <1>4, <1>8
<1> QED BY <1>3, <1>4, <1>8, <1>9, <1>10, <1>11 DEF d, s, t

(***************************************************************************)
(* The end of on_changes, whatever read it leaves.                         *)
(***************************************************************************)
LEMMA PageHandled ==
  ASSUME CInv, NEW m \in msgs, m.type = "page", NEW n, n = m.to,
         m.after = store[n].cursor[m.by],
         NEW s, Onward(store[n], s), Settles(store[n], s), s.cursor[m.by] \in {m.next, 0},
         \A k \in Nodes \ {m.by} : s.cursor[k] = store[n].cursor[k],
         \A k \in Nodes : s.cursor[k] <= store[k].seq,
         NEW wait, Fitting(wait), \A r \in wait.reads : r.after = s.cursor[r.peer],
         NEW taken, Handled(n, wait, s, taken), UNCHANGED <<adding, asked, edits, gone, mishaps>>
  PROVE  Kept
<1>1. n \in Nodes /\ m.by \in Nodes
  BY MessageFields DEF CInv, MsgPart
<1>2. StorePart /\ MsgPart /\ ReadPart
  BY DEF CInv
<1>3. StorePart' /\ MsgPart' /\ ReadPart' /\ store' = [store EXCEPT ![n] = s]
  BY <1>1, <1>2, HandledEffect
<1>4. /\ store \in [Nodes -> Stores] /\ \A k \in Nodes : Sound(store[k])
      /\ \A k, j \in Nodes : store[k].cursor[j] \in Nat
  BY <1>2, StoreFields DEF StorePart
<1>5. store'[n] = s /\ \A k \in Nodes \ {n} : store'[k] = store[k]
  BY <1>1, <1>3, <1>4
<1>6. SettlesAll
  BY <1>4, <1>5, SameOnward DEF SettlesAll
<1>7. OverPages
  <2> SUFFICES ASSUME NEW k \in Nodes, NEW j \in Nodes, store'[k].cursor[j] > store[k].cursor[j]
               PROVE  \E page \in msgs :
                        /\ page.type = "page" /\ page.to = k /\ page.by = j
                        /\ page.after = store[k].cursor[j] /\ page.next = store'[k].cursor[j]
    BY DEF OverPages
  <2>1. k = n
    BY <1>4, <1>5
  <2>2. j = m.by
    BY <1>4, <1>5, <2>1
  <2>3. s.cursor[m.by] = m.next
    BY <1>4, <1>5, <2>1, <2>2
  <2> QED BY <1>5, <2>1, <2>2, <2>3
<1>8. UserPart'
  BY DEF CInv, UserPart
<1> QED BY <1>3, <1>6, <1>7, <1>8 DEF Kept, CInv

LEMMA OnPageKeeps ==
  ASSUME CInv, NEW m \in msgs, OnPage(m)
  PROVE  Kept
<1> DEFINE n == m.to
           read == CHOOSE r \in reads[n] : r.peer = m.by
           wait == Without(n, read)
           s == Advanced(n, m)
           reset == Reset(n, m)
           onwards == ReadOf(m.by, m.next, read.retried)
           again == ReadOf(m.by, 0, TRUE)
<1>1. m.type = "page" /\ UNCHANGED <<adding, asked, edits, gone, mishaps>>
  BY DEF OnPage
<1>2. n \in Nodes /\ m.by \in Nodes /\ m.next \in Nat
  BY <1>1, MessageFields DEF CInv, MsgPart
<1>3. CASE ~Awaited(n, m)
  <2>1. Handled(n, Waiting(n), store[n], {m})
    BY <1>3 DEF OnPage, Awaited
  <2>2. Onward(store[n], store[n]) /\ Settles(store[n], store[n])
    BY <1>2, SameOnward DEF CInv, StorePart
  <2>3. /\ Fitting(Waiting(n)) /\ Waiting(n).reads = reads[n]
        /\ \A r \in reads[n] : r.after = store[n].cursor[r.peer]
    BY <1>2, NowWaits DEF CInv
  <2>4. PICK t, w, taken : t = store[n] /\ w = Waiting(n) /\ taken = {m}
    OBVIOUS
  <2>5. StorePart' /\ MsgPart' /\ ReadPart' /\ SettlesAll /\ OverPages
    <3>1. /\ Onward(store[n], t) /\ Settles(store[n], t) /\ t.cursor = store[n].cursor
          /\ Fitting(w) /\ Handled(n, w, t, taken)
      BY <2>1, <2>2, <2>3, <2>4
    <3>2. \A r \in w.reads : r.after = t.cursor[r.peer]
      BY <2>3, <2>4
    <3> QED BY <1>2, <3>1, <3>2, HandledQuietly
  <2>6. UserPart'
    BY <1>1 DEF CInv, UserPart
  <2> QED BY <2>5, <2>6 DEF Kept, CInv
<1>4. CASE Awaited(n, m)
  <2>1. /\ read \in reads[n] /\ read \in Reads /\ read.peer = m.by
        /\ m.after = store[n].cursor[m.by]
    BY <1>1, <1>4, AwaitedRead
  <2>2. /\ Fitting(wait) /\ wait.reads = reads[n] \ {read}
        /\ \A i \in 1 .. Len(wait.deferred) : wait.deferred[i] # m.by
        /\ \A r \in wait.reads : r.peer # m.by
    BY <1>2, <2>1, OneReadLess DEF CInv
  <2>3. \A r \in wait.reads : r.peer \in Nodes \ {m.by} /\ r.after = store[n].cursor[r.peer]
    <3>1. reads[n] \in SUBSET Reads /\ \A r \in reads[n] : r.after = store[n].cursor[r.peer]
      BY <1>2 DEF CInv, ReadPart
    <3> QED BY <2>2, <3>1 DEF Reads
  <2>4. \/ m.more /\ Handled(n, Read(wait, onwards), s, {m})
        \/ ~m.more /\ Handled(n, Read(wait, again), reset, {m})
        \/ ~m.more /\ Handled(n, wait, Digested(s), {m})
    BY <1>4 DEF OnPage, Awaited, Without, Advanced, Reset
  <2>5. PICK taken : taken = {m}
    OBVIOUS
  <2>6. /\ Onward(store[n], s) /\ Settles(store[n], s) /\ s.cursor[m.by] = m.next
        /\ \A k \in Nodes \ {m.by} : s.cursor[k] = store[n].cursor[k]
        /\ \A k \in Nodes : s.cursor[k] <= store[k].seq
    BY <1>1, AdvancedEffect
  <2>7. /\ Onward(store[n], reset) /\ Settles(store[n], reset) /\ reset.cursor[m.by] = 0
        /\ \A k \in Nodes \ {m.by} : reset.cursor[k] = store[n].cursor[k]
        /\ \A k \in Nodes : reset.cursor[k] <= store[k].seq
        /\ Onward(store[n], Digested(s)) /\ Settles(store[n], Digested(s))
        /\ Digested(s).cursor = s.cursor
    BY <1>1, ResetEffect
  <2>8. /\ onwards \in Reads /\ onwards.peer = m.by /\ onwards.after = m.next
        /\ again \in Reads /\ again.peer = m.by /\ again.after = 0
    <3>1. read.retried \in BOOLEAN
      BY <2>1 DEF Reads
    <3> QED BY <1>2, <3>1 DEF ReadOf, Reads
  <2> HIDE DEF read, wait, s, reset, onwards, again, n
  <2>9. \A r \in {onwards, again} :
          Fitting(Read(wait, r)) /\ Read(wait, r).reads \subseteq wait.reads \cup {r}
    <3> SUFFICES ASSUME NEW r \in Reads, r.peer = m.by
                 PROVE  Fitting(Read(wait, r)) /\ Read(wait, r).reads \subseteq wait.reads \cup {r}
      BY <2>8
    <3> QED BY <2>2, ReadEffect
  <2>10. CASE Handled(n, Read(wait, onwards), s, {m})
    <3>1. PICK w : w = Read(wait, onwards)
      OBVIOUS
    <3>2. Fitting(w) /\ \A r \in w.reads : r.after = s.cursor[r.peer]
      BY <2>3, <2>6, <2>8, <2>9, <3>1
    <3>3. Handled(n, w, s, taken) /\ s.cursor[m.by] \in {m.next, 0}
      BY <2>5, <2>6, <2>10, <3>1
    <3> QED BY <1>1, <2>1, <2>6, <3>2, <3>3, PageHandled DEF n
  <2>11. CASE Handled(n, Read(wait, again), reset, {m})
    <3>1. PICK w : w = Read(wait, again)
      OBVIOUS
    <3>2. Fitting(w) /\ \A r \in w.reads : r.after = reset.cursor[r.peer]
      BY <2>3, <2>7, <2>8, <2>9, <3>1
    <3>3. Handled(n, w, reset, taken) /\ reset.cursor[m.by] \in {m.next, 0}
      BY <2>5, <2>7, <2>11, <3>1
    <3> QED BY <1>1, <2>1, <2>7, <3>2, <3>3, PageHandled DEF n
  <2>12. CASE Handled(n, wait, Digested(s), {m})
    <3>1. PICK t : t = Digested(s)
      OBVIOUS
    <3>2. /\ Onward(store[n], t) /\ Settles(store[n], t) /\ t.cursor[m.by] \in {m.next, 0}
          /\ \A k \in Nodes \ {m.by} : t.cursor[k] = store[n].cursor[k]
          /\ \A k \in Nodes : t.cursor[k] <= store[k].seq
      BY <2>6, <2>7, <3>1
    <3>3. Fitting(wait) /\ \A r \in wait.reads : r.after = t.cursor[r.peer]
      BY <2>2, <2>3, <3>2
    <3>4. Handled(n, wait, t, taken)
      BY <2>5, <2>12, <3>1
    <3> QED BY <1>1, <2>1, <3>2, <3>3, <3>4, PageHandled DEF n
  <2> QED BY <2>4, <2>10, <2>11, <2>12
<1> QED BY <1>3, <1>4

(***************************************************************************)
(* A daemon killed in the middle of a page has merged the first k rows.    *)
(***************************************************************************)
LEMMA FirstEntries ==
  ASSUME NEW entries \in Seq(Entries), Distinct(entries), NEW k \in 0 .. Len(entries)
  PROVE  SubSeq(entries, 1, k) \in Seq(Entries) /\ Distinct(SubSeq(entries, 1, k))
<1>1. /\ SubSeq(entries, 1, k) \in Seq(Entries) /\ Len(SubSeq(entries, 1, k)) = k
      /\ \A i \in 1 .. k : i \in 1 .. Len(entries) /\ SubSeq(entries, 1, k)[i] = entries[i]
  OBVIOUS
<1> QED BY <1>1 DEF Distinct

LEMMA KilledKeeps ==
  ASSUME CInv, NEW m \in msgs, m.type = "page", NEW k \in 0 .. Len(m.entries), Killed(m, k)
  PROVE  Kept
<1> DEFINE n == m.to
           first == SubSeq(m.entries, 1, k)
           s == Merged(store[n], first)
<1>1. m \in Messages /\ MsgTrue(m) /\ n \in Nodes
  BY MessageFields DEF CInv, MsgPart
<1>2. first \in Seq(Entries) /\ Distinct(first)
  BY <1>1, MessageFields, FirstEntries DEF MsgTrue
<1>3. /\ store' = [store EXCEPT ![n] = s]
      /\ reads' = [reads EXCEPT ![n] = {}] /\ deferred' = [deferred EXCEPT ![n] = <<>>]
      /\ msgs' = msgs \ {m} /\ UNCHANGED <<adding, asked, edits, gone>>
      /\ mishaps' = mishaps + 1
  BY DEF Killed
<1>4. StorePart /\ MsgPart /\ ReadPart /\ Sound(store[n])
  BY <1>1 DEF CInv, StorePart
<1> HIDE DEF first
<1>5. Onward(store[n], s) /\ Settles(store[n], s) /\ s.cursor = store[n].cursor
  BY <1>2, <1>4, MergedOnward
<1> HIDE DEF s, n
<1>6. StorePart' /\ MsgPart'
  <2>1. \A j \in Nodes : s.cursor[j] <= store[j].seq
    BY <1>1, <1>4, <1>5 DEF StorePart
  <2>2. \A j \in msgs' : j \in msgs \/ (j \in Messages /\ MsgTrue(j))
    BY <1>3
  <2> QED BY <1>1, <1>3, <1>4, <1>5, <2>1, <2>2, StoreStep
<1>7. SettlesAll /\ OverPages
  BY <1>1, <1>3, <1>4, <1>5, OneStoreOnward
<1>8. ReadPart'
  <2>1. Fits({}, <<>>) /\ SlotsTaken({}, <<>>)
    BY FS_EmptySet, Limits DEF Fits, SlotsTaken
  <2>2. \A j \in Nodes : store'[j].cursor = store[j].cursor
    BY <1>1, <1>3, <1>4, <1>5 DEF StorePart
  <2>3. /\ reads \in [Nodes -> SUBSET Reads] /\ deferred \in [Nodes -> Seq(Nodes)]
        /\ \A j \in Nodes : /\ Fits(reads[j], deferred[j]) /\ SlotsTaken(reads[j], deferred[j])
                            /\ \A r \in reads[j] : r.after = store[j].cursor[r.peer]
    BY <1>4 DEF ReadPart
  <2>4. PICK none \in SUBSET Reads, nobody \in Seq(Nodes) : none = {} /\ nobody = <<>>
    <3>1. {} \in SUBSET Reads /\ <<>> \in Seq(Nodes)
      OBVIOUS
    <3> QED BY <3>1
  <2>5. reads' = [reads EXCEPT ![n] = none] /\ deferred' = [deferred EXCEPT ![n] = nobody]
    BY <1>3, <2>4
  <2>6. reads' \in [Nodes -> SUBSET Reads] /\ deferred' \in [Nodes -> Seq(Nodes)]
    BY <2>3, <2>5
  <2>7. /\ reads'[n] = {} /\ deferred'[n] = <<>>
        /\ \A j \in Nodes \ {n} : reads'[j] = reads[j] /\ deferred'[j] = deferred[j]
    BY <1>1, <2>3, <2>4, <2>5
  <2>8. ASSUME NEW j \in Nodes
        PROVE  /\ Fits(reads'[j], deferred'[j]) /\ SlotsTaken(reads'[j], deferred'[j])
               /\ \A r \in reads'[j] : r.after = store'[j].cursor[r.peer]
    <3>1. CASE j = n
      BY <2>1, <2>7, <3>1
    <3>2. CASE j # n
      <4>1. reads'[j] = reads[j] /\ deferred'[j] = deferred[j] /\ store'[j].cursor = store[j].cursor
        BY <2>2, <2>7, <3>2
      <4> QED BY <2>3, <4>1
    <3> QED BY <3>1, <3>2
  <2> QED BY <2>6, <2>8 DEF ReadPart
<1>9. UserPart'
  BY <1>3 DEF CInv, UserPart
<1> QED BY <1>6, <1>7, <1>8, <1>9 DEF Kept, CInv

LEMMA StepKeeps ==
  ASSUME CInv, [Next]_vars
  PROVE  Kept
<1>1. CASE UNCHANGED vars
  BY <1>1, StutterKeeps
<1>2. ASSUME NEW n \in Users, NEW name \in Names, NEW hash \in Hashes, NEW at \in Clock[n],
             NEW force \in Forces, AddCheck(n, <<name>>, hash, at, force)
      PROVE  Kept
  <2>1. n \in Nodes /\ <<name>> \in Paths /\ at \in Nat \ {0} /\ force \in BOOLEAN
    BY BoundAssumption DEF BoundAssumption, Paths
  <2> QED BY <1>2, <2>1, AddCheckKeeps
<1>3. ASSUME NEW n \in Users, AddRecord(n) PROVE Kept
  BY <1>3, BoundAssumption, AddRecordKeeps DEF BoundAssumption
<1>4. ASSUME NEW n \in Users, NEW p \in Paths, NEW at \in Clock[n], Remove(n, p, at) PROVE Kept
  <2>1. n \in Nodes /\ at \in Nat \ {0}
    BY BoundAssumption DEF BoundAssumption
  <2> QED BY <1>4, <2>1, RemoveKeeps
<1>5. ASSUME NEW n \in Nodes, NEW m \in Nodes, Ask(n, m) PROVE Kept
  BY <1>5, AskKeeps
<1>6. ASSUME NEW m \in msgs, Deliver(m) \/ Lose(m) PROVE Kept
  BY <1>6, OnHeadsKeeps, OnRequestKeeps, OnPageKeeps, LoseKeeps DEF Deliver
<1>7. ASSUME NEW m \in msgs, m.type = "page", NEW k \in 0 .. Len(m.entries), Killed(m, k) PROVE Kept
  BY <1>7, KilledKeeps
<1>8. ASSUME NEW n \in Nodes, NEW r \in reads[n], Timeout(n, r) PROVE Kept
  BY <1>8, TimeoutKeeps
<1>9. CASE Next
  BY <1>2, <1>3, <1>4, <1>5, <1>6, <1>7, <1>8, <1>9 DEF Next, UserStep
<1> QED BY <1>1, <1>9

LEMMA InvHolds == Spec => []CInv
<1>1. CInv /\ [Next]_vars => CInv'
  BY StepKeeps DEF Kept
<1> QED BY <1>1, InitInv, PTL DEF Spec

-----------------------------------------------------------------------------
(***************************************************************************)
(* Types, and the limits on the reads of a node: never more than the slots *)
(* under way, never more waiting than may, and never two of one peer       *)
(* (start_read, and the reads deferred that a handler starts).             *)
(***************************************************************************)
THEOREM TypeCorrect == Spec => []TypeOK
<1>1. CInv => TypeOK
  <2> SUFFICES ASSUME CInv PROVE TypeOK
    OBVIOUS
  <2>1. /\ store \in [Nodes -> Stores] /\ msgs \in SUBSET Messages
        /\ reads \in [Nodes -> SUBSET [peer : Nodes, after : Nat, retried : BOOLEAN]]
        /\ deferred \in [Nodes -> Seq(Nodes)] /\ asked \in SUBSET (Nodes \X Nodes)
        /\ gone \in [Nodes -> SUBSET (Paths \X Hashes)] /\ edits \in Nat /\ mishaps \in Nat
    BY DEF CInv, StorePart, MsgPart, ReadPart, UserPart, Reads
  <2>2. ASSUME NEW n \in Nodes
        PROVE  /\ Cardinality(reads[n]) <= MaxReads /\ Len(deferred[n]) <= MaxDeferred
               /\ \A r, o \in reads[n] : r.peer = o.peer => r = o
               /\ \A r \in reads[n] : r.peer \notin SX!ToSet(deferred[n])
    <3>1. Fits(reads[n], deferred[n]) /\ deferred[n] \in Seq(Nodes)
      BY DEF CInv, ReadPart
    <3>2. Cardinality(reads[n]) <= MaxReads
      BY <3>1, Limits DEF Fits
    <3>3. DOMAIN deferred[n] = 1 .. Len(deferred[n])
      BY <3>1
    <3> QED BY <3>1, <3>2, <3>3 DEF Fits, SX!ToSet
  <2> QED BY <2>1, <2>2 DEF TypeOK
<1> QED BY <1>1, InvHolds, PTL

(***************************************************************************)
(* A digest that is told is that of the rows of the moment: the cached one *)
(* is used only while the log stands where it was made (digest).           *)
(***************************************************************************)
THEOREM DigestTrueCorrect == Spec => []DigestTrue
<1>1. CInv => DigestTrue
  BY DEF CInv, StorePart, Sound, DigestSound, DigestTrue
<1> QED BY <1>1, InvHolds, PTL

(***************************************************************************)
(* Log positions are unique, none is past the counter, and neither is any  *)
(* peer's cursor: what is written later is never behind a reader.          *)
(***************************************************************************)
THEOREM LogOrderedCorrect == Spec => []LogOrdered
<1>1. CInv => LogOrdered
  BY DEF CInv, StorePart, Sound, LogOrder, LogOrdered
<1> QED BY <1>1, InvHolds, PTL

(***************************************************************************)
(* A cursor moves only over rows that were merged, as they are now,        *)
(* whatever their sender did since it sent the page (on_changes).          *)
(***************************************************************************)
THEOREM CursorSkipsNothingCorrect == Spec => CursorSkipsNothing
<1> DEFINE A == \A n, m \in Nodes :
       store'[n].cursor[m] > store[n].cursor[m] =>
         \E page \in msgs :
           /\ page.type = "page" /\ page.to = n /\ page.by = m
           /\ \A p \in Paths :
                store[m].rows[p].seen \in store[n].cursor[m] + 1 .. store'[n].cursor[m]
                => EntryOf(p, store[m].rows[p]) \in SX!ToSet(page.entries)
<1>1. CInv /\ [Next]_vars => CInv'
  BY StepKeeps DEF Kept
<1>2. ASSUME CInv, [Next]_vars PROVE A
  <2>1. OverPages
    BY <1>2, StepKeeps DEF Kept
  <2> SUFFICES ASSUME NEW n \in Nodes, NEW m \in Nodes,
                      store'[n].cursor[m] > store[n].cursor[m]
               PROVE  \E page \in msgs :
                        /\ page.type = "page" /\ page.to = n /\ page.by = m
                        /\ \A p \in Paths :
                             store[m].rows[p].seen \in store[n].cursor[m] + 1 .. store'[n].cursor[m]
                             => EntryOf(p, store[m].rows[p]) \in SX!ToSet(page.entries)
    OBVIOUS
  <2>2. PICK page \in msgs :
          /\ page.type = "page" /\ page.to = n /\ page.by = m
          /\ page.after = store[n].cursor[m] /\ page.next = store'[n].cursor[m]
    BY <2>1 DEF OverPages
  <2>3. Covers(store[m], store[n].cursor[m], store'[n].cursor[m], page.entries)
        /\ page.entries \in Seq(Entries)
    BY <1>2, <2>2, MessageFields DEF CInv, MsgPart, MsgTrue
  <2>4. DOMAIN page.entries = 1 .. Len(page.entries)
    BY <2>3
  <2> QED BY <2>2, <2>3, <2>4 DEF Covers, SX!ToSet
<1>3. CInv /\ [Next]_vars => [A]_vars
  BY <1>2
<1> QED BY <1>1, <1>3, InitInv, PTL DEF Spec, CursorSkipsNothing

(***************************************************************************)
(* Whatever arrives, merging leaves one copy of any content where there    *)
(* was one, page by page (Files::merge, on_changes).                       *)
(***************************************************************************)
THEOREM MergesKeepOneCopyCorrect == Spec => MergesKeepOneCopy
<1> DEFINE A == \A n \in Nodes :
       OneCopy(store[n]) /\ adding'[n] = adding[n] => OneCopy(store'[n])
<1>1. CInv /\ [Next]_vars => CInv'
  BY StepKeeps DEF Kept
<1>2. CInv /\ [Next]_vars => [A]_vars
  BY StepKeeps DEF Kept, SettlesAll, Settles
<1> QED BY <1>1, <1>2, InitInv, PTL DEF Spec, MergesKeepOneCopy

(***************************************************************************)
(* Content removed from a plain name does not come back to it, whatever    *)
(* peers still send of it, unless a user adds it (Files::merge).           *)
(***************************************************************************)
THEOREM TombstonesHoldCorrect == Spec => TombstonesHold
<1> DEFINE A == \A n \in Nodes : \A p \in {<<name>> : name \in Names} :
       IsRemoved(store[n].rows[p]) /\ adding'[n] = adding[n] =>
         ~(IsLive(store'[n].rows[p]) /\ store'[n].rows[p].hash = store[n].rows[p].hash)
<1>1. CInv /\ [Next]_vars => CInv'
  BY StepKeeps DEF Kept
<1>2. ASSUME CInv, [Next]_vars PROVE A
  <2>1. SettlesAll
    BY <1>2, StepKeeps DEF Kept
  <2>2. \A p \in {<<name>> : name \in Names} : p \in Paths /\ Len(p) = 1
    BY DEF Paths
  <2> QED BY <2>1, <2>2 DEF SettlesAll, Settles, KeepsRemoved
<1>3. CInv /\ [Next]_vars => [A]_vars
  BY <1>2
<1> QED BY <1>1, <1>3, InitInv, PTL DEF Spec, TombstonesHold

=============================================================================
