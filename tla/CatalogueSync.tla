--------------------------- MODULE CatalogueSync ----------------------------
(***************************************************************************)
(* The exchange that brings the catalogues of a group's members together   *)
(* (crates/ac-files/src/sync.rs over store/mod.rs and store/log.rs): a     *)
(* node asks a peer for the digest of its catalogue, reads the peer's log  *)
(* from its cursor if the digests differ, page by page, merges each row,   *)
(* and reads the whole log once more if they still differ.                 *)
(*                                                                         *)
(* A handler of the daemon is one step.  A command that adds a file checks *)
(* and records in two, with the daemon running in between.  Every node is  *)
(* a member that shares the group with every other: whom a catalogue is    *)
(* shared with is GroupSync's subject.                                     *)
(*                                                                         *)
(* A longer-named definition just before the one it resembles (ReadAgain   *)
(* before Read) is a mutated form that nothing else uses.                  *)
(***************************************************************************)
EXTENDS CatalogueRows, FiniteSets

SX == INSTANCE SequencesExt

CONSTANTS
  Nodes,       \* the members that run this program
  Links,       \* who opens rounds with whom: pairs of a node and its peer
  Users,       \* the nodes whose users add and remove files
  Forces,      \* the values of --force users give
  PageSize,    \* rows in a page (MAX_ENTRIES_PER_RESPONSE)
  MaxReads,    \* reads of a node outstanding at once (MAX_INFLIGHT)
  MaxDeferred, \* reads of a node waiting for one to end
  Clock,       \* bound: what the clock of each node shows; they need not agree
  MaxEdits,    \* bound: files added and removed
  MaxMsgs,     \* bound: messages in flight
  MaxSeq,      \* bound: log positions of a node that opens a round
  MaxMishaps   \* bound: messages lost or overtaken by a timeout, daemons restarted

ASSUME SizeAssumption == {PageSize, MaxReads} \subseteq Nat \ {0} /\ MaxDeferred \in Nat
ASSUME BoundAssumption ==
  /\ {MaxEdits, MaxMsgs, MaxSeq, MaxMishaps} \subseteq Nat
  /\ Users \subseteq Nodes /\ Links \subseteq Nodes \X Nodes /\ Forces \subseteq BOOLEAN
  /\ Clock \in [Nodes -> SUBSET (Nat \ {0})]

VARIABLES
  store,     \* per node: its rows, log counters, cursors and cached digest
  reads,     \* per node: the reads it waits on
  deferred,  \* per node: the peers whose read waits for a slot, oldest first
  adding,    \* per node: what a command checked and has yet to record
  asked,     \* the rounds opened on connections whose other round is to come
  msgs,      \* messages on their way
  edits,     \* files added and removed so far
  gone,      \* per node: what its user removed and has not added since
  mishaps    \* messages lost or overtaken and daemons restarted so far

vars == <<store, reads, deferred, adding, asked, msgs, edits, gone, mishaps>>

NoAdd == [path |-> <<>>, hash |-> 0, at |-> 0, force |-> FALSE]
Empty ==
  [rows |-> [p \in Paths |-> Absent], seq |-> 0, served |-> 0,
   cursor |-> [n \in Nodes |-> 0],
   digest |-> [at |-> 0, view |-> View([p \in Paths |-> Absent])]]

-----------------------------------------------------------------------------
(***************************************************************************)
(* digest: the cached one as long as the log has not moved since.          *)
(***************************************************************************)
Digest(s) == IF s.digest.at = s.seq THEN s.digest.view ELSE View(s.rows)
Digested(s) == [s EXCEPT !.digest = [at |-> s.seq, view |-> Digest(s)]]

(***************************************************************************)
(* changes_since: the rows past the cursor, in log order, a page of them.  *)
(* What has been served is marked, the peer's own cursor included.         *)
(***************************************************************************)
Past(s, cursor) == {p \in Paths : s.rows[p].seen > cursor}

After(s, cursor) ==
  CHOOSE log \in [1 .. Cardinality(Past(s, cursor)) -> Past(s, cursor)] :
    \A i, j \in DOMAIN log :
      i < j => log[i] # log[j] /\ s.rows[log[i]].seen <= s.rows[log[j]].seen

Page(s, cursor) == SubSeq(After(s, cursor), 1, Smaller(PageSize, Len(After(s, cursor))))

NextCursorCounter(s, cursor) == Larger(cursor, s.seq)

NextCursor(s, cursor) ==
  IF Page(s, cursor) = <<>> THEN cursor
  ELSE s.rows[Page(s, cursor)[Len(Page(s, cursor))]].seen

Served(s, cursor) == [s EXCEPT !.served = Larger(@, NextCursor(s, cursor))]

-----------------------------------------------------------------------------
(***************************************************************************)
(* The reads of a node, and those started as slots become free.  A         *)
(* deferred read starts from the cursor of then, and as a first one.       *)
(***************************************************************************)
ReadOf(peer, after, retried) == [peer |-> peer, after |-> after, retried |-> retried]
Request(n, r) == [type |-> "changes", to |-> r.peer, by |-> n, after |-> r.after]

ReadAgain(wait, r) ==
  IF Cardinality(wait.reads) < MaxReads
  THEN [wait EXCEPT !.reads = @ \cup {r}, !.sent = @ \cup {r}]
  ELSE IF r.peer \in SX!ToSet(wait.deferred) \/ Len(wait.deferred) >= MaxDeferred
       THEN wait
  ELSE [wait EXCEPT !.deferred = Append(@, r.peer)]

Read(wait, r) ==
  IF \E o \in wait.reads : o.peer = r.peer THEN wait
  ELSE IF Cardinality(wait.reads) < MaxReads
       THEN [wait EXCEPT !.reads = @ \cup {r}, !.sent = @ \cup {r}]
  ELSE IF r.peer \in SX!ToSet(wait.deferred) \/ Len(wait.deferred) >= MaxDeferred
       THEN wait
  ELSE [wait EXCEPT !.deferred = Append(@, r.peer)]

Drained(wait, s) ==
  LET k == Smaller(MaxReads - Cardinality(wait.reads), Len(wait.deferred))
      next == {ReadOf(wait.deferred[i], s.cursor[wait.deferred[i]], FALSE) : i \in 1 .. k}
  IN  [reads |-> wait.reads \cup next, sent |-> wait.sent \cup next,
       deferred |-> SubSeq(wait.deferred, k + 1, Len(wait.deferred))]

Waiting(n) == [reads |-> reads[n], deferred |-> deferred[n], sent |-> {}]

(***************************************************************************)
(* The end of a handler of n that leaves its reads as `wait` says, with    *)
(* the store s and without the message m.                                  *)
(***************************************************************************)
Handled(n, wait, s, taken) ==
  LET w == Drained(wait, s)
  IN  /\ store' = [store EXCEPT ![n] = s]
      /\ reads' = [reads EXCEPT ![n] = w.reads]
      /\ deferred' = [deferred EXCEPT ![n] = w.deferred]
      /\ msgs' = (msgs \ taken) \cup {Request(n, r) : r \in w.sent}

-----------------------------------------------------------------------------
(***************************************************************************)
(* add_one: the bytes are in no other path of the group, and what is at    *)
(* this one may be replaced, or nothing is done.                           *)
(***************************************************************************)
AddCheck(n, p, hash, at, force) ==
  LET rows == store[n].rows
  IN  /\ adding[n] = NoAdd /\ edits < MaxEdits
      /\ Twins(store[n], p, hash) = {}
      /\ IsLive(rows[p]) => rows[p].hash # hash /\ force
      /\ adding' = [adding EXCEPT ![n] = [path |-> p, hash |-> hash, at |-> at, force |-> force]]
      /\ edits' = edits + 1
      /\ UNCHANGED <<store, reads, deferred, asked, msgs, gone, mishaps>>

(***************************************************************************)
(* record's transaction looks at this path again, and at no other.         *)
(***************************************************************************)
AddRecord(n) ==
  LET a == adding[n]
      row == store[n].rows[a.path]
  IN  /\ a # NoAdd
      /\ adding' = [adding EXCEPT ![n] = NoAdd]
      /\ IF IsLive(row) /\ (row.hash = a.hash \/ ~a.force)
         THEN UNCHANGED <<store, gone>>
         ELSE /\ store' = [store EXCEPT ![n] = Record(@, a.path, a.hash, a.at)]
              /\ gone' = [gone EXCEPT ![n] = @ \ {<<a.path, a.hash>>}]
      /\ UNCHANGED <<reads, deferred, asked, msgs, edits, mishaps>>

Remove(n, p, at) ==
  /\ edits < MaxEdits
  /\ IsLive(store[n].rows[p])
  /\ store' = [store EXCEPT ![n] = RemoveRow(@, p, at)]
  /\ gone' = [gone EXCEPT ![n] = @ \cup {<<p, store[n].rows[p].hash>>}]
  /\ edits' = edits + 1
  /\ UNCHANGED <<reads, deferred, adding, asked, msgs, mishaps>>

-----------------------------------------------------------------------------
(***************************************************************************)
(* A read that no message answers any more: it waits for its timeout.      *)
(***************************************************************************)
Underway(n, peer) ==
  \E m \in msgs : \/ m.type = "changes" /\ m.by = n /\ m.to = peer
                  \/ m.type = "page" /\ m.to = n /\ m.by = peer

Hanging(n, peer) == (\E r \in reads[n] : r.peer = peer) /\ ~Underway(n, peer)

(***************************************************************************)
(* Ask: m answers n with the digest of its catalogue.  Both ends of a      *)
(* connection open a round on it (ac-supervisor).  Three bounds keep the   *)
(* log positions finite: neither end opens two rounds more than the other, *)
(* a read that hangs is given up before the next, and MaxSeq.              *)
(***************************************************************************)
Ask(n, m) ==
  /\ <<n, m>> \in Links /\ Cardinality(msgs) < MaxMsgs
  /\ <<n, m>> \notin asked /\ ~Hanging(n, m) /\ ~Hanging(m, n)
  /\ store[n].seq <= MaxSeq
  /\ asked' = IF <<m, n>> \in asked THEN asked \ {<<m, n>>} ELSE asked \cup {<<n, m>>}
  /\ store' = [store EXCEPT ![m] = Digested(@)]
  /\ msgs' = msgs \cup {[type |-> "heads", to |-> n, by |-> m, digest |-> Digest(store[m])]}
  /\ UNCHANGED <<reads, deferred, adding, edits, gone, mishaps>>

OnHeads(m) ==
  LET n == m.to
      s == Digested(store[n])
  IN  /\ m.type = "heads"
      /\ Handled(n, IF Digest(s) = m.digest THEN Waiting(n)
                    ELSE Read(Waiting(n), ReadOf(m.by, s.cursor[m.by], FALSE)),
                 s, {m})
      /\ UNCHANGED <<adding, asked, edits, gone, mishaps>>

(***************************************************************************)
(* on_request, Changes: a page of our log, and where we stand.             *)
(***************************************************************************)
OnRequest(m) ==
  LET s == store[m.to]
      next == NextCursor(s, m.after)
      page == Page(s, m.after)
  IN  /\ m.type = "changes"
      /\ store' = [store EXCEPT ![m.to] = Digested(Served(@, m.after))]
      /\ msgs' = (msgs \ {m}) \cup
           {[type |-> "page", to |-> m.by, by |-> m.to, after |-> m.after,
             entries |-> [i \in DOMAIN page |-> EntryOf(page[i], s.rows[page[i]])],
             next |-> next, more |-> After(s, next) # <<>>, digest |-> Digest(s)]}
      /\ UNCHANGED <<reads, deferred, adding, asked, edits, gone, mishaps>>

(***************************************************************************)
(* on_changes: only the answer to a read we wait on is merged.  When the   *)
(* log is drained and the digests still differ it is read from the start,  *)
(* once: the cursor is an optimisation, the digest is the check.           *)
(***************************************************************************)
Merged(s, entries) ==
  LET after[i \in 0 .. Len(entries)] ==
        IF i = 0 THEN s ELSE Merge(after[i - 1], entries[i])
  IN  after[Len(entries)]

RereadsNever(s, told, read) == FALSE

Rereads(s, told, read) == Digest(s) # told /\ ~read.retried

OnPage(m) ==
  LET n == m.to
      read == CHOOSE r \in reads[n] : r.peer = m.by
      wait == [Waiting(n) EXCEPT !.reads = @ \ {read}]
      s == [Merged(store[n], m.entries) EXCEPT !.cursor[m.by] = m.next]
      reset == [Digested(s) EXCEPT !.cursor[m.by] = 0]
  IN  /\ m.type = "page"
      /\ IF ~\E r \in reads[n] : r.peer = m.by /\ r.after = m.after
         THEN Handled(n, Waiting(n), store[n], {m})
         ELSE \/ m.more /\ Handled(n, Read(wait, ReadOf(m.by, m.next, read.retried)), s, {m})
              \/ /\ ~m.more /\ Rereads(s, m.digest, read)
                 /\ Handled(n, Read(wait, ReadOf(m.by, 0, TRUE)), reset, {m})
              \/ /\ ~m.more /\ ~Rereads(s, m.digest, read)
                 /\ Handled(n, wait, Digested(s), {m})
      /\ UNCHANGED <<adding, asked, edits, gone, mishaps>>

-----------------------------------------------------------------------------
(***************************************************************************)
(* tick: a read outstanding for 30 seconds is abandoned.  Its messages may *)
(* still arrive.                                                           *)
(***************************************************************************)
Timeout(n, r) ==
  /\ IF Hanging(n, r.peer) THEN UNCHANGED mishaps
     ELSE mishaps < MaxMishaps /\ mishaps' = mishaps + 1
  /\ Handled(n, [Waiting(n) EXCEPT !.reads = @ \ {r}], store[n], {})
  /\ UNCHANGED <<adding, asked, edits, gone>>

Lose(m) ==
  /\ mishaps < MaxMishaps /\ mishaps' = mishaps + 1
  /\ msgs' = msgs \ {m}
  /\ UNCHANGED <<store, reads, deferred, adding, asked, edits, gone>>

(***************************************************************************)
(* The daemon of m.to is killed after merging some rows of a page, before  *)
(* it stores the cursor, and forgets its reads.                            *)
(***************************************************************************)
Killed(m, k) ==
  /\ m.type = "page"
  /\ \E r \in reads[m.to] : r.peer = m.by /\ r.after = m.after
  /\ mishaps < MaxMishaps /\ mishaps' = mishaps + 1
  /\ store' = [store EXCEPT ![m.to] = Merged(@, SubSeq(m.entries, 1, k))]
  /\ reads' = [reads EXCEPT ![m.to] = {}]
  /\ deferred' = [deferred EXCEPT ![m.to] = <<>>]
  /\ msgs' = msgs \ {m}
  /\ UNCHANGED <<adding, asked, edits, gone>>

-----------------------------------------------------------------------------
Init ==
  /\ store = [n \in Nodes |-> Empty]
  /\ reads = [n \in Nodes |-> {}]
  /\ deferred = [n \in Nodes |-> <<>>]
  /\ adding = [n \in Nodes |-> NoAdd]
  /\ gone = [n \in Nodes |-> {}]
  /\ asked = {} /\ msgs = {} /\ edits = 0 /\ mishaps = 0

UserStep ==
  \E n \in Users :
    \/ \E name \in Names, hash \in Hashes, at \in Clock[n], force \in Forces :
         AddCheck(n, <<name>>, hash, at, force)
    \/ AddRecord(n)
    \/ \E p \in Paths, at \in Clock[n] : Remove(n, p, at)

Deliver(m) == OnHeads(m) \/ OnRequest(m) \/ OnPage(m)

Next ==
  \/ UserStep
  \/ \E n, m \in Nodes : Ask(n, m)
  \/ \E m \in msgs : Deliver(m) \/ Lose(m)
  \/ \E m \in msgs : m.type = "page" /\ \E k \in 0 .. Len(m.entries) : Killed(m, k)
  \/ \E n \in Nodes : \E r \in reads[n] : Timeout(n, r)

Spec == Init /\ [][Next]_vars

(***************************************************************************)
(* The supervisor opens a round with every member again and again, a       *)
(* message not lost arrives, and an abandoned read is given up.            *)
(***************************************************************************)
FairSpec ==
  /\ Spec
  /\ \A n, m \in Nodes : SF_vars(Ask(n, m))
  /\ \A to \in Nodes : \A by \in Nodes \ {to} :
       /\ WF_vars(\E m \in msgs : m.to = to /\ m.by = by /\ Deliver(m))
       /\ WF_vars(Hanging(to, by) /\ \E r \in reads[to] : r.peer = by /\ Timeout(to, r))

-----------------------------------------------------------------------------
Views == [Paths -> [path : Paths, hash : Hashes \cup {0}, added : Nat, removed : Nat]]

Stores ==
  [rows : [Paths -> Row \cup {Absent}], seq : Nat, served : Nat, cursor : [Nodes -> Nat],
   digest : [at : Nat, view : Views]]

Messages ==
  [type : {"heads"}, to : Nodes, by : Nodes, digest : Views]
  \cup [type : {"changes"}, to : Nodes, by : Nodes, after : Nat]
  \cup [type : {"page"}, to : Nodes, by : Nodes, after : Nat, entries : Seq(Entries),
        next : Nat, more : BOOLEAN, digest : Views]

(***************************************************************************)
(* Every variable has its type, and no node has more reads under way or    *)
(* waiting than the limits allow, nor two of one peer.                     *)
(***************************************************************************)
TypeOK ==
  /\ store \in [Nodes -> Stores]
  /\ reads \in [Nodes -> SUBSET [peer : Nodes, after : Nat, retried : BOOLEAN]]
  /\ deferred \in [Nodes -> Seq(Nodes)]
  /\ asked \in SUBSET (Nodes \X Nodes)
  /\ msgs \in SUBSET Messages
  /\ gone \in [Nodes -> SUBSET (Paths \X Hashes)]
  /\ edits \in Nat /\ mishaps \in Nat
  /\ \A n \in Nodes :
       /\ Cardinality(reads[n]) <= MaxReads /\ Len(deferred[n]) <= MaxDeferred
       /\ \A r, o \in reads[n] : r.peer = o.peer => r = o
       /\ \A r \in reads[n] : r.peer \notin SX!ToSet(deferred[n])

(***************************************************************************)
(* Of a cached digest: while the log has not moved it is the digest of the *)
(* rows, so two nodes that differ never take each other for equal because  *)
(* one of them told an old digest.  This is what a removal that leaves no  *)
(* row spends a position for.                                              *)
(***************************************************************************)
DigestTrue ==
  \A n \in Nodes :
    store[n].digest.at = store[n].seq => store[n].digest.view = View(store[n].rows)

(***************************************************************************)
(* Of log positions: no two rows share one, none is past the counter, and  *)
(* no cursor is, so that a page never cuts a position in two and nothing   *)
(* written later is behind a reader.                                       *)
(***************************************************************************)
LogOrdered ==
  \A n \in Nodes :
    /\ \A p, q \in {r \in Paths : store[n].rows[r] # Absent} :
         store[n].rows[p].seen = store[n].rows[q].seen => p = q
    /\ \A p \in Paths : store[n].rows[p].seen <= store[n].seq
    /\ \A m \in Nodes : store[m].cursor[n] <= store[n].seq

(***************************************************************************)
(* A cursor only moves over rows that were merged: every row of the peer   *)
(* that stands between the old cursor and the new is, as it is now, in the *)
(* page that moved it, whatever the peer did since it sent the page.       *)
(***************************************************************************)
CursorSkipsNothing ==
  [][\A n, m \in Nodes :
       store'[n].cursor[m] > store[n].cursor[m] =>
         \E page \in msgs :
           /\ page.type = "page" /\ page.to = n /\ page.by = m
           /\ \A p \in Paths :
                store[m].rows[p].seen \in store[n].cursor[m] + 1 .. store'[n].cursor[m]
                => EntryOf(p, store[m].rows[p]) \in SX!ToSet(page.entries)]_vars

(***************************************************************************)
(* A group keeps one copy of any content: no merge leaves a node with two  *)
(* live paths for one content if it had none.  Only the commands can, that *)
(* check before the bytes are in place and record after.                   *)
(***************************************************************************)
MergesKeepOneCopy ==
  [][\A n \in Nodes :
       OneCopy(store[n]) /\ adding'[n] = adding[n] => OneCopy(store'[n])]_vars

(***************************************************************************)
(* While no user adds it, content that a node has as removed from a path   *)
(* does not come back to that path, whatever peers still send of it.  (To  *)
(* a conflict name it may: as the copy of content that lost its path.)     *)
(***************************************************************************)
TombstonesHold ==
  [][\A n \in Nodes : \A p \in {<<name>> : name \in Names} :
       IsRemoved(store[n].rows[p]) /\ adding'[n] = adding[n] =>
         ~(IsLive(store'[n].rows[p]) /\ store'[n].rows[p].hash = store[n].rows[p].hash)]_vars

(***************************************************************************)
(* "The other is kept under" a conflict name, and "dedup never deletes the *)
(* only copy" (docs/ac-files.md): while no user removes anything, merging  *)
(* never takes the last live row of a content out of every catalogue.      *)
(***************************************************************************)
Known(h) ==
  \/ \E n \in Nodes : \E p \in Paths : IsLive(store[n].rows[p]) /\ store[n].rows[p].hash = h
  \/ \E m \in msgs : /\ m.type = "page"
                     /\ \E e \in SX!ToSet(m.entries) : e.hash = h /\ e.removed = 0

ContentKept ==
  [][(\A n \in Nodes : gone'[n] = {}) /\ adding' = adding =>
       \A h \in Hashes : Known(h) => Known(h)']_vars

(***************************************************************************)
(* Every node's catalogue comes to say the same ("Every rule depends only  *)
(* on the rows, so peers converge without coordinating").                  *)
(***************************************************************************)
InStep == \A n, m \in Nodes : View(store[n].rows) = View(store[m].rows)
Convergence == <>[]InStep

=============================================================================
