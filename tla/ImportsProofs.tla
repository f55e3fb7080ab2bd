--------------------------- MODULE ImportsProofs ---------------------------
(***************************************************************************)
(* An import source, its pumps and what becomes of the files, for any      *)
(* references, names, contents and workers.  The invariant IInv says, of   *)
(* the ledger, that what a worker claims is leased to it alone, and of the *)
(* files, that a name belongs to one file and where that file is at each   *)
(* point of a fetch, a command or a download; the second says it of every  *)
(* place that is not doubtful.                                             *)
(***************************************************************************)
EXTENDS Imports, TLAPS

Promises == Contents \union {0}
Row == [promise : Promises, hash : Promises, fails : 0 .. MaxAttempts, leased : BOOLEAN]
Queues == SUBSET (Refs \X Promises)
Resting == [step : {"picking", "ending"}, queue : Queues]
Underway == [step : {"open", "commit", "keep", "settle"}, queue : Queues, ref : Refs,
             promise : Promises, place : Waits, at : Places \union {Nowhere}, got : Promises]
Page == [ref : Refs, offers : Contents, known : Row \union {NoRow}]
Sorting == [op : {"sort"}, c : Contents, step : {"record", "mark"}]
Undoing == [op : {"undo"}, c : Contents, step : {"remove", "mark"}]
Taking == [op : {"take"}, c : Contents, step : {"mark", "held"}]
Import == [state : {"none", "unsorted", "sorted", "dropped"}, place : Waits \union {Nowhere},
           from : Refs \union {0}]

LedgerTyped ==
  /\ source \in [Refs -> Promises]
  /\ refs \in [Refs -> Row \union {NoRow}]
  /\ jobs \in [Workers -> Resting \union Underway]
  /\ scan \in [on : BOOLEAN, todo : SUBSET Refs, page : SUBSET Page]
  /\ loose \subseteq Refs
FilesTyped ==
  /\ imported \in [Contents -> Import]
  /\ group \in [Contents -> {"none", "missing", "held", "removed"}]
  /\ files \in [Places -> Contents \union {NoFile, Torn}]
  /\ cmd \in Sorting \union Undoing \union {None} /\ take \in Taking \union {None}
  /\ forgetting \subseteq Contents /\ doubtful \subseteq Waits
Counted == changes \in 0 .. MaxChanges /\ mishaps \in 0 .. MaxMishaps

InFetch(w) == jobs[w].step \notin {"picking", "ending"}
Active(w) == InFetch(w) /\ jobs[w].step # "settle"
Leased(r) == refs[r] # NoRow /\ refs[r].leased

(* What a worker claims it claims once, and its row is there and leased,   *)
(* unless it is loose.                                                     *)
OnceEach(w) ==
  /\ \A q, o \in jobs[w].queue : q[1] = o[1] => q = o
  /\ InFetch(w) => \A q \in jobs[w].queue : q[1] # jobs[w].ref
Claims ==
  /\ \A w \in Workers : OnceEach(w) /\ \A r \in Claimed(w) : r \in loose \/ Leased(r)
  /\ OneClaim

NamedFor(p, r) == p = <<NameOf[r]>> \/ p = <<NameOf[r], r>>

(* A content that was kept has its name from the reference it came from,   *)
(* and so has a fetch.                                                     *)
KnownContent(c) ==
  /\ State(c) = "none" <=> Place(c) = Nowhere
  /\ State(c) # "none" => imported[c].from \in Refs /\ NamedFor(Place(c), imported[c].from)
  /\ AtGroup(c) /\ State(c) = "none" => FALSE
  /\ c \in forgetting => State(c) # "none"
KnownFetch(w) ==
  InFetch(w) => /\ NamedFor(jobs[w].place, jobs[w].ref)
                /\ jobs[w].step # "open" => jobs[w].got \in Contents
Known == (\A c \in Contents : KnownContent(c)) /\ (\A w \in Workers : KnownFetch(w))

(* A name is one file's, unless it is doubtful.                            *)
Alone(w) ==
  Active(w) /\ jobs[w].place \notin doubtful =>
    /\ \A v \in Workers : v # w /\ Active(v) => jobs[v].place # jobs[w].place
    /\ \A c \in Contents : Place(c) # jobs[w].place
Apart ==
  /\ \A w \in Workers : Alone(w)
  /\ \A c, d \in Contents : c # d /\ State(c) # "none" /\ Place(c) = Place(d) => Place(c) \in doubtful

(* What is staged for a name is the content it will be kept as.            *)
StagedWell(w) ==
  InFetch(w) =>
    /\ jobs[w].at \in {Nowhere, Part(jobs[w].place), Unsorted(jobs[w].place)}
    /\ jobs[w].step # "open" => jobs[w].at = Nowhere
    /\ jobs[w].place \notin doubtful =>
         /\ jobs[w].step = "open" => jobs[w].at = Part(jobs[w].place)
         /\ jobs[w].step = "commit" => files[Part(jobs[w].place)] = jobs[w].got
         /\ jobs[w].step = "keep" => files[Unsorted(jobs[w].place)] = jobs[w].got
Staged == \A w \in Workers : StagedWell(w)

(* Where the one file of a content is, whatever is at it.                  *)
Waiting(c) == files[Unsorted(Place(c))]
Filed(c) == files[InGroup(c)]
Whole(c) ==
  /\ Filed(c) \in {c, NoFile}
  /\ State(c) # "none" => Waiting(c) \in {c, NoFile}
  /\ ~(AtCommand(c) /\ AtTake(c))
  /\ c \in forgetting => State(c) = "dropped" /\ ~AtGroup(c)
  /\ AtCommand(c) /\ cmd.op = "sort" => State(c) = "unsorted" /\ Filed(c) = c
  /\ AtCommand(c) /\ cmd.op = "undo" =>
       State(c) = "sorted" /\ Waiting(c) = c /\ (cmd.step = "mark" => group[c] # "held")
  /\ AtTake(c) => /\ State(c) = IF take.step = "mark" THEN "unsorted" ELSE "sorted"
                  /\ Filed(c) = c
  /\ ~AtGroup(c) => /\ State(c) = "unsorted" => Waiting(c) = c
                    /\ group[c] = "held" => Filed(c) = c
AllWhole == \A c \in Contents : Place(c) \notin doubtful => Whole(c)

IInv == LedgerTyped /\ FilesTyped /\ Counted /\ Claims /\ Known /\ Apart /\ Staged /\ AllWhole

-----------------------------------------------------------------------------
LEMMA NoRowIsNone == NoRow \notin Row /\ None \notin Sorting \union Undoing \union Taking
  BY DEF NoRow, Row, None, Sorting, Undoing, Taking

LEMMA NamesAre ==
  /\ \A r \in Refs : \A p : NamedFor(p, r) => p \in Waits
  /\ \A r, o \in Refs : <<NameOf[o]>> # <<NameOf[r], r>>
                        /\ (<<NameOf[o], o>> = <<NameOf[r], r>> => o = r)
  /\ Nowhere \notin Waits
  BY ImportAssumption DEF NamedFor, Waits, Nowhere

LEMMA PlacesAre ==
  /\ \A p \in Waits : Part(p) \in Places /\ Unsorted(p) \in Places
  /\ \A c \in Contents : InGroup(c) \in Places
  /\ \A p, q : Part(p) # Unsorted(q) /\ (Part(p) = Part(q) => p = q)
       /\ (Unsorted(p) = Unsorted(q) => p = q)
  /\ \A p, c : InGroup(c) # Part(p) /\ InGroup(c) # Unsorted(p)
  /\ \A c, d : InGroup(c) = InGroup(d) => c = d
  /\ \A p, c : Part(p) # Nowhere /\ Unsorted(p) # Nowhere
  BY DEF Places, Part, Unsorted, InGroup, Nowhere

LEMMA ConstantsAre ==
  /\ 0 \notin Contents /\ Torn \notin Contents /\ Torn # 0 /\ NoFile = 0
  /\ MaxAttempts \in Nat \ {0} /\ MaxChanges \in Nat /\ MaxMishaps \in Nat
  /\ Refs \subseteq Nat \ {0} /\ \A r \in Refs : NameOf[r] \in Names
  BY ImportAssumption DEF NoFile

LEMMA Counting ==
  ASSUME IInv
  PROVE  /\ Counted
         /\ Change => changes' \in 0 .. MaxChanges
         /\ Mishap => mishaps' \in 0 .. MaxMishaps
  BY ConstantsAre DEF IInv, Counted, Change, Mishap

(* What is known of a worker.                                              *)
LEMMA JobIs ==
  ASSUME IInv, NEW w \in Workers
  PROVE  /\ jobs[w].queue \in Queues
         /\ InFetch(w) => jobs[w] \in Underway
         /\ ~InFetch(w) => jobs[w] \in Resting
  BY DEF IInv, LedgerTyped, Resting, Underway, InFetch

LEMMA ClaimedIs ==
  \A w : Claimed(w) = {q[1] : q \in jobs[w].queue} \union (IF InFetch(w) THEN {jobs[w].ref} ELSE {})
  BY DEF Claimed, InFetch

-----------------------------------------------------------------------------
(* A worker claims no more than before.                                    *)
Fewer(w) ==
  /\ jobs'[w].queue \subseteq jobs[w].queue
  /\ InFetch(w)' => \/ InFetch(w) /\ jobs'[w].ref = jobs[w].ref
                    \/ \E q \in jobs[w].queue \ jobs'[w].queue : jobs'[w].ref = q[1]

LEMMA FewerClaims ==
  ASSUME IInv, NEW w \in Workers, Fewer(w)
  PROVE  OnceEach(w)' /\ Claimed(w)' \subseteq Claimed(w)
<1>1. OnceEach(w)
  BY DEF IInv, Claims
<1>2. OnceEach(w)'
  BY <1>1 DEF OnceEach, Fewer
<1>3. Claimed(w)' = {q[1] : q \in jobs'[w].queue} \union (IF InFetch(w)' THEN {jobs'[w].ref} ELSE {})
  BY DEF Claimed, InFetch
<1>4. Claimed(w)' \subseteq Claimed(w)
  BY <1>3, ClaimedIs DEF Fewer
<1> QED BY <1>2, <1>4

LEMMA ClaimsShrink ==
  ASSUME IInv, \A w \in Workers : Fewer(w),
         \A w \in Workers : \A r \in Claimed(w)' :
            (r \in loose => r \in loose') /\ (r \in loose' \/ ~Leased(r) \/ Leased(r)')
  PROVE  Claims'
<1>1. \A w \in Workers : OnceEach(w)' /\ Claimed(w)' \subseteq Claimed(w)
  BY FewerClaims
<1>2. ASSUME NEW w \in Workers, NEW r \in Claimed(w)' PROVE r \in loose' \/ Leased(r)'
  BY <1>1, <1>2 DEF IInv, Claims
<1>3. OneClaim'
  BY <1>1 DEF IInv, Claims, OneClaim
<1> QED BY <1>1, <1>2, <1>3 DEF Claims

(* The ledger and the jobs stay as they are.                               *)
LEMMA ClaimsAside ==
  ASSUME IInv, UNCHANGED <<refs, jobs, loose>>
  PROVE  Claims'
  BY DEF IInv, Claims, OnceEach, InFetch, Claimed, Leased, OneClaim

(* The files and the fetches under way stay as they are.                   *)
LEMMA FilesAside ==
  ASSUME IInv, UNCHANGED <<imported, files, sides, doubtful>>,
         \A w \in Workers : InFetch(w)' => jobs'[w] = jobs[w]
  PROVE  FilesTyped' /\ Known' /\ Apart' /\ Staged' /\ AllWhole'
<1>1. UNCHANGED <<cmd, take, forgetting, group>> /\ FilesTyped'
  BY DEF sides, IInv, FilesTyped
<1>2. \A w \in Workers : InFetch(w)' => InFetch(w) /\ (Active(w)' <=> Active(w))
  BY DEF InFetch, Active
<1>3. Known'
  BY <1>1, <1>2 DEF IInv, Known, KnownContent, KnownFetch, AtGroup, AtCommand, AtTake, State, Place
<1>4. Apart'
  BY <1>1, <1>2 DEF IInv, Apart, Alone, State, Place, Active
<1>5. Staged'
  BY <1>1, <1>2 DEF IInv, Staged, StagedWell
<1>6. AllWhole'
  BY <1>1 DEF IInv, AllWhole, Whole, Filed, Waiting, AtGroup, AtCommand, AtTake, State, Place
<1> QED BY <1>1, <1>3, <1>4, <1>5, <1>6

-----------------------------------------------------------------------------
(* The scan and the leases.                                                *)
LEMMA RowIs ==
  ASSUME IInv, NEW r \in Refs
  PROVE  /\ refs[r] \in Row \union {NoRow} /\ (IsOwed(r) => refs[r] \in Row)
         /\ (Leased(r) => refs[r] \in Row) /\ source[r] \in Promises
         /\ \A e : refs[r] = NoRow => [refs EXCEPT ![r] = e][r] = e
  BY DEF IInv, LedgerTyped, IsOwed, Leased

(* What becomes of a row that is claimed, refreshed or given back.         *)
LEMMA RowChanges ==
  ASSUME NEW row \in Row, NEW x \in Promises
  PROVE  /\ [row EXCEPT !.promise = x, !.fails = 0] \in Row
         /\ [row EXCEPT !.promise = x, !.fails = 0].leased = row.leased
         /\ [row EXCEPT !.fails = 0, !.leased = FALSE] \in Row
         /\ [row EXCEPT !.hash = x] \in Row /\ [row EXCEPT !.hash = x].leased = row.leased
         /\ ~Exhausted(row) => /\ [row EXCEPT !.leased = TRUE, !.fails = @ + 1] \in Row
                               /\ [row EXCEPT !.leased = TRUE, !.fails = @ + 1].leased
<1>1. 0 \in 0 .. MaxAttempts /\ MaxAttempts \in Nat
  BY ConstantsAre
<1>2. ~Exhausted(row) => row.fails + 1 \in 0 .. MaxAttempts
  BY <1>1 DEF Exhausted, Row
<1> QED BY <1>1, <1>2 DEF Row

LEMMA LedgerStep ==
  ASSUME IInv, LedgerTyped', Claims', UNCHANGED <<imported, files, sides, doubtful>>, Counted',
         \A w \in Workers : InFetch(w)' => jobs'[w] = jobs[w]
  PROVE  IInv'
  BY FilesAside DEF IInv

(* The rows that a step changes keep their leases, or are nobody's.        *)
LEMMA RowsStep ==
  ASSUME IInv, UNCHANGED <<source, jobs, imported, files, sides, doubtful>>, Counted',
         refs' \in [Refs -> Row \union {NoRow}],
         scan' \in [on : BOOLEAN, todo : SUBSET Refs, page : SUBSET Page], loose' \subseteq Refs,
         \A r \in Refs : (\E w \in Workers : r \in Claimed(w)) =>
            (r \in loose => r \in loose') /\ (r \in loose' \/ ~Leased(r) \/ Leased(r)')
  PROVE  IInv'
<1>1. LedgerTyped'
  BY DEF IInv, LedgerTyped
<1>2. \A w \in Workers : Fewer(w) /\ Claimed(w)' = Claimed(w) /\ (InFetch(w)' => jobs'[w] = jobs[w])
  BY DEF Fewer, Claimed, InFetch
<1>3. \A w \in Workers : Claimed(w) \subseteq Refs
  <2>1. ASSUME NEW w \in Workers, NEW r \in Claimed(w) PROVE r \in Refs
    BY JobIs, ClaimedIs DEF Underway, Queues
  <2> QED BY <2>1
<1>4. Claims'
  BY <1>2, <1>3, ClaimsShrink
<1> QED BY <1>1, <1>2, <1>4, LedgerStep

LEMMA ScanIs ==
  ASSUME IInv
  PROVE  /\ scan \in [on : BOOLEAN, todo : SUBSET Refs, page : SUBSET Page]
         /\ scan.todo \subseteq Refs /\ scan.page \subseteq Page
         /\ refs \in [Refs -> Row \union {NoRow}] /\ loose \subseteq Refs
         /\ NoScan \in [on : BOOLEAN, todo : SUBSET Refs, page : SUBSET Page]
  BY DEF IInv, LedgerTyped, NoScan

LEMMA ScanMovesStep ==
  ASSUME IInv, ScanBegins \/ (\E r \in Refs : ScanReads(r)) \/ ScanBreaks
  PROVE  IInv'
<1>1. /\ UNCHANGED <<source, refs, jobs, imported, files, sides, doubtful, loose>> /\ Counted'
  BY Counting DEF ScanBegins, ScanReads, ScanBreaks, ledger, Counted
<1>2. scan' \in [on : BOOLEAN, todo : SUBSET Refs, page : SUBSET Page]
  <2>1. CASE ScanBegins
    <3>1. scan' = [on |-> TRUE, todo |-> Refs, page |-> {}]
      BY <2>1 DEF ScanBegins
    <3> QED BY <3>1
  <2>2. CASE ScanBreaks
    BY <2>2, ScanIs DEF ScanBreaks
  <2>3. ASSUME NEW r \in Refs, ScanReads(r)
        PROVE  scan' \in [on : BOOLEAN, todo : SUBSET Refs, page : SUBSET Page]
    <3>1. source[r] = 0 \/ [ref |-> r, offers |-> source[r], known |-> refs[r]] \in Page
      BY RowIs DEF Page, Promises
    <3> QED BY <2>3, <3>1, ScanIs DEF ScanReads
  <2> QED BY <2>1, <2>2, <2>3
<1>3. \A r : Leased(r)' <=> Leased(r)
  BY <1>1 DEF Leased
<1> QED BY <1>1, <1>2, <1>3, ScanIs, RowsStep

LEMMA ScanWritesStep ==
  ASSUME IInv, ScanWrites
  PROVE  IInv'
<1>1. PICK g \in scan.page :
       refs' = IF g.known # NoRow THEN Refresh(g)
               ELSE IF refs[g.ref] = NoRow THEN [refs EXCEPT ![g.ref] = NewRow(Promise(g))]
               ELSE refs
  BY DEF ScanWrites
<1>2. g.ref \in Refs /\ Promise(g) \in Promises
  BY ScanIs DEF Page, Promise, Promises
<1>3. NewRow(Promise(g)) \in Row
  BY <1>2, ConstantsAre DEF NewRow, Row, Promises
<1>4. CASE refs' = refs
  BY <1>4, ScanIs, Counting, RowsStep DEF ScanWrites, Leased, Counted
<1>5. CASE refs[g.ref] = NoRow /\ refs' = [refs EXCEPT ![g.ref] = NewRow(Promise(g))]
  <2>1. refs' \in [Refs -> Row \union {NoRow}]
    BY <1>2, <1>3, <1>5, ScanIs
  <2>2. \A r \in Refs : Leased(r) => Leased(r)'
    BY <1>2, <1>5, ScanIs DEF Leased
  <2> QED BY <2>1, <2>2, ScanIs, Counting, RowsStep DEF ScanWrites, Counted
<1>6. CASE IsOwed(g.ref) /\ refs' = [refs EXCEPT ![g.ref].promise = Promise(g), ![g.ref].fails = 0]
  <2> DEFINE row == [refs[g.ref] EXCEPT !.promise = Promise(g), !.fails = 0]
  <2>1. row \in Row /\ row.leased = refs[g.ref].leased
    BY <1>2, <1>6, RowIs, RowChanges
  <2>2. refs' = [refs EXCEPT ![g.ref] = row]
    BY <1>2, <1>6, ScanIs
  <2> HIDE DEF row
  <2>3. refs' \in [Refs -> Row \union {NoRow}]
    BY <1>2, <2>1, <2>2, ScanIs
  <2>4. \A r \in Refs : Leased(r) => Leased(r)'
    BY <1>2, <2>1, <2>2, ScanIs, NoRowIsNone DEF Leased
  <2> QED BY <2>3, <2>4, ScanIs, Counting, RowsStep DEF ScanWrites, Counted
<1> QED BY <1>1, <1>4, <1>5, <1>6 DEF Refresh

LEMMA ScanEndsStep ==
  ASSUME IInv, ScanEnds
  PROVE  IInv'
<1> DEFINE retired == {r \in Refs : IsOwed(r) /\ Exhausted(refs[r])}
<1>1. /\ refs' = Gone(retired) /\ loose' = Loosened(retired) /\ scan' = NoScan
      /\ UNCHANGED <<source, imported, files, jobs, sides, doubtful, changes, mishaps>>
  BY DEF ScanEnds
<1>2. refs' \in [Refs -> Row \union {NoRow}] /\ \A r \in Refs : r \notin retired => refs'[r] = refs[r]
  BY <1>1, ScanIs DEF Gone
<1>3. loose' \subseteq Refs
  BY <1>1, ScanIs DEF Loosened
<1>4. \A r \in Refs : (\E w \in Workers : r \in Claimed(w)) =>
            (r \in loose => r \in loose') /\ (r \in loose' \/ ~Leased(r) \/ Leased(r)')
  BY <1>1, <1>2 DEF Loosened, Leased
<1>5. Counted'
  BY <1>1, Counting DEF Counted
<1> QED BY <1>1, <1>2, <1>3, <1>4, <1>5, ScanIs, RowsStep

LEMMA HourStep ==
  ASSUME IInv, NEW r \in Refs, HourPasses(r)
  PROVE  IInv'
<1>1. /\ UNCHANGED <<source, jobs, scan, imported, files, sides, doubtful>> /\ Counted'
      /\ loose' = Loosened({r}) /\ refs' = [refs EXCEPT ![r].leased = FALSE]
  BY Counting DEF HourPasses, Counted
<1>2. [refs[r] EXCEPT !.leased = FALSE] \in Row
  BY RowIs DEF HourPasses, Row
<1>3. refs' \in [Refs -> Row \union {NoRow}] /\ \A o \in Refs : o # r => refs'[o] = refs[o]
  BY <1>1, <1>2, ScanIs
<1>4. loose' \subseteq Refs
  BY <1>1, ScanIs DEF Loosened
<1>5. \A o \in Refs : (\E w \in Workers : o \in Claimed(w)) =>
            (o \in loose => o \in loose') /\ (o \in loose' \/ ~Leased(o) \/ Leased(o)')
  BY <1>1, <1>3 DEF Loosened, Leased
<1> QED BY <1>1, <1>3, <1>4, <1>5, ScanIs, RowsStep

LEMMA SourceStep ==
  ASSUME IInv, NEW r \in Refs, NEW c \in Promises, SourceChanges(r, c)
  PROVE  IInv'
<1>1. /\ UNCHANGED <<refs, jobs, scan, loose, imported, files, sides, doubtful>> /\ Counted'
      /\ source' = [source EXCEPT ![r] = c]
  BY Counting DEF SourceChanges, ledger, Counted
<1>2. LedgerTyped'
  BY <1>1 DEF IInv, LedgerTyped
<1> QED BY <1>1, <1>2, ClaimsAside, LedgerStep

-----------------------------------------------------------------------------
(* The pump, where it touches no file.                                     *)
LEMMA ClaimStep ==
  ASSUME IInv, NEW w \in Workers, NEW rows \in SUBSET Refs, Claim(w, rows)
  PROVE  IInv'
<1> DEFINE queue == {<<r, refs[r].promise>> : r \in rows}
<1>1. /\ UNCHANGED <<source, imported, files, scan, sides, doubtful, changes, mishaps>>
      /\ jobs[w] = Idle /\ rows \subseteq Claimable /\ loose' = Loosened({})
      /\ refs' = [r \in Refs |-> IF r \in rows
                                 THEN [refs[r] EXCEPT !.leased = TRUE, !.fails = @ + 1]
                                 ELSE refs[r]]
      /\ jobs' = [jobs EXCEPT ![w] = Picking(queue)]
  BY DEF Claim
<1>2. \A r \in rows : refs[r] \in Row /\ ~Exhausted(refs[r]) /\ ~refs[r].leased
  BY <1>1, RowIs DEF Claimable
<1>3. Picking(queue) \in Resting /\ Picking(queue).queue = queue /\ Picking(queue).step = "picking"
  BY <1>2 DEF Picking, Resting, Queues, Row
<1>4. /\ jobs' \in [Workers -> Resting \union Underway] /\ jobs'[w] = Picking(queue)
      /\ \A v \in Workers : v # w => jobs'[v] = jobs[v]
  BY <1>1, <1>3 DEF IInv, LedgerTyped
<1>5. /\ refs' \in [Refs -> Row \union {NoRow}]
      /\ \A r \in rows : Leased(r)' /\ ~Leased(r)
      /\ \A r \in Refs : r \notin rows => refs'[r] = refs[r]
  <2>1. ASSUME NEW r \in Refs PROVE refs'[r] = IF r \in rows
                                  THEN [refs[r] EXCEPT !.leased = TRUE, !.fails = @ + 1] ELSE refs[r]
    BY <1>1
  <2>2. ASSUME NEW r \in rows PROVE refs'[r] \in Row /\ refs'[r].leased
    <3>1. r \in Refs /\ refs[r] \in Row /\ ~Exhausted(refs[r]) /\ 0 \in Promises
      BY <1>2 DEF Promises
    <3>2. refs'[r] = [refs[r] EXCEPT !.leased = TRUE, !.fails = @ + 1]
      BY <2>1, <3>1
    <3> QED BY <3>1, <3>2, RowChanges
  <2>3. refs' \in [Refs -> Row \union {NoRow}]
    BY <1>1, <2>1, <2>2, ScanIs
  <2> QED BY <1>2, <2>1, <2>2, <2>3, NoRowIsNone DEF Leased
<1>6. loose' \subseteq Refs /\ \A r \in loose : (\E v \in Workers : r \in Claimed(v)) => r \in loose'
  BY <1>1, ScanIs DEF Loosened
<1> HIDE DEF queue
<1>7. LedgerTyped'
  BY <1>1, <1>4, <1>5, <1>6 DEF IInv, LedgerTyped
<1>8. /\ Claimed(w)' = rows
      /\ \A v \in Workers : v # w => Claimed(v)' = Claimed(v) /\ Claimed(v) \subseteq Refs
  <2>1. Claimed(w)' = {q[1] : q \in queue}
    BY <1>3, <1>4 DEF Claimed
  <2>2. ASSUME NEW v \in Workers, v # w PROVE Claimed(v)' = Claimed(v) /\ Claimed(v) \subseteq Refs
    <3>1. Claimed(v)' = Claimed(v)
      BY <1>4, <2>2 DEF Claimed
    <3>2. ASSUME NEW r \in Claimed(v) PROVE r \in Refs
      BY JobIs, ClaimedIs DEF Underway, Queues
    <3> QED BY <3>1, <3>2
  <2>3. {q[1] : q \in queue} = rows
    <3>1. ASSUME NEW r \in rows PROVE r \in {q[1] : q \in queue}
      <4>1. <<r, refs[r].promise>> \in queue /\ <<r, refs[r].promise>>[1] = r
        BY DEF queue
      <4> QED BY <4>1
    <3>2. \A q \in queue : q[1] \in rows
      BY DEF queue
    <3> QED BY <3>1, <3>2
  <2> QED BY <2>1, <2>2, <2>3
<1>9. Claims'
  <2>1. ASSUME NEW v \in Workers PROVE OnceEach(v)'
    <3>1. CASE v = w
      BY <1>3, <1>4, <3>1 DEF OnceEach, InFetch, queue
    <3>2. CASE v # w
      BY <1>4, <3>2 DEF IInv, Claims, OnceEach, InFetch
    <3> QED BY <3>1, <3>2
  <2>2. ASSUME NEW v \in Workers, NEW r \in Claimed(v)' PROVE r \in loose' \/ Leased(r)'
    <3>1. CASE v = w
      BY <1>5, <1>8, <3>1
    <3>2. CASE v # w
      <4>1. r \in Claimed(v) /\ r \in Refs /\ (r \in loose \/ Leased(r))
        BY <1>8, <2>2, <3>2 DEF IInv, Claims
      <4>2. CASE r \in loose
        BY <1>6, <4>1, <4>2
      <4>3. CASE Leased(r)
        <5>1. r \notin rows /\ refs'[r] = refs[r]
          BY <1>5, <4>1, <4>3
        <5> QED BY <4>3, <5>1 DEF Leased
      <4> QED BY <4>1, <4>2, <4>3
    <3> QED BY <3>1, <3>2
  <2>3. ASSUME NEW v \in Workers, v # w, NEW r \in rows, r \in Claimed(v) PROVE r \in loose'
    BY <1>5, <1>6, <2>3 DEF IInv, Claims
  <2>4. OneClaim'
    <3>1. ASSUME NEW v \in Workers, NEW u \in Workers, v # u, NEW r \in Claimed(v)' \intersect Claimed(u)'
          PROVE  r \in loose'
      <4>1. CASE v = w \/ u = w
        BY <1>8, <2>3, <3>1, <4>1
      <4>2. CASE v # w /\ u # w
        BY <1>6, <1>8, <3>1, <4>2 DEF IInv, Claims, OneClaim
      <4> QED BY <4>1, <4>2
    <3> QED BY <3>1 DEF OneClaim
  <2> QED BY <2>1, <2>2, <2>4 DEF Claims
<1>10. \A v \in Workers : InFetch(v)' => jobs'[v] = jobs[v]
  BY <1>3, <1>4 DEF InFetch
<1>11. Counted'
  BY <1>1, Counting DEF Counted
<1> QED BY <1>1, <1>7, <1>9, <1>10, <1>11, LedgerStep

(* A worker goes on to claim less.                                         *)
LEMMA PumpStep ==
  ASSUME IInv, NEW w \in Workers, NEW j \in Resting, jobs' = [jobs EXCEPT ![w] = j],
         j.queue \subseteq jobs[w].queue,
         UNCHANGED <<source, imported, files, scan, sides, doubtful, loose>>, Counted',
         refs' \in [Refs -> Row \union {NoRow}],
         \A r \in Refs : r \in loose \/ (\A v \in Workers : r \notin Claimed(v)') \/ ~Leased(r)
           \/ Leased(r)'
  PROVE  IInv'
<1>1. /\ jobs' \in [Workers -> Resting \union Underway] /\ jobs'[w] = j /\ ~InFetch(w)'
      /\ \A v \in Workers : v # w => jobs'[v] = jobs[v] /\ (InFetch(v)' <=> InFetch(v))
  BY DEF IInv, LedgerTyped, InFetch, Resting
<1>2. LedgerTyped'
  BY <1>1 DEF IInv, LedgerTyped
<1>3. ASSUME NEW v \in Workers PROVE Fewer(v)
  BY <1>1 DEF Fewer
<1>4. \A v \in Workers : Claimed(v) \subseteq Refs
  <2>1. ASSUME NEW v \in Workers, NEW r \in Claimed(v) PROVE r \in Refs
    BY JobIs, ClaimedIs DEF Underway, Queues
  <2> QED BY <2>1
<1>5. \A v \in Workers : Claimed(v)' \subseteq Claimed(v)
  BY <1>3, FewerClaims
<1>6. Claims'
  BY <1>3, <1>4, <1>5, ClaimsShrink
<1> QED BY <1>1, <1>2, <1>6, LedgerStep

LEMMA StopRunStep ==
  ASSUME IInv, NEW w \in Workers, StopRun(w)
  PROVE  IInv'
<1> DEFINE j == [jobs[w] EXCEPT !.step = "ending"]
<1>1. j \in Resting /\ j.queue = jobs[w].queue
  BY JobIs DEF StopRun, InFetch, Resting
<1>2. jobs' = [jobs EXCEPT ![w] = j] /\ refs' = refs
  BY DEF StopRun, ledger
<1>3. UNCHANGED <<source, imported, files, scan, sides, doubtful, loose>> /\ Counted'
  BY Counting DEF StopRun, ledger, Counted
<1> HIDE DEF j
<1> QED BY <1>1, <1>2, <1>3, ScanIs, PumpStep DEF Leased

LEMMA GiveBackStep ==
  ASSUME IInv, NEW w \in Workers, NEW q \in jobs[w].queue, GiveBack(w, q)
  PROVE  IInv'
<1>1. /\ UNCHANGED <<source, imported, files, scan, sides, doubtful, loose>> /\ Counted'
      /\ jobs[w].step = "ending"
  BY Counting DEF GiveBack, Counted
<1>2. jobs[w] \in Resting /\ q \in Refs \X Promises /\ jobs[w].queue \in Queues
  BY <1>1, JobIs DEF InFetch, Queues
<1>3. PICK j \in Resting : jobs' = [jobs EXCEPT ![w] = j] /\ j.queue = jobs[w].queue \ {q}
  <2>1. CASE jobs[w].queue = {q}
    <3>1. Idle \in Resting /\ Idle.queue = {}
      BY DEF Idle, Picking, Resting, Queues
    <3> QED BY <2>1, <3>1 DEF GiveBack
  <2>2. CASE jobs[w].queue # {q}
    <3>1. [step |-> "ending", queue |-> jobs[w].queue \ {q}] \in Resting
      BY <1>2 DEF Resting, Queues
    <3> QED BY <2>2, <3>1 DEF GiveBack
  <2> QED BY <2>1, <2>2
<1>4. /\ refs' \in [Refs -> Row \union {NoRow}]
      /\ \A r \in Refs : r # q[1] => refs'[r] = refs[r]
  <2>1. CASE IsOwed(q[1])
    <3>1. [refs[q[1]] EXCEPT !.fails = 0, !.leased = FALSE] \in Row
      BY <1>2, <2>1, RowIs, RowChanges
    <3>2. refs' = [refs EXCEPT ![q[1]] = [refs[q[1]] EXCEPT !.fails = 0, !.leased = FALSE]]
      BY <1>2, <2>1, ScanIs DEF GiveBack
    <3> QED BY <1>2, <3>1, <3>2, ScanIs
  <2>2. CASE ~IsOwed(q[1])
    BY <2>2, ScanIs DEF GiveBack
  <2> QED BY <2>1, <2>2
<1>5. ASSUME NEW v \in Workers, q[1] \in Claimed(v)' PROVE q[1] \in loose
  <2>1. /\ jobs'[w] = j /\ Claimed(w)' = {o[1] : o \in jobs[w].queue \ {q}}
    BY <1>3 DEF Claimed, IInv, LedgerTyped, Resting
  <2>2. q[1] \notin Claimed(w)' /\ q[1] \in Claimed(w)
    BY <1>1, <2>1, ClaimedIs DEF IInv, Claims, OnceEach
  <2>3. v # w /\ jobs'[v] = jobs[v]
    BY <1>3, <1>5, <2>2 DEF IInv, LedgerTyped
  <2>4. q[1] \in Claimed(v)
    BY <1>5, <2>3 DEF Claimed
  <2> QED BY <2>2, <2>3, <2>4 DEF IInv, Claims, OneClaim
<1> QED BY <1>1, <1>3, <1>4, <1>5, PumpStep DEF Leased

LEMMA SettleStep ==
  ASSUME IInv, NEW w \in Workers, Settle(w)
  PROVE  IInv'
<1>1. /\ UNCHANGED <<source, imported, files, scan, sides, doubtful, loose>> /\ Counted'
      /\ jobs[w] \in Underway /\ jobs[w].got \in Promises /\ jobs[w].ref \in Refs
  BY Counting, JobIs DEF Settle, Counted, InFetch, Underway
<1>2. /\ Picking(jobs[w].queue) \in Resting /\ Picking(jobs[w].queue).queue \subseteq jobs[w].queue
      /\ jobs' = [jobs EXCEPT ![w] = Picking(jobs[w].queue)]
  BY JobIs DEF Picking, Resting, Settle
<1>3. refs' \in [Refs -> Row \union {NoRow}] /\ \A r \in Refs : Leased(r) => Leased(r)'
  <2>1. CASE refs[jobs[w].ref] = NoRow
    BY <2>1, ScanIs DEF Settle, Leased
  <2>2. CASE refs[jobs[w].ref] # NoRow
    <3> DEFINE row == [refs[jobs[w].ref] EXCEPT !.hash = jobs[w].got]
    <3>1. row \in Row /\ row.leased = refs[jobs[w].ref].leased
      BY <1>1, <2>2, RowIs, RowChanges
    <3>2. refs' = [refs EXCEPT ![jobs[w].ref] = row]
      BY <2>2 DEF Settle
    <3> HIDE DEF row
    <3> QED BY <1>1, <3>1, <3>2, ScanIs, NoRowIsNone DEF Leased
  <2> QED BY <2>1, <2>2
<1> QED BY <1>1, <1>2, <1>3, PumpStep

-----------------------------------------------------------------------------
(* What the user and the group do is done to one content.                  *)
Elsewhere(c) ==
  \A d \in Contents : d # c =>
    /\ imported'[d] = imported[d] /\ group'[d] = group[d] /\ (d \in forgetting' <=> d \in forgetting)
    /\ (AtCommand(d) => cmd' = cmd) /\ (AtCommand(d)' => AtCommand(d))
    /\ (AtTake(d) => take' = take) /\ (AtTake(d)' => AtTake(d))

LEMMA FilesAre ==
  ASSUME IInv, NEW c \in Contents
  PROVE  /\ imported \in [Contents -> Import] /\ files \in [Places -> Contents \union {NoFile, Torn}]
         /\ group \in [Contents -> {"none", "missing", "held", "removed"}]
         /\ cmd \in Sorting \union Undoing \union {None} /\ take \in Taking \union {None}
         /\ forgetting \subseteq Contents /\ doubtful \subseteq Waits
         /\ imported[c] \in Import /\ KnownContent(c) /\ (Place(c) \notin doubtful => Whole(c))
         /\ InGroup(c) \in Places
         /\ State(c) # "none" => Place(c) \in Waits /\ Unsorted(Place(c)) \in Places
         /\ InGroup(c) # Unsorted(Place(c))
<1>1. State(c) # "none" => Place(c) \in Waits
  BY NamesAre DEF IInv, Known, KnownContent
<1> QED BY <1>1, PlacesAre DEF IInv, FilesTyped, Known, AllWhole

LEMMA OneFileEach ==
  ASSUME IInv, NEW c \in Contents, NEW d \in Contents, c # d, State(c) # "none",
         Place(d) \notin doubtful
  PROVE  Unsorted(Place(d)) # Unsorted(Place(c)) /\ Place(d) # Place(c)
<1>1. Place(d) # Place(c)
  BY DEF IInv, Apart
<1> QED BY <1>1, PlacesAre

LEMMA UserStep ==
  ASSUME IInv, NEW c \in Contents, UNCHANGED <<source, refs, jobs, scan, loose>>, Counted',
         FilesTyped', Elsewhere(c),
         Place(c)' = Place(c), imported'[c].from = imported[c].from,
         State(c)' = "none" <=> State(c) = "none",
         AtGroup(c)' \/ c \in forgetting' => State(c) # "none",
         \A x \in Places : files'[x] = files[x] \/ x = InGroup(c)
                           \/ (x = Unsorted(Place(c)) /\ State(c) # "none"),
         doubtful \subseteq doubtful', Place(c) \notin doubtful' => Whole(c)'
  PROVE  IInv'
<1>1. UNCHANGED <<source, refs, jobs, scan, loose>>
  OBVIOUS
<1>2. LedgerTyped' /\ Claims'
  BY <1>1, ClaimsAside DEF IInv, LedgerTyped
<1>3. ASSUME NEW d \in Contents
      PROVE  /\ Place(d)' = Place(d) /\ (State(d)' = "none" <=> State(d) = "none")
             /\ imported'[d].from = imported[d].from
  BY DEF Elsewhere, Place, State
<1>4. ASSUME NEW d \in Contents PROVE KnownContent(d)'
  <2>1. KnownContent(d) /\ (AtGroup(d)' => AtGroup(d) \/ d = c)
        /\ (d \in forgetting' => d \in forgetting \/ d = c)
    BY FilesAre DEF Elsewhere, AtGroup
  <2>2. AtGroup(d)' \/ d \in forgetting' => State(d) # "none"
    BY <2>1 DEF KnownContent
  <2>3. NamedFor(Place(d), imported[d].from)' <=> NamedFor(Place(d), imported[d].from)
    BY <1>3 DEF NamedFor
  <2> QED BY <1>3, <2>1, <2>2, <2>3 DEF KnownContent
<1>5. Known'
  BY <1>1, <1>4 DEF IInv, Known, KnownFetch, InFetch
<1>6. Apart'
  <2>1. ASSUME NEW w \in Workers PROVE Alone(w)'
    BY <1>1, <1>3 DEF IInv, Apart, Alone, Active, InFetch
  <2>2. ASSUME NEW d \in Contents, NEW e \in Contents, d # e, State(d)' # "none", Place(d)' = Place(e)'
        PROVE  Place(d)' \in doubtful'
    BY <1>3, <2>2 DEF IInv, Apart
  <2> QED BY <2>1, <2>2 DEF Apart
<1>7. ASSUME NEW w \in Workers PROVE StagedWell(w)'
  <2>1. StagedWell(w) /\ (InFetch(w)' <=> InFetch(w))
    BY <1>1 DEF IInv, Staged, InFetch
  <2>2. CASE InFetch(w)
    <3>1. jobs[w].place \in Waits
      BY <2>2, JobIs DEF Underway
    <3>2. files'[Part(jobs[w].place)] = files[Part(jobs[w].place)]
      BY <3>1, PlacesAre
    <3>3. jobs[w].step = "keep" /\ jobs[w].place \notin doubtful =>
             files'[Unsorted(jobs[w].place)] = files[Unsorted(jobs[w].place)]
      <4>1. ASSUME jobs[w].step = "keep", jobs[w].place \notin doubtful PROVE Place(c) # jobs[w].place
        BY <2>2, <4>1 DEF IInv, Apart, Alone, Active
      <4> QED BY <3>1, <4>1, PlacesAre
    <3> QED BY <1>1, <2>1, <3>2, <3>3 DEF StagedWell
  <2> QED BY <2>1, <2>2 DEF StagedWell
<1>8. ASSUME NEW d \in Contents, Place(d)' \notin doubtful' PROVE Whole(d)'
  <2>1. CASE d = c
    BY <1>8, <2>1
  <2>2. CASE d # c
    <3>1. Place(d) \notin doubtful /\ Whole(d) /\ imported'[d] = imported[d] /\ group'[d] = group[d]
          /\ Place(d)' = Place(d) /\ State(d)' = State(d)
      BY <1>3, <1>8, <2>2, FilesAre DEF Elsewhere, State
    <3>2. Filed(d)' = Filed(d)
      BY <2>2, PlacesAre DEF Filed
    <3>3. State(d) # "none" => Waiting(d)' = Waiting(d)
      BY <2>2, <3>1, FilesAre, OneFileEach, PlacesAre DEF Waiting
    <3>4. /\ (AtCommand(d)' <=> AtCommand(d)) /\ (AtTake(d)' <=> AtTake(d))
          /\ (AtCommand(d) => cmd' = cmd) /\ (AtTake(d) => take' = take)
          /\ (d \in forgetting' <=> d \in forgetting)
      BY <2>2 DEF Elsewhere, AtCommand, AtTake
    <3> QED BY <3>1, <3>2, <3>3, <3>4 DEF Whole, AtGroup
  <2> QED BY <2>1, <2>2
<1> QED BY <1>2, <1>5, <1>6, <1>7, <1>8 DEF IInv, Staged, AllWhole

(* What a rename and an unlink leave.                                      *)
LEMMA RenamedIs ==
  ASSUME IInv, NEW x \in Places, NEW y \in Places, x # y
  PROVE  /\ Renamed(files, x, y) \in [Places -> Contents \union {NoFile, Torn}]
         /\ Renamed(files, x, y)[y] = files[x] /\ Renamed(files, x, y)[x] = NoFile
         /\ \A z \in Places : z # x /\ z # y => Renamed(files, x, y)[z] = files[z]
         /\ Unlinked(files, x) \in [Places -> Contents \union {NoFile, Torn}]
         /\ Unlinked(files, x)[x] = NoFile
         /\ \A z \in Places : z # x => Unlinked(files, x)[z] = files[z]
  BY DEF IInv, FilesTyped, Renamed, Unlinked

LEMMA MarkedIs ==
  ASSUME IInv, NEW c \in Contents, NEW state \in {"unsorted", "sorted", "dropped"}, Marked(c, state)
  PROVE  /\ imported' \in [Contents -> Import] /\ State(c)' = state /\ Place(c)' = Place(c)
         /\ imported'[c].from = imported[c].from
         /\ \A d \in Contents : d # c => imported'[d] = imported[d]
<1>1. imported \in [Contents -> Import]
  BY DEF IInv, FilesTyped
<1>2. [imported[c] EXCEPT !.state = state] \in Import
  BY <1>1 DEF Import
<1>3. imported' = [imported EXCEPT ![c] = [imported[c] EXCEPT !.state = state]]
  BY DEF Marked
<1> QED BY <1>1, <1>2, <1>3 DEF State, Place, Import

(* What is doubtful is where a content waits.                              *)
LEMMA DoubtIs ==
  ASSUME IInv, NEW c \in Contents, State(c) # "none",
         Doubt({Place(c)}) \/ Doubt({}) \/ Crossed(c) \/ doubtful' = doubtful
  PROVE  /\ doubtful \subseteq doubtful' /\ doubtful' \subseteq Waits
         /\ Crossed(c) /\ Place(c) \notin doubtful' => ~AtTake(c) /\ c \notin forgetting
  BY FilesAre DEF Doubt, Crossed

(* The command under way, and the download.                                *)
LEMMA CommandIs ==
  ASSUME IInv, cmd # None
  PROVE  /\ cmd \in Sorting \union Undoing /\ cmd.c \in Contents /\ AtCommand(cmd.c)
         /\ State(cmd.c) # "none" /\ \A d : AtCommand(d) => d = cmd.c
<1>1. cmd \in Sorting \union Undoing /\ cmd.c \in Contents /\ AtCommand(cmd.c)
  BY DEF IInv, FilesTyped, Sorting, Undoing, AtCommand
<1>2. State(cmd.c) # "none"
  BY <1>1 DEF IInv, Known, KnownContent, AtGroup
<1> QED BY <1>1, <1>2 DEF AtCommand

LEMMA TakeIs ==
  ASSUME IInv, take # None
  PROVE  /\ take \in Taking /\ take.c \in Contents /\ AtTake(take.c)
         /\ State(take.c) # "none" /\ \A d : AtTake(d) => d = take.c
<1>1. take \in Taking /\ take.c \in Contents /\ AtTake(take.c)
  BY DEF IInv, FilesTyped, Taking, AtTake
<1>2. State(take.c) # "none"
  BY <1>1 DEF IInv, Known, KnownContent, AtGroup
<1> QED BY <1>1, <1>2 DEF AtTake

-----------------------------------------------------------------------------
(* The commands, one step at a time.                                       *)
LEMMA MarkingStep ==
  ASSUME IInv, NEW c \in Contents, SettleMissing(c) \/ Drop(c) \/ UndoDrop(c)
  PROVE  /\ IInv' /\ (SettleMissing(c) => Place(c) \in doubtful')
         /\ Drop(c) => IsThere(c) \/ Place(c) \in doubtful'
<1>1. /\ UNCHANGED <<Fetching, files, cmd, take, forgetting, group>> /\ cmd = None /\ Crossed(c)
      /\ Counted'
  BY Counting DEF SettleMissing, Drop, UndoDrop, sides, Fetching, Counted
<1>2. PICK state \in {"unsorted", "sorted", "dropped"} : Marked(c, state)
             /\ (UndoDrop(c) => state = "unsorted")
  BY DEF SettleMissing, Drop, UndoDrop
<1>3. State(c) # "none"
        /\ (State(c) = "unsorted" \/ (UndoDrop(c) /\ State(c) = "dropped" /\ IsThere(c)))
  BY DEF SettleMissing, Drop, UndoDrop
<1>4. /\ doubtful \subseteq doubtful' /\ doubtful' \subseteq Waits
      /\ Place(c) \notin doubtful' => ~AtTake(c) /\ c \notin forgetting /\ ~AtGroup(c) /\ Whole(c)
  BY <1>1, <1>3, DoubtIs, FilesAre DEF AtGroup, AtCommand
<1>5. FilesTyped'
  BY <1>1, <1>2, <1>4, MarkedIs DEF FilesTyped, IInv
<1>6. Elsewhere(c) /\ (AtGroup(c)' \/ c \in forgetting' => State(c) # "none")
  BY <1>1, <1>2, <1>3, MarkedIs DEF Elsewhere, AtCommand, AtTake
<1>7. (SettleMissing(c) => Place(c) \in doubtful') /\ (Drop(c) => IsThere(c) \/ Place(c) \in doubtful')
  <2>1. ASSUME Place(c) \notin doubtful', State(c) = "unsorted" PROVE IsThere(c)
    BY <1>4, <2>1, ConstantsAre DEF Whole, Waiting, IsThere
  <2> QED BY <2>1 DEF SettleMissing, Drop
<1>8. ASSUME Place(c) \notin doubtful' PROVE Whole(c)'
  <2>1. State(c)' = state /\ Place(c)' = Place(c) /\ ~AtGroup(c)' /\ ~AtCommand(c)' /\ ~AtTake(c)'
        /\ c \notin forgetting'
    BY <1>1, <1>2, <1>4, <1>8, MarkedIs DEF AtGroup, AtCommand, AtTake
  <2>2. Filed(c)' = Filed(c) /\ Waiting(c)' = Waiting(c) /\ group' = group
    BY <1>1, <2>1 DEF Filed, Waiting
  <2>3. state = "unsorted" => Waiting(c) = c
    <3>1. (Waiting(c) # NoFile /\ Waiting(c) \in {c, NoFile}) \/ state # "unsorted"
            \/ State(c) = "unsorted"
      BY <1>3, <1>4, <1>8 DEF Whole, Waiting, IsThere
    <3> QED BY <1>4, <1>8, <3>1 DEF Whole
  <2> QED BY <1>3, <1>4, <1>8, <2>1, <2>2, <2>3 DEF Whole
<1>9. IInv'
  BY <1>1, <1>2, <1>3, <1>4, <1>5, <1>6, <1>8, MarkedIs, UserStep DEF Fetching
<1> QED BY <1>7, <1>9

LEMMA BeginStep ==
  ASSUME IInv, NEW c \in Contents, Sort(c) \/ Undo(c)
  PROVE  IInv'
<1> DEFINE u == Unsorted(Place(c))
           g == InGroup(c)
<1>1. /\ UNCHANGED <<Fetching, imported, take, forgetting, group>> /\ cmd = None /\ Crossed(c)
      /\ Counted'
  BY Counting DEF Sort, Undo, Begins, Fetching, Counted
<1>2. State(c) # "none" /\ u \in Places /\ g \in Places /\ u # g
  BY FilesAre DEF Sort, Undo
<1>3. \/ /\ Sort(c) /\ State(c) = "unsorted" /\ files[u] # NoFile
         /\ files' = Renamed(files, u, g) /\ cmd' = [op |-> "sort", c |-> c, step |-> "record"]
      \/ /\ Undo(c) /\ State(c) = "sorted" /\ files[g] # NoFile
         /\ files' = Renamed(files, g, u) /\ cmd' = [op |-> "undo", c |-> c, step |-> "remove"]
  BY DEF Sort, Undo, Begins, IsThere
<1>4. /\ doubtful \subseteq doubtful' /\ doubtful' \subseteq Waits
      /\ Place(c) \notin doubtful' => ~AtTake(c) /\ c \notin forgetting /\ ~AtGroup(c) /\ Whole(c)
  BY <1>1, <1>2, DoubtIs, FilesAre DEF AtGroup, AtCommand
<1>5. cmd' \in Sorting \union Undoing /\ cmd'.c = c /\ (Sort(c) \/ Undo(c)) /\ cmd' # None
  BY <1>3, NoRowIsNone DEF Sorting, Undoing
<1>6. FilesTyped'
  BY <1>1, <1>2, <1>3, <1>4, <1>5, RenamedIs DEF FilesTyped, IInv
<1>7. Place(c)' = Place(c) /\ State(c)' = State(c) /\ AtCommand(c)' /\ (AtTake(c)' <=> AtTake(c))
  BY <1>1, <1>5 DEF Place, State, AtCommand, AtTake
<1>8. Elsewhere(c)
  BY <1>1, <1>5 DEF Elsewhere, AtCommand, AtTake
<1>9. \A x \in Places : files'[x] = files[x] \/ x = g \/ x = u
  BY <1>2, <1>3, RenamedIs
<1>10. ASSUME Place(c) \notin doubtful' PROVE Whole(c)'
  <2>1. Filed(c)' = files'[g] /\ Waiting(c)' = files'[u]
    BY <1>7 DEF Filed, Waiting
  <2>2. CASE cmd' = [op |-> "sort", c |-> c, step |-> "record"]
    <3>1. files[u] = c /\ State(c) = "unsorted" /\ files'[g] = files[u] /\ files'[u] = NoFile
      BY <1>2, <1>3, <1>4, <1>10, <2>2, RenamedIs DEF Whole, Waiting
    <3> QED BY <1>1, <1>4, <1>7, <1>10, <2>1, <2>2, <3>1 DEF Whole, AtGroup
  <2>3. CASE cmd' = [op |-> "undo", c |-> c, step |-> "remove"]
    <3>1. files[g] = c /\ State(c) = "sorted" /\ files'[u] = files[g] /\ files'[g] = NoFile
      BY <1>2, <1>3, <1>4, <1>10, <2>3, RenamedIs DEF Whole, Filed
    <3> QED BY <1>1, <1>4, <1>7, <1>10, <2>1, <2>3, <3>1 DEF Whole, AtGroup
  <2> QED BY <1>3, <2>2, <2>3
<1> HIDE DEF u, g
<1>11. \A x \in Places : files'[x] = files[x] \/ x = InGroup(c)
         \/ (x = Unsorted(Place(c)) /\ State(c) # "none")
  BY <1>2, <1>9 DEF u, g
<1> QED BY <1>1, <1>2, <1>4, <1>6, <1>7, <1>8, <1>10, <1>11, UserStep DEF Fetching

LEMMA CommandStep ==
  ASSUME IInv, SortRecords \/ SortMarks \/ UndoRemoves \/ UndoMarks
  PROVE  IInv'
<1>0. cmd # None
  BY DEF SortRecords, SortMarks, UndoRemoves, UndoMarks, At
<1>c. PICK c \in Contents : c = cmd.c
  BY <1>0, CommandIs
<1>1. cmd # None /\ UNCHANGED <<Fetching, files, take, forgetting>> /\ Crossed(c) /\ Counted'
  BY <1>c, Counting DEF SortRecords, SortMarks, UndoRemoves, UndoMarks, At, Pump, Fetching, Counted
<1>2. c \in Contents /\ AtCommand(c) /\ State(c) # "none" /\ cmd \in Sorting \union Undoing
      /\ \A d : AtCommand(d) => d = c
  BY <1>0, <1>c, CommandIs
<1>3. /\ doubtful \subseteq doubtful' /\ doubtful' \subseteq Waits
      /\ Place(c) \notin doubtful' => ~AtTake(c) /\ c \notin forgetting /\ Whole(c)
  BY <1>1, <1>2, DoubtIs, FilesAre
<1>4. group' \in [Contents -> {"none", "missing", "held", "removed"}]
      /\ \A d \in Contents : d # c => group'[d] = group[d]
  BY <1>2, <1>c, FilesAre DEF SortRecords, SortMarks, UndoRemoves, UndoMarks
<1>5. /\ imported' \in [Contents -> Import] /\ Place(c)' = Place(c)
      /\ imported'[c].from = imported[c].from /\ (State(c)' = "none" <=> State(c) = "none")
      /\ \A d \in Contents : d # c => imported'[d] = imported[d]
  <2>1. CASE imported' = imported
    BY <1>2, <2>1, FilesAre DEF Place, State
  <2>2. CASE \E state \in {"unsorted", "sorted"} : Marked(c, state)
    BY <1>2, <2>2, MarkedIs
  <2> QED BY <1>c, <2>1, <2>2 DEF SortRecords, SortMarks, UndoRemoves, UndoMarks
<1>6. \/ cmd' = None
      \/ cmd' \in Sorting \union Undoing /\ cmd'.c = c /\ cmd' = [cmd EXCEPT !.step = "mark"]
  <2>1. CASE SortRecords
    BY <1>2, <1>c, <2>1 DEF SortRecords, At, GoesOn, Sorting, Undoing
  <2>2. CASE UndoRemoves
    BY <1>2, <1>c, <2>2 DEF UndoRemoves, At, GoesOn, Sorting, Undoing
  <2> QED BY <2>1, <2>2 DEF SortMarks, UndoMarks, Ends
<1>7. FilesTyped'
  BY <1>1, <1>3, <1>4, <1>5, <1>6 DEF FilesTyped, IInv
<1>8. Elsewhere(c)
  BY <1>1, <1>2, <1>4, <1>5, <1>6 DEF Elsewhere, AtCommand, AtTake
<1>9. ASSUME Place(c) \notin doubtful' PROVE Whole(c)'
  <2>1. Filed(c)' = Filed(c) /\ Waiting(c)' = Waiting(c) /\ ~AtTake(c)' /\ c \notin forgetting'
    BY <1>1, <1>3, <1>5, <1>9 DEF Filed, Waiting, AtTake
  <2>2. CASE SortRecords
    <3>1. cmd.op = "sort" /\ imported' = imported /\ cmd' = [cmd EXCEPT !.step = "mark"]
            /\ cmd'.op = "sort"
      BY <1>2, <2>2 DEF SortRecords, At, GoesOn, Sorting, Undoing
    <3>2. AtCommand(c)'
      BY <1>2, <1>6, <3>1, NoRowIsNone DEF AtCommand, Sorting, Undoing
    <3> QED BY <1>2, <1>3, <1>9, <2>1, <3>1, <3>2 DEF Whole, State, AtGroup
  <2>3. CASE SortMarks
    <3>1. cmd.op = "sort" /\ cmd' = None /\ group' = group /\ ~AtGroup(c)' /\ ~AtCommand(c)'
      BY <2>1, <2>3 DEF SortMarks, At, Ends, AtGroup, AtCommand
    <3>2. State(c) = "unsorted" /\ Filed(c) = c /\ State(c)' = "sorted"
      <4>1. State(c) = "unsorted" /\ Filed(c) = c
        BY <1>2, <1>3, <1>9, <3>1 DEF Whole
      <4>2. Marked(c, "sorted")
        BY <1>c, <2>3, <4>1 DEF SortMarks
      <4> QED BY <1>2, <4>1, <4>2, MarkedIs
    <3> QED BY <1>2, <1>3, <1>9, <2>1, <3>1, <3>2 DEF Whole
  <2>4. CASE UndoRemoves
    <3>1. cmd.op = "undo" /\ imported' = imported /\ cmd' = [cmd EXCEPT !.step = "mark"]
            /\ cmd'.op = "undo"
      BY <1>2, <2>4 DEF UndoRemoves, At, GoesOn, Sorting, Undoing
    <3>2. AtCommand(c)'
      BY <1>2, <1>6, <3>1, NoRowIsNone DEF AtCommand, Sorting, Undoing
    <3>3. group'[c] # "held"
      BY <1>2, <1>c, <2>4, FilesAre DEF UndoRemoves, InRow
    <3> QED BY <1>2, <1>3, <1>9, <2>1, <3>1, <3>2, <3>3 DEF Whole, State, AtGroup
  <2>5. CASE UndoMarks
    <3>1. cmd.op = "undo" /\ cmd.step = "mark" /\ cmd' = None /\ group' = group /\ ~AtGroup(c)'
            /\ ~AtCommand(c)'
      BY <2>1, <2>5 DEF UndoMarks, At, Ends, AtGroup, AtCommand
    <3>2. Waiting(c) = c /\ group[c] # "held" /\ State(c)' = "unsorted"
      BY <1>2, <1>3, <1>9, <1>c, <2>5, <3>1, MarkedIs DEF Whole, UndoMarks
    <3> QED BY <1>2, <1>3, <1>9, <2>1, <3>1, <3>2 DEF Whole
  <2> QED BY <2>2, <2>3, <2>4, <2>5
<1> QED BY <1>1, <1>2, <1>3, <1>5, <1>7, <1>8, <1>9, UserStep DEF Fetching

LEMMA KillStep ==
  ASSUME IInv, KillCommand
  PROVE  IInv'
<1>1. /\ UNCHANGED <<source, refs, imported, files, jobs, scan, take, forgetting, group, loose>>
      /\ cmd # None /\ cmd' = None /\ Doubt({Place(cmd.c)}) /\ Counted'
  BY Counting DEF KillCommand, ledger, Ends, Counted
<1>2. PICK c \in Contents : c = cmd.c
  BY <1>1, CommandIs
<1>3. State(c) # "none" /\ \A d : AtCommand(d) => d = c
  BY <1>1, <1>2, CommandIs
<1>4. doubtful \subseteq doubtful' /\ doubtful' \subseteq Waits /\ Place(c) \in doubtful'
  BY <1>1, <1>2, <1>3, DoubtIs DEF Doubt
<1>5. FilesTyped'
  BY <1>1, <1>4 DEF FilesTyped, IInv
<1>6. Elsewhere(c) /\ Place(c)' = Place(c) /\ State(c)' = State(c)
  BY <1>1, <1>3 DEF Elsewhere, AtCommand, AtTake, Place, State
<1> QED BY <1>1, <1>3, <1>4, <1>5, <1>6, UserStep

LEMMA ForgetStep ==
  ASSUME IInv, NEW c \in Contents, ForgetReads(c) \/ ForgetDeletes(c)
  PROVE  IInv'
<1>1. /\ UNCHANGED <<source, refs, jobs, scan, loose, imported, cmd, take, group, doubtful>> /\ Counted'
      /\ \A d \in Contents : d # c => (d \in forgetting' <=> d \in forgetting)
      /\ forgetting' \subseteq Contents
  BY Counting, FilesAre DEF ForgetReads, ForgetDeletes, Pump, Fetching, Counted
<1>2. State(c) # "none" /\ (ForgetDeletes(c) => c \in forgetting)
  BY FilesAre DEF ForgetReads, ForgetDeletes, KnownContent
<1>3. /\ files' \in [Places -> Contents \union {NoFile, Torn}]
      /\ files' = files \/ (ForgetDeletes(c) /\ files'[Unsorted(Place(c))] = NoFile)
      /\ \A x \in Places : files'[x] = files[x] \/ x = Unsorted(Place(c))
  <2>1. CASE ForgetReads(c)
    BY <2>1, FilesAre DEF ForgetReads
  <2>2. CASE ForgetDeletes(c)
    <3>1. Unsorted(Place(c)) \in Places /\ InGroup(c) \in Places /\ Unsorted(Place(c)) # InGroup(c)
      BY <1>2, FilesAre
    <3> QED BY <2>2, <3>1, RenamedIs DEF ForgetDeletes
  <2> QED BY <2>1, <2>2
<1>4. FilesTyped'
  BY <1>1, <1>3 DEF FilesTyped, IInv
<1>5. Elsewhere(c) /\ Place(c)' = Place(c) /\ State(c)' = State(c)
  BY <1>1 DEF Elsewhere, AtCommand, AtTake, Place, State
<1>6. ASSUME Place(c) \notin doubtful' PROVE Whole(c)'
  <2>1. Whole(c)
    BY <1>1, <1>6, FilesAre
  <2>2. State(c) = "dropped" /\ ~AtCommand(c) /\ ~AtTake(c)
    <3>1. ForgetDeletes(c) => c \in forgetting
      BY <1>2
    <3>2. AtCommand(c) => cmd.op = "sort" \/ cmd.op = "undo"
      BY FilesAre DEF AtCommand, Sorting, Undoing
    <3>3. ForgetReads(c) => State(c) = "dropped"
      BY DEF ForgetReads
    <3> QED BY <2>1, <3>1, <3>2, <3>3 DEF Whole, AtGroup
  <2>3. Filed(c)' = Filed(c) /\ (Waiting(c)' = Waiting(c) \/ Waiting(c)' = NoFile)
    BY <1>3, <1>5, FilesAre DEF Filed, Waiting
  <2>4. ~AtCommand(c)' /\ ~AtTake(c)' /\ group' = group
    BY <1>1, <2>2 DEF AtCommand, AtTake
  <2> QED BY <1>2, <1>5, <2>1, <2>2, <2>3, <2>4 DEF Whole, AtGroup
<1>7. AtGroup(c)' \/ c \in forgetting' => State(c) # "none"
  BY <1>2
<1>8. \A x \in Places : files'[x] = files[x] \/ x = InGroup(c)
        \/ (x = Unsorted(Place(c)) /\ State(c) # "none")
  BY <1>2, <1>3
<1> QED BY <1>1, <1>4, <1>5, <1>6, <1>7, <1>8, UserStep

(* The download that finds its bytes among the imports.                    *)
LEMMA TakeStep ==
  ASSUME IInv, NEW c \in Contents, Take(c)
  PROVE  IInv'
<1> DEFINE u == Unsorted(Place(c))
           g == InGroup(c)
<1>1. /\ UNCHANGED <<source, refs, jobs, scan, loose, imported, cmd, forgetting, group>> /\ Counted'
      /\ take = None /\ State(c) = "unsorted" /\ take' = [op |-> "take", c |-> c, step |-> "mark"]
      /\ files' = Renamed(files, u, g)
      /\ Doubt(IF AtCommand(c) \/ c \in forgetting THEN {Place(c)} ELSE {})
  BY Counting DEF Take, Pump, Fetching, Counted
<1>2. u \in Places /\ g \in Places /\ u # g
  BY <1>1, FilesAre
<1>3. /\ doubtful \subseteq doubtful' /\ doubtful' \subseteq Waits
      /\ Place(c) \notin doubtful' => ~AtCommand(c) /\ c \notin forgetting /\ ~AtGroup(c) /\ Whole(c)
  BY <1>1, FilesAre DEF Doubt, AtGroup, AtTake
<1>4. take' \in Taking /\ take'.c = c /\ take'.step = "mark" /\ take' # None
  BY <1>1, NoRowIsNone DEF Taking
<1>5. FilesTyped'
  BY <1>1, <1>2, <1>3, <1>4, RenamedIs DEF FilesTyped, IInv
<1>6. Elsewhere(c) /\ Place(c)' = Place(c) /\ State(c)' = State(c)
  BY <1>1, <1>4 DEF Elsewhere, AtCommand, AtTake, Place, State
<1>7. ASSUME Place(c) \notin doubtful' PROVE Whole(c)'
  <2>1. files[u] = c /\ files'[g] = files[u] /\ files'[u] = NoFile
    BY <1>1, <1>2, <1>3, <1>7, RenamedIs DEF Whole, Waiting
  <2>2. Filed(c)' = c /\ Waiting(c)' = NoFile
    BY <1>6, <2>1 DEF Filed, Waiting
  <2>3. AtTake(c)' /\ ~AtCommand(c)' /\ AtGroup(c)' /\ c \notin forgetting'
    BY <1>1, <1>3, <1>4, <1>7 DEF AtTake, AtCommand, AtGroup
  <2> QED BY <1>1, <1>4, <1>6, <2>2, <2>3 DEF Whole
<1>8. \A x \in Places : files'[x] = files[x] \/ x = g \/ x = u
  BY <1>1, <1>2, RenamedIs
<1>9. \A x \in Places : files'[x] = files[x] \/ x = InGroup(c)
        \/ (x = Unsorted(Place(c)) /\ State(c) # "none")
  BY <1>1, <1>8
<1> HIDE DEF u, g
<1> QED BY <1>1, <1>3, <1>5, <1>6, <1>7, <1>9, UserStep

LEMMA TakenStep ==
  ASSUME IInv, TakeMarks \/ TakeHolds
  PROVE  IInv'
<1>1. /\ UNCHANGED <<source, refs, jobs, scan, loose, files, cmd, forgetting, doubtful>> /\ Counted'
      /\ take # None
  BY Counting DEF TakeMarks, TakeHolds, Pump, Fetching, Counted
<1>2. PICK c \in Contents : c = take.c
  BY <1>1, TakeIs
<1>3. AtTake(c) /\ State(c) # "none" /\ take \in Taking /\ \A d : AtTake(d) => d = c
  BY <1>1, <1>2, TakeIs
<1>4. /\ imported' \in [Contents -> Import] /\ Place(c)' = Place(c)
      /\ imported'[c].from = imported[c].from /\ (State(c)' = "none" <=> State(c) = "none")
      /\ \A d \in Contents : d # c => imported'[d] = imported[d]
  <2>1. CASE imported' = imported
    BY <2>1, FilesAre DEF Place, State
  <2>2. CASE Marked(c, "sorted")
    BY <1>3, <2>2, MarkedIs
  <2> QED BY <1>2, <2>1, <2>2 DEF TakeMarks, TakeHolds
<1>5. /\ group' \in [Contents -> {"none", "missing", "held", "removed"}]
      /\ \A d \in Contents : d # c => group'[d] = group[d]
  BY <1>2, FilesAre DEF TakeMarks, TakeHolds
<1>6. take' = None \/ (take' \in Taking /\ take'.c = c)
  BY <1>2, <1>3 DEF TakeMarks, TakeHolds, Taking
<1>7. FilesTyped'
  BY <1>1, <1>4, <1>5, <1>6 DEF FilesTyped, IInv
<1>8. Elsewhere(c)
  BY <1>1, <1>3, <1>4, <1>5, <1>6 DEF Elsewhere, AtCommand, AtTake
<1>9. ASSUME Place(c) \notin doubtful' PROVE Whole(c)'
  <2>1. Whole(c) /\ Filed(c) = c /\ ~AtCommand(c) /\ c \notin forgetting
    <3>1. Whole(c)
      BY <1>1, <1>9, <1>4, FilesAre
    <3> QED BY <1>3, <3>1 DEF Whole, AtGroup
  <2>2. Filed(c)' = Filed(c) /\ Waiting(c)' = Waiting(c) /\ ~AtCommand(c)' /\ c \notin forgetting'
    BY <1>1, <1>4, <2>1 DEF Filed, Waiting, AtCommand
  <2>3. CASE TakeMarks
    <3>1. State(c) = "unsorted"
      BY <1>3, <2>1, <2>3 DEF Whole, TakeMarks
    <3>2. Marked(c, "sorted") /\ take' = [take EXCEPT !.step = "held"]
      BY <1>2, <2>3, <3>1 DEF TakeMarks
    <3>3. State(c)' = "sorted"
      BY <3>2, MarkedIs
    <3>4. AtTake(c)' /\ take'.step = "held"
      BY <1>2, <1>3, <3>2, NoRowIsNone DEF Taking, AtTake
    <3> QED BY <1>3, <2>1, <2>2, <3>3, <3>4 DEF Whole, AtGroup
  <2>4. CASE TakeHolds
    <3>1. State(c) = "sorted" /\ imported' = imported /\ take' = None
      BY <1>3, <2>1, <2>4 DEF Whole, TakeHolds
    <3>2. State(c)' = "sorted" /\ ~AtTake(c)'
      BY <3>1 DEF State, AtTake
    <3> QED BY <1>3, <2>1, <2>2, <3>2 DEF Whole, AtGroup
  <2> QED BY <2>3, <2>4
<1>10. doubtful' = doubtful /\ \A x \in Places : files'[x] = files[x]
  BY <1>1
<1> QED BY <1>1, <1>3, <1>4, <1>7, <1>8, <1>9, <1>10, UserStep

LEMMA GroupStep ==
  ASSUME IInv, NEW c \in Contents, GroupChanges(c)
  PROVE  IInv'
<1> DEFINE g == InGroup(c)
<1>1. /\ UNCHANGED <<source, refs, imported, jobs, scan, loose, cmd, take, forgetting, doubtful>>
           /\ Counted'
      /\ ~AtGroup(c) /\ g \in Places
  BY Counting, FilesAre DEF GroupChanges, ledger, Counted
<1>2. \/ group' = [group EXCEPT ![c] = "missing"] /\ files' = files
      \/ group' = [group EXCEPT ![c] = "held"] /\ files' = [files EXCEPT ![g] = c]
      \/ group' = [group EXCEPT ![c] = "removed"] /\ files' = Unlinked(files, g)
  BY DEF GroupChanges
<1>3. /\ files' \in [Places -> Contents \union {NoFile, Torn}]
      /\ group' \in [Contents -> {"none", "missing", "held", "removed"}]
      /\ \A x \in Places : x # g => files'[x] = files[x]
      /\ \A d \in Contents : d # c => group'[d] = group[d]
      /\ \/ group'[c] = "missing" /\ files'[g] = files[g]
         \/ group'[c] = "held" /\ files'[g] = c
         \/ group'[c] = "removed" /\ files'[g] = NoFile
  BY <1>1, <1>2, FilesAre DEF Unlinked
<1>4. FilesTyped'
  BY <1>1, <1>3 DEF FilesTyped, IInv
<1>5. Elsewhere(c) /\ Place(c)' = Place(c) /\ State(c)' = State(c)
        /\ imported'[c].from = imported[c].from
      /\ (AtGroup(c)' <=> AtGroup(c)) /\ (AtCommand(c)' <=> AtCommand(c)) /\ (AtTake(c)' <=> AtTake(c))
  BY <1>1, <1>3 DEF Elsewhere, AtCommand, AtTake, AtGroup, Place, State
<1>6. ASSUME Place(c) \notin doubtful' PROVE Whole(c)'
  <2>1. Whole(c)
    BY <1>1, <1>6, FilesAre
  <2>2. Filed(c)' = files'[g] /\ Filed(c) = files[g]
    BY DEF Filed
  <2>3. State(c) # "none" => Waiting(c)' = Waiting(c)
    BY <1>3, <1>5, FilesAre DEF Waiting
  <2> QED BY <1>1, <1>3, <1>5, <2>1, <2>2, <2>3 DEF Whole, AtGroup
<1>7. AtGroup(c)' \/ c \in forgetting' => State(c) # "none"
  BY <1>1, <1>5, FilesAre DEF KnownContent
<1>8. \A x \in Places : files'[x] = files[x] \/ x = InGroup(c)
        \/ (x = Unsorted(Place(c)) /\ State(c) # "none")
  BY <1>3
<1> HIDE DEF g
<1> QED BY <1>1, <1>4, <1>5, <1>6, <1>7, <1>8, UserStep

-----------------------------------------------------------------------------
(* The fetches.  A step of one of them is at one place, and whoever else   *)
(* fetches to that place makes it doubtful.                                *)
Followed(v, p) ==
  \/ jobs'[v] = jobs[v]
  \/ /\ jobs[v].step = "open" /\ jobs[v].at = Part(p)
     /\ \E y \in {Nowhere, Unsorted(p)} : jobs'[v] = [jobs[v] EXCEPT !.at = y]

LEMMA FollowedIs ==
  ASSUME IInv, NEW v \in Workers, NEW p \in Waits, Followed(v, p)
  PROVE  /\ jobs'[v] \in Resting \union Underway /\ Fewer(v)
         /\ (InFetch(v)' <=> InFetch(v)) /\ (Active(v)' <=> Active(v))
         /\ jobs'[v].step = jobs[v].step /\ Claimed(v)' = Claimed(v)
         /\ InFetch(v) => /\ jobs'[v].place = jobs[v].place /\ jobs'[v].ref = jobs[v].ref
                          /\ jobs'[v].got = jobs[v].got
<1>1. CASE jobs'[v] = jobs[v]
  BY <1>1, JobIs DEF Fewer, InFetch, Active, Claimed
<1>2. CASE \E y \in {Nowhere, Unsorted(p)} : jobs'[v] = [jobs[v] EXCEPT !.at = y]
             /\ jobs[v].step = "open"
  <2>1. PICK y \in {Nowhere, Unsorted(p)} : jobs'[v] = [jobs[v] EXCEPT !.at = y]
               /\ jobs[v].step = "open"
    BY <1>2
  <2>2. jobs[v] \in Underway /\ y \in Places \union {Nowhere}
    BY <2>1, JobIs, PlacesAre DEF InFetch
  <2>3. /\ jobs'[v] \in Underway /\ jobs'[v].step = jobs[v].step /\ jobs'[v].queue = jobs[v].queue
        /\ jobs'[v].place = jobs[v].place /\ jobs'[v].ref = jobs[v].ref /\ jobs'[v].got = jobs[v].got
    BY <2>1, <2>2 DEF Underway
  <2> QED BY <2>3 DEF Fewer, InFetch, Active, Claimed
<1> QED BY <1>1, <1>2 DEF Followed

LEMMA FetchStep ==
  ASSUME IInv, NEW w \in Workers, NEW p \in Waits, LedgerTyped', Claims', Counted',
         UNCHANGED <<imported, sides>>, doubtful \subseteq doubtful', doubtful' \subseteq Waits,
         files' \in [Places -> Contents \union {NoFile, Torn}],
         \A x \in Places : files'[x] = files[x] \/ x = Part(p)
                           \/ (x = Unsorted(p) /\ Active(w) /\ jobs[w].place = p),
         \A v \in Workers : v # w => Followed(v, p)
           /\ (Active(v) /\ jobs[v].place = p => p \in doubtful'),
         KnownFetch(w)', StagedWell(w)',
         Active(w)' => /\ jobs'[w].place = p
                       /\ \A c \in Contents : Place(c) = p => p \in doubtful'
  PROVE  IInv'
<1>1. UNCHANGED <<cmd, take, forgetting, group>> /\ \A c : Place(c)' = Place(c) /\ State(c)' = State(c)
  BY DEF sides, Place, State
<1>2. FilesTyped'
  BY <1>1 DEF FilesTyped, IInv
<1>3. ASSUME NEW v \in Workers, v # w
      PROVE  /\ (InFetch(v)' <=> InFetch(v)) /\ (Active(v)' <=> Active(v))
                  /\ jobs'[v].step = jobs[v].step
             /\ InFetch(v) => /\ jobs'[v].place = jobs[v].place /\ jobs'[v].ref = jobs[v].ref
                              /\ jobs'[v].got = jobs[v].got
  BY <1>3, FollowedIs
<1>4. Known'
  <2>1. ASSUME NEW c \in Contents PROVE KnownContent(c)'
    BY <1>1 DEF IInv, Known, KnownContent, AtGroup, AtCommand, AtTake
  <2>2. ASSUME NEW v \in Workers, v # w PROVE KnownFetch(v)'
    BY <1>3, <2>2 DEF IInv, Known, KnownFetch, NamedFor
  <2> QED BY <2>1, <2>2 DEF Known
<1>5. Apart'
  <2>1. ASSUME NEW v \in Workers, v # w PROVE Alone(v)'
    <3>1. CASE Active(v) /\ jobs[v].place \notin doubtful'
      <4>1. jobs'[v].place = jobs[v].place /\ jobs[v].place # p /\ Alone(v)
              /\ jobs[v].place \notin doubtful
        BY <1>3, <2>1, <3>1 DEF Active, IInv, Apart
      <4>2. \A c \in Contents : Place(c) # jobs[v].place
        BY <3>1, <4>1 DEF Alone
      <4>3. ASSUME NEW u \in Workers, u # v, Active(u)' PROVE jobs'[u].place # jobs[v].place
        <5>1. CASE u = w
          BY <4>1, <4>3, <5>1
        <5>2. CASE u # w
          BY <1>3, <3>1, <4>1, <4>3, <5>2 DEF Alone, Active
        <5> QED BY <5>1, <5>2
      <4> QED BY <1>1, <4>1, <4>2, <4>3 DEF Alone
    <3>2. CASE ~(Active(v) /\ jobs[v].place \notin doubtful')
      BY <1>3, <2>1, <3>2 DEF Alone, Active
    <3> QED BY <3>1, <3>2
  <2>2. Alone(w)'
    <3>1. ASSUME Active(w)', p \notin doubtful', NEW v \in Workers, v # w, Active(v)'
          PROVE  jobs'[v].place # p
      BY <1>3, <3>1 DEF Active
    <3> QED BY <1>1, <3>1 DEF Alone
  <2>3. ASSUME NEW c \in Contents, NEW d \in Contents, c # d, State(c) # "none", Place(c) = Place(d)
        PROVE  Place(c) \in doubtful'
    BY <2>3 DEF IInv, Apart
  <2> QED BY <1>1, <2>1, <2>2, <2>3 DEF Apart
<1>6. ASSUME NEW v \in Workers, v # w PROVE StagedWell(v)'
  <2>1. CASE InFetch(v)
    <3>1. /\ jobs[v] \in Underway /\ StagedWell(v) /\ jobs[v].place \in Waits
          /\ jobs'[v].place = jobs[v].place /\ jobs'[v].step = jobs[v].step
               /\ jobs'[v].got = jobs[v].got
      BY <1>3, <1>6, <2>1, JobIs DEF IInv, Staged, Underway
    <3>2. /\ jobs'[v].at \in {Nowhere, Part(jobs[v].place), Unsorted(jobs[v].place)}
          /\ jobs[v].step # "open" => jobs'[v].at = Nowhere
          /\ jobs[v].place # p => jobs'[v].at = jobs[v].at
      <4>1. CASE jobs'[v] = jobs[v]
        BY <2>1, <3>1, <4>1 DEF StagedWell
      <4>2. CASE jobs'[v] # jobs[v]
        <5>1. /\ jobs[v].step = "open" /\ jobs[v].at = Part(p)
              /\ \E y \in {Nowhere, Unsorted(p)} : jobs'[v] = [jobs[v] EXCEPT !.at = y]
          BY <1>6, <4>2 DEF Followed
        <5>2. jobs'[v].at \in {Nowhere, Unsorted(p)}
          BY <3>1, <5>1 DEF Underway
        <5>3. jobs[v].place = p
          BY <2>1, <3>1, <5>1, PlacesAre DEF StagedWell
        <5> QED BY <5>1, <5>2, <5>3
      <4> QED BY <4>1, <4>2
    <3>3. ASSUME jobs[v].place \notin doubtful', jobs[v].step # "settle"
          PROVE  /\ jobs[v].place \notin doubtful /\ jobs[v].place # p
                 /\ files'[Part(jobs[v].place)] = files[Part(jobs[v].place)]
                 /\ files'[Unsorted(jobs[v].place)] = files[Unsorted(jobs[v].place)]
      <4>1. jobs[v].place \notin doubtful /\ jobs[v].place # p
        BY <1>6, <2>1, <3>3 DEF Active
      <4> QED BY <3>1, <4>1, PlacesAre
    <3> QED BY <2>1, <3>1, <3>2, <3>3 DEF StagedWell
  <2>2. CASE ~InFetch(v)
    BY <1>3, <1>6, <2>2 DEF StagedWell
  <2> QED BY <2>1, <2>2
<1>7. ASSUME NEW c \in Contents, Place(c) \notin doubtful' PROVE Whole(c)'
  <2>1. Whole(c) /\ Place(c) \notin doubtful
    BY <1>7, FilesAre
  <2>2. Filed(c)' = Filed(c)
    BY PlacesAre DEF Filed
  <2>3. State(c) # "none" => Waiting(c)' = Waiting(c)
    <3>1. ASSUME State(c) # "none" PROVE files'[Unsorted(Place(c))] = files[Unsorted(Place(c))]
      <4>1. Place(c) \in Waits /\ Unsorted(Place(c)) \in Places
        BY <3>1, FilesAre
      <4>2. ~(Place(c) = p /\ Active(w) /\ jobs[w].place = p)
        BY <2>1 DEF IInv, Apart, Alone
      <4> QED BY <4>1, <4>2, PlacesAre
    <3> QED BY <1>1, <3>1 DEF Waiting
  <2> QED BY <1>1, <2>1, <2>2, <2>3 DEF Whole, AtGroup, AtCommand, AtTake
<1> QED BY <1>1, <1>2, <1>4, <1>5, <1>6, <1>7 DEF IInv, Staged, AllWhole

(* The other workers' open files follow a rename, and so stay claimed.     *)
LEMMA FollowIs ==
  ASSUME IInv, NEW w \in Workers, NEW p \in Waits, NEW y \in {Nowhere, Unsorted(p)},
         NEW j \in Resting \union Underway,
         \/ jobs' = [jobs EXCEPT ![w] = j]
         \/ jobs' = [Follow(jobs, Part(p), y) EXCEPT ![w] = j]
         \/ /\ jobs' = Follow([jobs EXCEPT ![w] = j], Part(p), y)
            /\ ~(j.step = "open" /\ j.at = Part(p))
  PROVE  /\ jobs'[w] = j /\ jobs' = [v \in Workers |-> jobs'[v]]
         /\ \A v \in Workers : v # w => Followed(v, p)
<1>1. jobs \in [Workers -> Resting \union Underway]
  BY DEF IInv, LedgerTyped
<1>2. CASE jobs' = [jobs EXCEPT ![w] = j]
  BY <1>1, <1>2 DEF Followed
<1>3. CASE jobs' = [Follow(jobs, Part(p), y) EXCEPT ![w] = j]
  BY <1>1, <1>3 DEF Followed, Follow
<1>4. CASE /\ jobs' = Follow([jobs EXCEPT ![w] = j], Part(p), y)
           /\ ~(j.step = "open" /\ j.at = Part(p))
  BY <1>1, <1>4 DEF Followed, Follow
<1> QED BY <1>2, <1>3, <1>4

LEMMA FetchClaims ==
  ASSUME IInv, NEW w \in Workers, NEW p \in Waits, jobs' = [v \in Workers |-> jobs'[v]],
         jobs'[w] \in Resting \union Underway, Fewer(w),
         \A v \in Workers : v # w => Followed(v, p),
         UNCHANGED <<source, scan>>, refs' \in [Refs -> Row \union {NoRow}], loose' \subseteq Refs,
         loose \subseteq loose',
         \A r \in Refs : \/ r \in loose' \/ (\A v \in Workers : r \notin Claimed(v)')
                         \/ ~Leased(r) \/ Leased(r)'
  PROVE  LedgerTyped' /\ Claims'
<1>1. \A v \in Workers : Fewer(v) /\ jobs'[v] \in Resting \union Underway
  BY FollowedIs
<1>2. LedgerTyped'
  BY <1>1 DEF IInv, LedgerTyped
<1>3. ASSUME NEW v \in Workers, NEW r \in Claimed(v)' PROVE r \in Refs
  <2>1. r \in Claimed(v)
    BY <1>1, <1>3, FewerClaims
  <2> QED BY <2>1, JobIs, ClaimedIs DEF Underway, Queues
<1>4. Claims'
  BY <1>1, <1>3, ClaimsShrink
<1> QED BY <1>2, <1>4

LEMMA OpenStep ==
  ASSUME IInv, NEW w \in Workers, NEW q \in jobs[w].queue, Open(w, q)
  PROVE  IInv'
<1>1. q \in Refs \X Promises /\ jobs[w].queue \in Queues /\ jobs[w].step = "picking"
  BY JobIs DEF Queues, Open
<1>2. PICK r \in Refs : r = q[1]
  BY <1>1
<1>3. PICK p \in Waits :
        /\ p = IF NameTaken(r) THEN <<NameOf[r], r>> ELSE <<NameOf[r]>>
        /\ NamedFor(p, r)
  BY NamesAre DEF NamedFor
<1>4. PICK shared \in BOOLEAN :
        shared <=> \/ \E v \in Workers \ {w} :
                        jobs[v].step \notin {"picking", "ending", "settle"} /\ jobs[v].place = p
                   \/ \E c \in Contents : /\ Place(c) = p
                                          /\ State(c) # "unsorted" \/ imported[c].from = r
  OBVIOUS
<1> DEFINE j == [step |-> "open", queue |-> jobs[w].queue \ {q}, ref |-> r,
                 promise |-> q[2], place |-> p, at |-> Part(p), got |-> 0]
<1>5. /\ files' = [files EXCEPT ![Part(p)] = Torn]
      /\ jobs' = [Follow(jobs, Part(p), Nowhere) EXCEPT ![w] = j]
      /\ UNCHANGED <<source, refs, imported, scan, sides, loose>> /\ Counted'
      /\ Doubt(IF shared THEN {p} ELSE {})
  BY <1>2, <1>3, <1>4, Counting DEF Open, ledger, Counted
<1>6. j \in Underway /\ j.queue \subseteq jobs[w].queue /\ j.ref = r /\ j.step = "open"
      /\ j.place = p /\ j.at = Part(p) /\ q \notin j.queue
  BY <1>1, PlacesAre DEF Underway, Queues, Promises
<1> HIDE DEF j
<1>7. /\ jobs'[w] = j /\ jobs' = [v \in Workers |-> jobs'[v]]
      /\ \A v \in Workers : v # w => Followed(v, p)
  BY <1>5, <1>6, FollowIs
<1>8. Fewer(w) /\ ~Active(w)
  BY <1>1, <1>2, <1>6, <1>7 DEF Fewer, Active, InFetch
<1>9. LedgerTyped' /\ Claims'
  BY <1>5, <1>6, <1>7, <1>8, ScanIs, FetchClaims DEF Leased
<1>10. doubtful \subseteq doubtful' /\ doubtful' \subseteq Waits /\ (shared => p \in doubtful')
  BY <1>5 DEF Doubt, IInv, FilesTyped
<1>11. ASSUME NEW v \in Workers, v # w, Active(v), jobs[v].place = p PROVE p \in doubtful'
  BY <1>4, <1>10, <1>11 DEF Active, InFetch
<1>12. ASSUME NEW c \in Contents, Place(c) = p PROVE p \in doubtful'
  <2>1. State(c) # "none" /\ NamedFor(p, imported[c].from) /\ imported[c].from \in Refs
    BY <1>12, NamesAre, FilesAre DEF KnownContent
  <2>2. CASE NameTaken(r)
    <3>1. imported[c].from = r
      BY <1>3, <2>1, <2>2, NamesAre DEF NamedFor
    <3> QED BY <1>4, <1>10, <1>12, <3>1
  <2>3. CASE ~NameTaken(r)
    <3>1. State(c) # "unsorted" \/ imported[c].from = r
      BY <1>3, <1>12, <2>3 DEF NameTaken
    <3> QED BY <1>4, <1>10, <1>12, <3>1
  <2> QED BY <2>2, <2>3
<1>13. KnownFetch(w)' /\ StagedWell(w)'
  BY <1>3, <1>6, <1>7 DEF KnownFetch, StagedWell, NamedFor
<1>14. /\ files' \in [Places -> Contents \union {NoFile, Torn}]
       /\ \A x \in Places : files'[x] = files[x] \/ x = Part(p)
  BY <1>5, PlacesAre DEF IInv, FilesTyped
<1>15. jobs'[w].place = p /\ UNCHANGED <<imported, sides>> /\ Counted'
  BY <1>5, <1>6, <1>7
<1> QED BY <1>7, <1>9, <1>10, <1>11, <1>12, <1>13, <1>14, <1>15, FetchStep

(* A fetch that comes to nothing: what it staged is unlinked.              *)
LEMMA DiscardsStep ==
  ASSUME IInv, NEW w \in Workers, FetchBreaks(w) \/ FetchFindsGone(w)
  PROVE  IInv'
<1>1. jobs[w] \in Underway /\ jobs[w].step = "open" /\ jobs[w].queue \in Queues
  BY JobIs DEF FetchBreaks, FetchFindsGone, InFetch
<1>2. PICK p \in Waits : p = jobs[w].place
  BY <1>1 DEF Underway
<1>3. PICK j \in Resting : j = Picking(jobs[w].queue) /\ j.queue = jobs[w].queue /\ j.step = "picking"
  <2>1. /\ Picking(jobs[w].queue) \in Resting /\ Picking(jobs[w].queue).queue = jobs[w].queue
        /\ Picking(jobs[w].queue).step = "picking"
    BY <1>1 DEF Picking, Resting
  <2> QED BY <2>1
<1>4. /\ files' = Unlinked(files, Part(p)) /\ jobs' = Follow([jobs EXCEPT ![w] = j], Part(p), Nowhere)
      /\ UNCHANGED <<source, imported, scan, sides, doubtful>> /\ Counted'
  BY <1>2, <1>3, Counting DEF FetchBreaks, FetchFindsGone, Discards, ledger, Counted
<1>5. /\ jobs'[w] = j /\ jobs' = [v \in Workers |-> jobs'[v]]
      /\ \A v \in Workers : v # w => Followed(v, p)
  <2>1. j \in Resting \union Underway /\ ~(j.step = "open" /\ j.at = Part(p))
    BY <1>3
  <2> QED BY <1>4, <2>1, FollowIs
<1>6. Fewer(w) /\ ~InFetch(w)' /\ ~Active(w)'
  BY <1>3, <1>5 DEF Fewer, InFetch, Active
<1>7. /\ refs' \in [Refs -> Row \union {NoRow}] /\ loose' \subseteq Refs /\ loose \subseteq loose'
      /\ \A r \in Refs : \/ r \in loose' \/ (\A v \in Workers : r \notin Claimed(v)')
                         \/ ~Leased(r) \/ Leased(r)'
  <2>1. CASE FetchBreaks(w)
    BY <2>1, ScanIs DEF FetchBreaks, ledger, Leased
  <2>2. CASE FetchFindsGone(w)
    <3>1. PICK row \in SUBSET {jobs[w].ref} : 
            /\ refs' = Gone(row)
            /\ loose' = loose \union {r \in row : \E v \in Workers \ {w} : r \in Claimed(v)}
      BY <2>2 DEF FetchFindsGone
    <3>2. jobs[w].ref \in Refs /\ row \subseteq Refs
      BY <1>1, <3>1 DEF Underway
    <3>3. /\ refs' \in [Refs -> Row \union {NoRow}] /\ loose' \subseteq Refs /\ loose \subseteq loose'
          /\ \A r \in Refs : r \notin row => refs'[r] = refs[r]
      BY <3>1, <3>2, ScanIs DEF Gone
    <3>4. ASSUME NEW r \in row, NEW v \in Workers, r \in Claimed(v)' PROVE r \in loose'
      <4>1. r = jobs[w].ref
        BY <3>1
      <4>2. r \notin Claimed(w)'
        BY <1>1, <1>3, <1>5, <4>1 DEF Claimed, IInv, Claims, OnceEach, InFetch
      <4>3. v # w /\ r \in Claimed(v)
        BY <1>5, <3>4, <4>2, FollowedIs
      <4> QED BY <3>1, <4>3
    <3> QED BY <3>3, <3>4 DEF Leased
  <2> QED BY <2>1, <2>2 DEF FetchBreaks, FetchFindsGone
<1>8. LedgerTyped' /\ Claims'
  BY <1>3, <1>4, <1>5, <1>6, <1>7, FetchClaims
<1>9. doubtful \subseteq doubtful' /\ doubtful' \subseteq Waits
  BY <1>4 DEF IInv, FilesTyped
<1>10. ASSUME NEW v \in Workers, v # w, Active(v), jobs[v].place = p PROVE p \in doubtful'
  BY <1>1, <1>2, <1>9, <1>10 DEF IInv, Apart, Alone, Active, InFetch
<1>11. KnownFetch(w)' /\ StagedWell(w)'
  BY <1>6 DEF KnownFetch, StagedWell, InFetch
<1>12. /\ files' \in [Places -> Contents \union {NoFile, Torn}]
       /\ \A x \in Places : files'[x] = files[x] \/ x = Part(p)
  BY <1>4, PlacesAre DEF IInv, FilesTyped, Unlinked
<1> QED BY <1>4, <1>5, <1>6, <1>8, <1>9, <1>10, <1>11, <1>12, FetchStep

LEMMA ArriveStep ==
  ASSUME IInv, NEW w \in Workers, Arrive(w)
  PROVE  IInv'
<1>1. jobs[w] \in Underway /\ jobs[w].step = "open" /\ jobs[w].queue \in Queues
  BY JobIs DEF Arrive, InFetch
<1>2. PICK p \in Waits : p = jobs[w].place
  BY <1>1 DEF Underway
<1>3. PICK got \in Contents : got = source[jobs[w].ref]
  BY <1>1, RowIs DEF Arrive, Promises, Underway
<1>4. PICK disk : disk = IF jobs[w].at = Nowhere THEN files ELSE [files EXCEPT ![jobs[w].at] = got]
  OBVIOUS
<1>5. /\ UNCHANGED <<source, refs, imported, scan, sides, loose, doubtful>> /\ Counted'
  BY Counting DEF Arrive, ledger, Counted
<1>6. /\ disk \in [Places -> Contents \union {NoFile, Torn}]
      /\ \A x \in Places : disk[x] = files[x] \/ x = Part(p) \/ x = Unsorted(p)
      /\ p \notin doubtful => disk[Part(p)] = got
  <2>1. files \in [Places -> Contents \union {NoFile, Torn}] /\ StagedWell(w) /\ InFetch(w)
    BY <1>1 DEF IInv, FilesTyped, Staged, InFetch
  <2>2. jobs[w].at \in {Nowhere, Part(p), Unsorted(p)} /\ (p \notin doubtful => jobs[w].at = Part(p))
    BY <1>1, <1>2, <2>1 DEF StagedWell
  <2> QED BY <1>4, <2>1, <2>2, PlacesAre
<1>7. PICK j \in Resting \union Underway :
        /\ j.queue = jobs[w].queue
        /\ \/ /\ j \in Underway /\ j.step = "commit" /\ j.got = got /\ j.at = Nowhere
              /\ j.ref = jobs[w].ref /\ j.place = p
              /\ jobs' = [jobs EXCEPT ![w] = j] /\ files' = disk
           \/ /\ j \in Underway /\ j.step = "settle" /\ j.got = got /\ j.at = Nowhere
              /\ j.ref = jobs[w].ref /\ j.place = p
              /\ jobs' = Follow([jobs EXCEPT ![w] = j], Part(p), Nowhere)
              /\ files' = Unlinked(disk, Part(p))
           \/ /\ j \in Resting /\ j.step = "picking"
              /\ jobs' = Follow([jobs EXCEPT ![w] = j], Part(p), Nowhere)
              /\ files' = Unlinked(disk, Part(p))
  <2>0. jobs \in [Workers -> Resting \union Underway]
    BY DEF IInv, LedgerTyped
  <2>1. PICK closed : closed = [jobs EXCEPT ![w].at = Nowhere, ![w].got = got]
    OBVIOUS
  <2>2. /\ closed[w] \in Underway /\ closed[w].queue = jobs[w].queue /\ closed[w].got = got
        /\ closed[w].at = Nowhere /\ closed[w].ref = jobs[w].ref /\ closed[w].place = p
        /\ closed = [jobs EXCEPT ![w] = closed[w]]
    BY <1>1, <1>2, <2>0, <2>1 DEF Underway, Promises
  <2>3. \/ files' = disk /\ jobs' = [closed EXCEPT ![w].step = "commit"]
        \/ /\ files' = Unlinked(disk, Part(p))
           /\ \/ jobs' = Follow([closed EXCEPT ![w] = Picking(jobs[w].queue)], Part(p), Nowhere)
              \/ jobs' = Follow([closed EXCEPT ![w] = [closed[w] EXCEPT !.step = "settle"]], Part(p), Nowhere)
    BY <1>2, <1>3, <1>4, <2>1 DEF Arrive
  <2>4. CASE files' = disk /\ jobs' = [closed EXCEPT ![w].step = "commit"]
    <3>1. PICK j \in Underway : j = [closed[w] EXCEPT !.step = "commit"]
      BY <2>2 DEF Underway
    <3>2. jobs' = [jobs EXCEPT ![w] = j]
      BY <2>0, <2>2, <2>4, <3>1
    <3>3. /\ j.queue = jobs[w].queue /\ j.step = "commit" /\ j.got = got /\ j.at = Nowhere
          /\ j.ref = jobs[w].ref /\ j.place = p
      BY <2>2, <3>1 DEF Underway
    <3> QED BY <2>4, <3>2, <3>3
  <2>5. CASE /\ files' = Unlinked(disk, Part(p))
             /\ jobs' = Follow([closed EXCEPT ![w] = Picking(jobs[w].queue)], Part(p), Nowhere)
    <3>1. PICK j \in Resting : j = Picking(jobs[w].queue) /\ j.queue = jobs[w].queue
                 /\ j.step = "picking"
      <4>1. /\ Picking(jobs[w].queue) \in Resting /\ Picking(jobs[w].queue).queue = jobs[w].queue
            /\ Picking(jobs[w].queue).step = "picking"
        BY <1>1 DEF Picking, Resting
      <4> QED BY <4>1
    <3>2. [closed EXCEPT ![w] = j] = [jobs EXCEPT ![w] = j]
      BY <2>0, <2>2
    <3> QED BY <2>5, <3>1, <3>2
  <2>6. CASE /\ files' = Unlinked(disk, Part(p))
             /\ jobs' = Follow([closed EXCEPT ![w] = [closed[w] EXCEPT !.step = "settle"]], Part(p), Nowhere)
    <3>1. PICK j \in Underway : j = [closed[w] EXCEPT !.step = "settle"]
      BY <2>2 DEF Underway
    <3>2. [closed EXCEPT ![w] = j] = [jobs EXCEPT ![w] = j]
      BY <2>0, <2>2
    <3>3. /\ j.queue = jobs[w].queue /\ j.step = "settle" /\ j.got = got /\ j.at = Nowhere
          /\ j.ref = jobs[w].ref /\ j.place = p
      BY <2>2, <3>1 DEF Underway
    <3> QED BY <2>6, <3>1, <3>2, <3>3
  <2> QED BY <2>3, <2>4, <2>5, <2>6
<1>8. /\ jobs'[w] = j /\ jobs' = [v \in Workers |-> jobs'[v]]
      /\ \A v \in Workers : v # w => Followed(v, p)
  BY <1>7, FollowIs
<1>9. Fewer(w) /\ InFetch(w) /\ Active(w)
  BY <1>1, <1>7, <1>8 DEF Fewer, Active, InFetch
<1>10. LedgerTyped' /\ Claims'
  BY <1>5, <1>7, <1>8, <1>9, ScanIs, FetchClaims DEF Leased
<1>11. doubtful \subseteq doubtful' /\ doubtful' \subseteq Waits
  BY <1>5 DEF IInv, FilesTyped
<1>12. /\ \A v \in Workers : v # w /\ Active(v) /\ jobs[v].place = p => p \in doubtful'
       /\ \A c \in Contents : Place(c) = p => p \in doubtful'
  BY <1>2, <1>9, <1>11 DEF IInv, Apart, Alone
<1>13. /\ files' \in [Places -> Contents \union {NoFile, Torn}]
       /\ \A x \in Places : files'[x] = files[x] \/ x = Part(p) \/ x = Unsorted(p)
  BY <1>6, <1>7, PlacesAre DEF Unlinked
<1>14. KnownFetch(w)'
  BY <1>1, <1>2, <1>7, <1>8, <1>9 DEF KnownFetch, IInv, Known, NamedFor, InFetch
<1>15. StagedWell(w)'
  BY <1>5, <1>6, <1>7, <1>8 DEF StagedWell, InFetch
<1>16. Active(w)' => jobs'[w].place = p
  BY <1>7, <1>8 DEF Active, InFetch
<1> QED BY <1>2, <1>5, <1>8, <1>9, <1>10, <1>11, <1>12, <1>13, <1>14, <1>15, <1>16, FetchStep

(* A run that cannot go on: the worker keeps its claims to give them back. *)
LEMMA EndedStep ==
  ASSUME IInv, NEW w \in Workers, InFetch(w), jobs' = [jobs EXCEPT ![w] = Ended(w)],
         UNCHANGED <<source, refs, imported, files, scan, sides, loose, doubtful>>, Counted'
  PROVE  IInv'
<1>1. /\ Ended(w) \in Resting /\ Ended(w).queue \subseteq jobs[w].queue
      /\ Ended(w).step \in {"picking", "ending"}
  BY JobIs DEF Ended, Idle, Picking, Resting, Queues
<1> QED BY <1>1, ScanIs, PumpStep DEF Leased

LEMMA CommitStep ==
  ASSUME IInv, NEW w \in Workers, Commit(w)
  PROVE  IInv'
<1>1. jobs[w] \in Underway /\ jobs[w].step = "commit" /\ InFetch(w) /\ Active(w)
  BY JobIs DEF Commit, InFetch, Active
<1>2. PICK p \in Waits : p = jobs[w].place
  BY <1>1 DEF Underway
<1>3. UNCHANGED <<source, refs, imported, scan, sides, loose, doubtful>> /\ Counted'
  BY Counting DEF Commit, ledger, Counted
<1>4. CASE files[Part(p)] = NoFile
  BY <1>1, <1>2, <1>3, <1>4, EndedStep DEF Commit
<1>5. CASE files[Part(p)] # NoFile
  <2>1. PICK j \in Underway : j = [jobs[w] EXCEPT !.step = "keep"]
    BY <1>1 DEF Underway
  <2>2. /\ j.queue = jobs[w].queue /\ j.step = "keep" /\ j.got = jobs[w].got
        /\ j.at = jobs[w].at /\ j.ref = jobs[w].ref /\ j.place = p
    BY <1>1, <1>2, <2>1 DEF Underway
  <2>3. /\ files' = Renamed(files, Part(p), Unsorted(p))
        /\ jobs' = [Follow(jobs, Part(p), Unsorted(p)) EXCEPT ![w].step = "keep"]
    BY <1>2, <1>5 DEF Commit
  <2>4. jobs' = [Follow(jobs, Part(p), Unsorted(p)) EXCEPT ![w] = j]
    <3>1. Follow(jobs, Part(p), Unsorted(p))[w] = jobs[w]
      BY <1>1 DEF Follow
    <3> QED BY <2>1, <2>3, <3>1
  <2>5. /\ jobs'[w] = j /\ jobs' = [v \in Workers |-> jobs'[v]]
        /\ \A v \in Workers : v # w => Followed(v, p)
    BY <2>4, FollowIs
  <2>6. Fewer(w)
    BY <1>1, <2>2, <2>5 DEF Fewer, InFetch
  <2>7. LedgerTyped' /\ Claims'
    BY <1>3, <2>5, <2>6, ScanIs, FetchClaims DEF Leased
  <2>8. doubtful \subseteq doubtful' /\ doubtful' \subseteq Waits
    BY <1>3 DEF IInv, FilesTyped
  <2>9. /\ \A v \in Workers : v # w /\ Active(v) /\ jobs[v].place = p => p \in doubtful'
        /\ \A c \in Contents : Place(c) = p => p \in doubtful'
    BY <1>1, <1>2, <2>8 DEF IInv, Apart, Alone
  <2>10. /\ Part(p) \in Places /\ Unsorted(p) \in Places /\ Part(p) # Unsorted(p)
    BY PlacesAre
  <2>11. /\ files' \in [Places -> Contents \union {NoFile, Torn}]
         /\ \A x \in Places : files'[x] = files[x] \/ x = Part(p) \/ x = Unsorted(p)
         /\ files'[Unsorted(p)] = files[Part(p)]
    BY <2>3, <2>10, RenamedIs
  <2>12. KnownFetch(w)'
    BY <1>1, <1>2, <2>2, <2>5 DEF KnownFetch, IInv, Known, NamedFor, InFetch
  <2>13. StagedWell(w)'
    BY <1>1, <1>2, <1>3, <2>2, <2>5, <2>11 DEF StagedWell, IInv, Staged, InFetch
  <2> QED BY <1>1, <1>2, <1>3, <2>2, <2>5, <2>7, <2>8, <2>9, <2>11, <2>12, <2>13, FetchStep
<1> QED BY <1>4, <1>5

(* The fetched file has its row, and the content is known from now on.     *)
LEMMA KeepStep ==
  ASSUME IInv, NEW w \in Workers, Keep(w)
  PROVE  IInv'
<1>1. jobs[w] \in Underway /\ jobs[w].step = "keep" /\ InFetch(w) /\ Active(w)
  BY JobIs DEF Keep, InFetch, Active
<1>2. PICK p \in Waits : p = jobs[w].place
  BY <1>1 DEF Underway
<1>3. PICK got \in Contents : got = jobs[w].got
  BY <1>1 DEF IInv, Known, KnownFetch
<1>4. UNCHANGED <<source, refs, files, scan, sides, loose, doubtful>> /\ Counted'
  BY Counting DEF Keep, Counted
<1>5. CASE State(got) # "none"
  BY <1>1, <1>3, <1>4, <1>5, EndedStep DEF Keep
<1>6. CASE State(got) = "none"
  <2>1. PICK j \in Underway : j = [jobs[w] EXCEPT !.step = "settle"]
    BY <1>1 DEF Underway
  <2>2. /\ j.queue = jobs[w].queue /\ j.step = "settle" /\ j.got = got
        /\ j.at = jobs[w].at /\ j.ref = jobs[w].ref /\ j.place = p
    BY <1>1, <1>2, <1>3, <2>1 DEF Underway
  <2>3. PICK i \in Import : i = [state |-> "unsorted", place |-> p, from |-> jobs[w].ref]
    BY <1>1 DEF Import, Underway
  <2>4. imported' = [imported EXCEPT ![got] = i] /\ jobs' = [jobs EXCEPT ![w] = j]
    BY <1>2, <1>3, <1>6, <2>1, <2>3 DEF Keep
  <2>5. /\ jobs'[w] = j /\ jobs' = [v \in Workers |-> jobs'[v]]
        /\ \A v \in Workers : v # w => Followed(v, p) /\ jobs'[v] = jobs[v]
    BY <2>4, FollowIs DEF IInv, LedgerTyped
  <2>6. Fewer(w) /\ InFetch(w)' /\ ~Active(w)'
    BY <1>1, <2>2, <2>5 DEF Fewer, InFetch, Active
  <2>7. LedgerTyped' /\ Claims'
    BY <1>4, <2>5, <2>6, ScanIs, FetchClaims DEF Leased
  <2>8. /\ imported' \in [Contents -> Import]
        /\ Place(got)' = p /\ State(got)' = "unsorted" /\ imported'[got].from = jobs[w].ref
        /\ \A d \in Contents : d # got => imported'[d] = imported[d] /\ Place(d)' = Place(d)
             /\ State(d)' = State(d)
    BY <2>3, <2>4 DEF IInv, FilesTyped, Place, State
  <2>9. UNCHANGED <<cmd, take, forgetting, group>>
    BY <1>4 DEF sides
  <2>10. FilesTyped'
    BY <1>4, <2>8, <2>9 DEF IInv, FilesTyped
  <2>11. p # Nowhere /\ Place(got) = Nowhere /\ Nowhere \notin doubtful /\ KnownContent(got)
         /\ ~AtGroup(got) /\ got \notin forgetting
    BY <1>6, NamesAre, FilesAre DEF KnownContent
  <2>12. NamedFor(p, jobs[w].ref) /\ jobs[w].ref \in Refs /\ p \in Waits
    BY <1>1, <1>2 DEF IInv, Known, KnownFetch, Underway
  <2>13. /\ \A d : (AtCommand(d)' <=> AtCommand(d)) /\ (AtTake(d)' <=> AtTake(d))
         /\ \A d : AtGroup(d)' <=> AtGroup(d)
    BY <2>9 DEF AtGroup, AtCommand, AtTake
  <2>14. Known'
    <3>1. KnownContent(got)'
      BY <2>8, <2>9, <2>11, <2>12, <2>13 DEF KnownContent, NamedFor
    <3>2. ASSUME NEW d \in Contents, d # got PROVE KnownContent(d)'
      <4>1. KnownContent(d) /\ imported'[d] = imported[d] /\ Place(d)' = Place(d)
              /\ State(d)' = State(d)
        BY <2>8, <3>2, FilesAre
      <4> QED BY <2>9, <2>13, <4>1 DEF KnownContent, NamedFor
    <3>3. KnownFetch(w)'
      BY <1>1, <1>2, <2>2, <2>5 DEF KnownFetch, IInv, Known, NamedFor
    <3>4. ASSUME NEW v \in Workers, v # w PROVE KnownFetch(v)'
      BY <2>5, <3>4 DEF KnownFetch, IInv, Known, NamedFor, InFetch
    <3> QED BY <3>1, <3>2, <3>3, <3>4 DEF Known
  <2>15. p \notin doubtful => /\ files[Unsorted(p)] = got
                              /\ \A v \in Workers : v # w /\ Active(v) => jobs[v].place # p
                              /\ \A c \in Contents : Place(c) # p
    BY <1>1, <1>2, <1>3 DEF IInv, Staged, StagedWell, Apart, Alone
  <2>16. Apart'
    <3>1. ASSUME NEW v \in Workers, v # w PROVE Alone(v)'
      <4>1. Alone(v) /\ (Active(v)' <=> Active(v)) /\ jobs'[v].place = jobs[v].place
        BY <2>5, <3>1 DEF IInv, Apart, Active, InFetch
      <4>2. ASSUME Active(v), jobs[v].place \notin doubtful
            PROVE  \A c \in Contents : Place(c)' # jobs[v].place
        BY <2>8, <2>15, <3>1, <4>1, <4>2 DEF Alone
      <4>3. ASSUME Active(v), jobs[v].place \notin doubtful, NEW u \in Workers, u # v, Active(u)'
            PROVE  jobs'[u].place # jobs[v].place
        BY <2>5, <2>6, <4>1, <4>3 DEF Alone, Active, InFetch
      <4> QED BY <1>4, <4>1, <4>2, <4>3 DEF Alone
    <3>2. ASSUME NEW c \in Contents, NEW d \in Contents, c # d, State(c)' # "none", Place(c)' = Place(d)'
          PROVE  Place(c)' \in doubtful'
      <4>1. CASE c = got
        <5>1. Place(d) = p
          BY <2>8, <3>2, <4>1
        <5> QED BY <1>4, <2>8, <2>15, <4>1, <5>1
      <4>2. CASE d = got
        <5>1. Place(c) = p /\ Place(c)' = p
          BY <2>8, <3>2, <4>2
        <5> QED BY <1>4, <2>15, <5>1
      <4>3. CASE c # got /\ d # got
        BY <1>4, <2>8, <3>2, <4>3 DEF IInv, Apart
      <4> QED BY <4>1, <4>2, <4>3
    <3>3. Alone(w)'
      BY <2>6 DEF Alone
    <3> QED BY <3>1, <3>2, <3>3 DEF Apart
  <2>17. Staged'
    <3>1. StagedWell(w)'
      BY <1>1, <1>2, <1>4, <2>2, <2>5 DEF StagedWell, IInv, Staged
    <3>2. ASSUME NEW v \in Workers, v # w PROVE StagedWell(v)'
      BY <1>4, <2>5, <3>2 DEF StagedWell, IInv, Staged, InFetch
    <3> QED BY <3>1, <3>2 DEF Staged
  <2>18. ASSUME NEW c \in Contents, Place(c)' \notin doubtful' PROVE Whole(c)'
    <3>1. CASE c = got
      <4>1. Whole(got) /\ p \notin doubtful
        BY <1>4, <2>8, <2>11, <2>18, <3>1, FilesAre
      <4>2. Filed(got)' = Filed(got) /\ Waiting(got)' = got
        BY <1>4, <2>8, <2>15, <4>1 DEF Filed, Waiting
      <4> QED BY <2>8, <2>9, <2>11, <2>13, <3>1, <4>1, <4>2 DEF Whole, AtGroup
    <3>2. CASE c # got
      <4>1. Whole(c) /\ Place(c)' = Place(c) /\ State(c)' = State(c)
        BY <1>4, <2>8, <2>18, <3>2, FilesAre
      <4>2. Filed(c)' = Filed(c) /\ Waiting(c)' = Waiting(c)
        BY <1>4, <4>1 DEF Filed, Waiting
      <4> QED BY <2>9, <2>13, <4>1, <4>2 DEF Whole
    <3> QED BY <3>1, <3>2
  <2> QED BY <1>4, <2>7, <2>10, <2>14, <2>16, <2>17, <2>18 DEF IInv, AllWhole
<1> QED BY <1>5, <1>6

-----------------------------------------------------------------------------
(* The daemon starts again: no fetch is under way, and no download.        *)
LEMMA RestartStep ==
  ASSUME IInv, Restart
  PROVE  IInv'
<1>1. /\ UNCHANGED <<source, refs, imported, cmd, group, loose>> /\ Counted'
      /\ jobs' = [w \in Workers |-> Idle] /\ scan' = NoScan /\ take' = None
      /\ files' = [x \in Places |-> IF x[1] = "part" THEN NoFile ELSE files[x]]
      /\ forgetting' = {c \in Contents : State(c) = "dropped"}
      /\ Doubt(IF take = None THEN {} ELSE {Place(take.c)})
  BY Counting DEF Restart, ledger, Counted
<1>2. /\ doubtful \subseteq doubtful' /\ doubtful' \subseteq Waits
      /\ \A c \in Contents : AtTake(c) => Place(c) \in doubtful'
  <2>1. take # None => take.c \in Contents /\ State(take.c) # "none"
    BY TakeIs
  <2>2. take # None => Place(take.c) \in Waits
    BY <2>1, FilesAre
  <2> QED BY <1>1, <2>2 DEF Doubt, AtTake, IInv, FilesTyped
<1>3. /\ \A w \in Workers : /\ jobs'[w] = Idle /\ Claimed(w)' = {} /\ ~InFetch(w)' /\ ~Active(w)'
                            /\ OnceEach(w)'
      /\ Idle \in Resting
  BY <1>1 DEF Claimed, InFetch, Active, OnceEach, Idle, Picking, Resting, Queues
<1>4. LedgerTyped'
  <2>1. jobs' \in [Workers -> Resting \union Underway]
    BY <1>1, <1>3
  <2> QED BY <1>1, <2>1, ScanIs DEF IInv, LedgerTyped
<1>5. FilesTyped'
  BY <1>1, <1>2 DEF IInv, FilesTyped
<1>6. Claims'
  BY <1>3 DEF Claims, OneClaim
<1>7. /\ \A c : Place(c)' = Place(c) /\ State(c)' = State(c) /\ ~AtTake(c)'
      /\ \A c : AtCommand(c)' <=> AtCommand(c)
  BY <1>1 DEF Place, State, AtTake, AtCommand
<1>8. Known'
  <2>1. ASSUME NEW c \in Contents PROVE KnownContent(c)'
    BY <1>1, <1>7, FilesAre DEF KnownContent, AtGroup, NamedFor
  <2> QED BY <1>3, <2>1 DEF Known, KnownFetch
<1>9. Apart' /\ Staged'
  BY <1>1, <1>2, <1>3, <1>7 DEF IInv, Apart, Alone, Staged, StagedWell
<1>10. ASSUME NEW c \in Contents, Place(c) \notin doubtful' PROVE Whole(c)'
  <2>1. Whole(c) /\ ~AtTake(c)
    BY <1>2, <1>10, FilesAre
  <2>2. Filed(c)' = Filed(c)
    BY <1>1, FilesAre DEF Filed, InGroup
  <2>3. State(c) # "none" => Waiting(c)' = Waiting(c)
    BY <1>1, <1>7, FilesAre DEF Waiting, Unsorted
  <2>4. AtCommand(c) => cmd.op = "sort" \/ cmd.op = "undo"
    BY FilesAre DEF AtCommand, Sorting, Undoing
  <2> QED BY <1>1, <1>7, <2>1, <2>2, <2>3, <2>4 DEF Whole, AtGroup
<1> QED BY <1>1, <1>4, <1>5, <1>6, <1>7, <1>8, <1>9, <1>10 DEF IInv, AllWhole

LEMMA InitIInv == Init => IInv
<1> SUFFICES ASSUME Init PROVE IInv
  OBVIOUS
<1>1. /\ \A w \in Workers : jobs[w] = Idle /\ Claimed(w) = {} /\ ~InFetch(w) /\ ~Active(w)
           /\ OnceEach(w)
      /\ Idle \in Resting
  BY DEF Init, Claimed, InFetch, Active, OnceEach, Idle, Picking, Resting, Queues
<1>2. LedgerTyped
  BY <1>1 DEF Init, LedgerTyped, Promises, NoScan
<1>3. \A c \in Contents : /\ State(c) = "none" /\ Place(c) = Nowhere /\ ~AtCommand(c) /\ ~AtTake(c)
                          /\ Filed(c) = NoFile /\ group[c] = "none" /\ imported[c] \in Import
  BY PlacesAre DEF Init, State, Place, AtCommand, AtTake, Filed, Unseen, Import
<1>4. FilesTyped /\ Counted
  BY <1>3, ConstantsAre DEF Init, FilesTyped, Counted
<1>5. Claims
  BY <1>1 DEF Claims, OneClaim
<1>6. Known
  BY <1>1, <1>3 DEF Known, KnownContent, KnownFetch, AtGroup, Init
<1>7. Apart /\ Staged
  BY <1>1, <1>3 DEF Apart, Alone, Staged, StagedWell
<1>8. AllWhole
  BY <1>3 DEF AllWhole, Whole, AtGroup, Init
<1> QED BY <1>2, <1>4, <1>5, <1>6, <1>7, <1>8 DEF IInv

LEMMA NextIInv == IInv /\ [Next]_vars => IInv'
<1> SUFFICES ASSUME IInv, [Next]_vars PROVE IInv'
  OBVIOUS
<1>1. CASE Scans
  BY <1>1, ScanMovesStep, ScanWritesStep, ScanEndsStep DEF Scans
<1>2. ASSUME NEW w \in Workers, Works(w) PROVE IInv'
  <2>1. CASE StopRun(w) \/ FetchBreaks(w)
    BY <2>1, StopRunStep, DiscardsStep
  <2>2. CASE \E rows \in SUBSET Refs : Claim(w, rows)
    BY <2>2, ClaimStep
  <2>3. CASE \E q \in jobs[w].queue : GiveBack(w, q) \/ Open(w, q)
    BY <2>3, GiveBackStep, OpenStep
  <2>4. CASE Arrive(w) \/ FetchFindsGone(w) \/ Commit(w) \/ Keep(w) \/ Settle(w)
    BY <2>4, ArriveStep, DiscardsStep, CommitStep, KeepStep, SettleStep
  <2> QED BY <1>2, <2>1, <2>2, <2>3, <2>4 DEF Works, Advances
<1>3. CASE Sorts
  BY <1>3, MarkingStep, BeginStep, CommandStep DEF Sorts
<1>4. CASE Others
  <2>1. CASE \E c \in Contents : ForgetReads(c) \/ ForgetDeletes(c) \/ Take(c) \/ GroupChanges(c)
    BY <2>1, ForgetStep, TakeStep, GroupStep
  <2>2. CASE TakeMarks \/ TakeHolds
    BY <2>2, TakenStep
  <2>3. CASE \E r \in Refs, c \in Contents \union {0} : SourceChanges(r, c)
    BY <2>3, SourceStep DEF Promises
  <2>4. CASE \E r \in Refs : HourPasses(r)
    BY <2>4, HourStep
  <2>5. CASE ScanBreaks \/ Restart \/ KillCommand
    BY <2>5, ScanMovesStep, RestartStep, KillStep
  <2> QED BY <1>4, <2>1, <2>2, <2>3, <2>4, <2>5 DEF Others
<1>5. CASE UNCHANGED vars
  <2>1. /\ UNCHANGED <<refs, jobs, loose>> /\ UNCHANGED <<imported, files, sides, doubtful>>
        /\ LedgerTyped' /\ Counted'
    BY <1>5 DEF vars, sides, IInv, LedgerTyped, Counted
  <2> QED BY <2>1, ClaimsAside, LedgerStep
<1> QED BY <1>1, <1>2, <1>3, <1>4, <1>5 DEF Next

-----------------------------------------------------------------------------
(* What is claimed in the ledger and where each file is, in every state    *)
(* (ledger.rs, and scan.rs, fetch.rs and backlog.rs of ops/import).        *)
THEOREM Invariance == Spec => []IInv
BY InitIInv, NextIInv, PTL DEF Spec

(* Every variable has its type.                                            *)
THEOREM ImportsTyped == Spec => []TypeOK
<1>1. ASSUME IInv PROVE TypeOK
  <2>1. \A r \in Refs : refs[r] = NoRow \/ /\ refs[r].promise \in Contents \union {0}
                                           /\ refs[r].hash \in Contents \union {0}
                                           /\ refs[r].fails \in 0 .. MaxAttempts
                                           /\ refs[r].leased \in BOOLEAN
    BY <1>1, RowIs DEF Row, Promises
  <2>2. ASSUME NEW w \in Workers, NEW r \in Claimed(w) PROVE r \in Refs
    BY <1>1, JobIs, ClaimedIs DEF Underway, Queues
  <2>3. source \in [Refs -> Contents \union {0}] /\ loose \subseteq Refs
    BY <1>1 DEF IInv, LedgerTyped, Promises
  <2> QED BY <1>1, <2>1, <2>2, <2>3 DEF TypeOK, IInv, FilesTyped, Import, Counted
<1> QED BY <1>1, Invariance, PTL

(* Two workers never hold one reference, unless its lease ran out under    *)
(* one of them or its row went and came back (claim, refresh, give_back).  *)
THEOREM ClaimedOnce == Spec => []OneClaim
<1>1. IInv => OneClaim
  BY DEF IInv, Claims
<1> QED BY <1>1, Invariance, PTL

(* What waits to be sorted is under the name its row gives, whole, and the *)
(* group has what it holds, wherever no two files were given one name and  *)
(* nothing was killed or crossed halfway (keep, sort_one, undo_one).       *)
THEOREM FilesInPlace == Spec => []InPlace
<1>1. IInv => InPlace
  BY DEF IInv, AllWhole, Whole, InPlace, Busy, Waiting, Filed
<1> QED BY <1>1, Invariance, PTL

(* The steps that touch the table imported.                                *)
LEMMA WhatMarks ==
  ASSUME [Next]_vars
  PROVE  \/ imported' = imported
         \/ \E w \in Workers : Keep(w)
         \/ \E c \in Contents : SettleMissing(c) \/ Drop(c) \/ UndoDrop(c)
         \/ SortMarks \/ UndoMarks \/ TakeMarks
<1>1. CASE Scans \/ UNCHANGED vars
  BY <1>1 DEF Scans, ScanBegins, ScanReads, ScanWrites, ScanEnds, ledger, vars
<1>2. ASSUME NEW w \in Workers, Works(w) PROVE imported' = imported \/ Keep(w)
  <2>1. CASE StopRun(w) \/ FetchBreaks(w) \/ \E rows \in SUBSET Refs : Claim(w, rows)
    BY <2>1 DEF StopRun, FetchBreaks, Claim, ledger
  <2>2. CASE \E q \in jobs[w].queue : GiveBack(w, q) \/ Open(w, q)
    BY <2>2 DEF GiveBack, Open, ledger
  <2>3. CASE Arrive(w) \/ FetchFindsGone(w) \/ Commit(w) \/ Settle(w)
    BY <2>3 DEF Arrive, FetchFindsGone, Commit, Settle, ledger
  <2> QED BY <1>2, <2>1, <2>2, <2>3 DEF Works, Advances
<1>3. CASE Sorts
  BY <1>3 DEF Sorts, Sort, Undo, SortRecords, UndoRemoves
<1>4. CASE Others
  BY <1>4 DEF Others, ForgetReads, ForgetDeletes, Take, GroupChanges, TakeHolds, SourceChanges,
              HourPasses, ScanBreaks, Restart, KillCommand, ledger
<1> QED BY <1>1, <1>2, <1>3, <1>4 DEF Next

(* Every such step marks one content that has a row, or gives one a row.   *)
LEMMA RowMoves ==
  ASSUME IInv, [Next]_vars, NEW c \in Contents, imported'[c] # imported[c], State(c) # "none"
  PROVE  /\ imported'[c] = [imported[c] EXCEPT !.state = State(c)'] /\ Place(c)' = Place(c)
         /\ State(c) # "unsorted" => State(c)' = "unsorted" /\ (IsThere(c)' \/ Place(c) \in doubtful')
         /\ State(c)' = "dropped" => IsThere(c) \/ Place(c) \in doubtful'
<1>1. ASSUME NEW d \in Contents, NEW state \in {"unsorted", "sorted", "dropped"}, Marked(d, state)
      PROVE  d = c /\ State(c)' = state /\ Place(c)' = Place(c)
             /\ imported'[c] = [imported[c] EXCEPT !.state = State(c)']
  BY <1>1, MarkedIs, FilesAre DEF Marked
<1>2. ASSUME NEW w \in Workers, Keep(w) PROVE FALSE
  BY <1>2, FilesAre DEF Keep, State
<1>3. ASSUME NEW d \in Contents, SettleMissing(d) \/ Drop(d) \/ UndoDrop(d)
      PROVE  /\ d = c /\ Place(c)' = Place(c) /\ imported'[c] = [imported[c] EXCEPT !.state = State(c)']
             /\ State(c) = "unsorted"
                  \/ (State(c) = "dropped" /\ State(c)' = "unsorted" /\ IsThere(c) /\ files' = files)
             /\ State(c)' = "dropped" => IsThere(c) \/ Place(c) \in doubtful'
  <2>1. \E state \in {"unsorted", "sorted", "dropped"} : Marked(d, state)
          /\ (UndoDrop(d) => state = "unsorted")
    BY <1>3 DEF SettleMissing, Drop, UndoDrop
  <2>2. d = c /\ Place(c)' = Place(c) /\ imported'[c] = [imported[c] EXCEPT !.state = State(c)']
        /\ (UndoDrop(c) => State(c)' = "unsorted")
    BY <1>1, <2>1
  <2>3. State(c)' = "dropped" => IsThere(c) \/ Place(c) \in doubtful'
    <3>1. SettleMissing(c) \/ Drop(c) \/ UndoDrop(c)
      BY <1>3, <2>2
    <3>2. (SettleMissing(c) => Place(c) \in doubtful')
            /\ (Drop(c) => IsThere(c) \/ Place(c) \in doubtful')
      BY <3>1, MarkingStep
    <3> QED BY <2>2, <3>1, <3>2
  <2> QED BY <1>3, <2>2, <2>3 DEF SettleMissing, Drop, UndoDrop
<1>4. CASE SortMarks \/ TakeMarks
  <2>1. \E d \in Contents : State(d) = "unsorted" /\ Marked(d, "sorted")
    BY <1>4, CommandIs, TakeIs DEF SortMarks, TakeMarks, At
  <2>2. PICK d \in Contents : State(d) = "unsorted" /\ Marked(d, "sorted")
    BY <2>1
  <2>3. d = c /\ State(c)' = "sorted" /\ Place(c)' = Place(c)
        /\ imported'[c] = [imported[c] EXCEPT !.state = State(c)']
    BY <1>1, <2>2
  <2> QED BY <2>2, <2>3
<1>5. CASE UndoMarks
  <2>1. cmd # None /\ cmd.op = "undo" /\ files' = files /\ doubtful \subseteq doubtful'
    BY <1>5 DEF UndoMarks, At, Crossed, Doubt
  <2>2. cmd.c \in Contents /\ AtCommand(cmd.c) /\ Marked(cmd.c, "unsorted")
    BY <1>5, <2>1, CommandIs DEF UndoMarks
  <2>3. cmd.c = c /\ State(c)' = "unsorted" /\ Place(c)' = Place(c)
        /\ imported'[c] = [imported[c] EXCEPT !.state = State(c)']
    BY <1>1, <2>2
  <2>4. Place(c) \notin doubtful' => files[Unsorted(Place(c))] = c
    BY <2>1, <2>2, <2>3, FilesAre DEF Whole, Waiting
  <2> QED BY <2>1, <2>3, <2>4, ConstantsAre DEF IsThere
<1>6. ASSUME NEW d \in Contents, SettleMissing(d) \/ Drop(d) \/ UndoDrop(d)
      PROVE  State(c) # "unsorted" => State(c)' = "unsorted" /\ IsThere(c)'
  BY <1>3, <1>6 DEF IsThere
<1> QED BY <1>2, <1>3, <1>4, <1>5, <1>6, WhatMarks

(* A content keeps the row it was first given, and the row only moves from *)
(* waiting to decided, except by undoing, and then its bytes are waiting   *)
(* again (the WHEREs of sorted, dropped and undone; undo_one).             *)
THEOREM RowsGoForward == Spec => ForwardOnly
<1>1. IInv /\ [Next]_vars =>
        [\A c \in Contents : imported'[c] # imported[c] /\ State(c) # "none" =>
           /\ imported'[c] = [imported[c] EXCEPT !.state = State(c)']
           /\ State(c) # "unsorted" => /\ State(c)' = "unsorted"
                                       /\ IsThere(c)' \/ Place(c) \in doubtful']_vars
  BY RowMoves
<1> QED BY <1>1, Invariance, PTL DEF Spec, ForwardOnly

(* What becomes dropped is there to be thrown away: only the user decides  *)
(* so, not a sort that does not find the bytes (settle_missing).           *)
THEOREM OnlyUserDrops == Spec => DroppedByUser
<1>1. IInv /\ [Next]_vars =>
        [\A c \in Contents : (State(c)' = "dropped" /\ State(c) # "dropped") =>
           IsThere(c) \/ Place(c) \in doubtful']_vars
  <2> SUFFICES ASSUME IInv, [Next]_vars, NEW c \in Contents, State(c)' = "dropped", State(c) # "dropped"
               PROVE  IsThere(c) \/ Place(c) \in doubtful'
    OBVIOUS
  <2>1. CASE State(c) # "none"
    BY <2>1, RowMoves DEF State
  <2>2. CASE State(c) = "none"
    <3>1. ASSUME NEW w \in Workers, Keep(w) PROVE FALSE
      BY <2>2, <3>1, FilesAre DEF Keep, State
    <3>2. ASSUME NEW d \in Contents, NEW state \in {"unsorted", "sorted", "dropped"},
                 Marked(d, state), State(d) # "none"
          PROVE  FALSE
      BY <2>2, <3>2, MarkedIs DEF State
    <3>3. ~(SortMarks \/ UndoMarks \/ TakeMarks)
      BY <2>2, <3>2, CommandIs, TakeIs DEF SortMarks, UndoMarks, TakeMarks, At, State
    <3>4. ASSUME NEW d \in Contents PROVE ~(SettleMissing(d) \/ Drop(d) \/ UndoDrop(d))
      BY <2>2, <3>2 DEF SettleMissing, Drop, UndoDrop
    <3> QED BY <2>2, <3>1, <3>3, <3>4, WhatMarks DEF State
  <2> QED BY <2>1, <2>2
<1> QED BY <1>1, Invariance, PTL DEF Spec, DroppedByUser
=============================================================================
