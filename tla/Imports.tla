------------------------------- MODULE Imports -------------------------------
(***************************************************************************)
(* One import source on one node: the references it owes, the workers that *)
(* fetch them, the files that wait under .unsorted, and what the user and  *)
(* the group make of those (ac-import/src/ledger.rs and verdict.rs, and    *)
(* scan.rs, fetch.rs and backlog.rs of ac-node/src/ops/import, driven by   *)
(* ac-node/src/import_link.rs).                                            *)
(*                                                                         *)
(* A step is one statement of the ledger or one operation on the disk,     *)
(* with the reads just before it; what is read and kept for later (a scan's *)
(* page, a claim, the name a fetch begins under, the rows to forget) is a  *)
(* step of its own.                                                        *)
(* Checksum and size are one promise, a folder is left out, and a content  *)
(* has one path in the one group there is.                                 *)
(*                                                                         *)
(* A longer-named definition just before the one it resembles is a mutated *)
(* form that nothing else uses.                                            *)
(***************************************************************************)
EXTENDS Naturals, FiniteSets

CONSTANTS
  Refs, Names,  \* what the source lists, and the names it gives
  Contents,     \* the contents there are; 0 is none
  Torn,         \* what a fetch that has not ended leaves on the disk
  NameOf,       \* the name of each reference
  Promised,     \* the references listed with a checksum
  Workers,      \* the pumps at work
  CLAIM,        \* the most references one of them claims at a time
  MaxAttempts,  \* MAX_FETCH_ATTEMPTS
  MaxChanges,   \* bounds the user's commands and the changes at the source and in the group
  MaxMishaps    \* bounds the broken fetches and scans, the outrun leases and the kills

ASSUME ImportAssumption ==
  /\ NameOf \in [Refs -> Names] /\ Promised \subseteq Refs
  /\ Refs \subseteq Nat \ {0} /\ 0 \notin Contents /\ Torn \notin Contents \union {0}
  /\ {CLAIM, MaxAttempts} \subseteq Nat \ {0}
  /\ {MaxChanges, MaxMishaps} \subseteq Nat

(* Where a file waits: under its name, or that name marked with the        *)
(* reference.  A place is that, what is staged for it, or one in the group. *)
Waits == {<<n>> : n \in Names} \union (Names \X Refs)
Unsorted(p) == <<"unsorted", p>>
Part(p) == <<"part", p>>
InGroup(c) == <<"group", c>>
Nowhere == <<>>
Places == ({"unsorted", "part"} \X Waits) \union ({"group"} \X Contents)
NoFile == 0

VARIABLES
  source,      \* what the source has under each reference
  refs,        \* the table import_refs
  imported,    \* the table imported
  group,       \* the group's row for each content
  files,       \* the disk
  jobs,        \* what each worker is at
  scan, cmd,   \* the scan and the user's command under way
  take,        \* the download that looks among the imports first
  forgetting,  \* thrown away contents whose bytes are about to be deleted
  loose,       \* history: references whose lease ended, or whose row went, while claimed
  doubtful,    \* history: places two files shared, or an operation was killed or crossed at
  changes, mishaps

ledger == <<refs, imported>>
sides == <<cmd, take, forgetting, group>>
vars == <<source, refs, imported, group, files, jobs, scan, cmd, take, forgetting,
          loose, doubtful, changes, mishaps>>

NoRow == [row |-> "none"]
NewRow(promise) == [promise |-> promise, hash |-> 0, fails |-> 0, leased |-> FALSE]
Unseen == [state |-> "none", place |-> Nowhere, from |-> 0]
Picking(queue) == [step |-> "picking", queue |-> queue]
Idle == Picking({})
NoScan == [on |-> FALSE, todo |-> {}, page |-> {}]
None == [op |-> "none"]

Init ==
  /\ source \in [Refs -> Contents]
  /\ refs = [r \in Refs |-> NoRow]
  /\ imported = [c \in Contents |-> Unseen]
  /\ group = [c \in Contents |-> "none"]
  /\ files = [x \in Places |-> NoFile]
  /\ jobs = [w \in Workers |-> Idle]
  /\ scan = NoScan /\ cmd = None /\ take = None
  /\ forgetting = {} /\ loose = {} /\ doubtful = {}
  /\ changes = 0 /\ mishaps = 0

-----------------------------------------------------------------------------
IsOwed(r) == refs[r] # NoRow /\ refs[r].hash = 0
IsSettled(r) == refs[r] # NoRow /\ refs[r].hash # 0
Exhausted(row) == row.fails >= MaxAttempts
State(c) == imported[c].state
Place(c) == imported[c].place
IsThere(c) == files[Unsorted(Place(c))] # NoFile
InRow(c) == group[c] \in {"missing", "held"}

Renamed(f, x, y) == [f EXCEPT ![y] = f[x], ![x] = NoFile]
Unlinked(f, x) == [f EXCEPT ![x] = NoFile]

(* The references a worker has claimed and not answered for.               *)
Claimed(w) == {q[1] : q \in jobs[w].queue}
              \union (IF jobs[w].step \in {"picking", "ending"} THEN {} ELSE {jobs[w].ref})

Gone(rows) == [r \in Refs |-> IF r \in rows THEN NoRow ELSE refs[r]]
Loosened(rows) == {r \in loose \union rows : \E w \in Workers : r \in Claimed(w)}

(* Open files follow a rename.                                             *)
Follow(js, x, y) ==
  [w \in Workers |-> IF js[w].step = "open" /\ js[w].at = x THEN [js[w] EXCEPT !.at = y]
                     ELSE js[w]]

(* A command, a download and a deletion at one content at once.            *)
AtCommand(c) == cmd # None /\ cmd.c = c
AtTake(c) == take # None /\ take.c = c
Doubt(places) == doubtful' = doubtful \union places
Crossed(c) == Doubt(IF AtTake(c) \/ c \in forgetting THEN {Place(c)} ELSE {})

Change == changes < MaxChanges /\ changes' = changes + 1
Mishap == mishaps < MaxMishaps /\ mishaps' = mishaps + 1

-----------------------------------------------------------------------------
(***************************************************************************)
(* A scan, a page of one reference at a time in the order the source lists *)
(* them: what the source offers and what the ledger knows of it are read,  *)
(* and it is then owed or refreshed.                                       *)
(* At the end what has run out of attempts is retired.                     *)
(***************************************************************************)
ScanBegins ==
  /\ ~scan.on
  /\ scan' = [on |-> TRUE, todo |-> Refs, page |-> {}]
  /\ UNCHANGED <<source, ledger, files, jobs, sides, loose, doubtful, changes, mishaps>>

ScanReads(r) ==
  /\ scan.page = {} /\ r \in scan.todo /\ \A q \in scan.todo : r <= q
  /\ scan' = [scan EXCEPT !.todo = @ \ {r},
                          !.page = IF source[r] = 0 THEN {}
                                   ELSE {[ref |-> r, offers |-> source[r], known |-> refs[r]]}]
  /\ UNCHANGED <<source, ledger, files, jobs, sides, loose, doubtful, changes, mishaps>>

Promise(g) == IF g.ref \in Promised THEN g.offers ELSE 0

RefreshReleasing(g) ==
  LET reset == Exhausted(g.known) \/ g.known.promise # Promise(g)
  IN  IF g.known.hash = 0 /\ reset /\ IsOwed(g.ref)
      THEN [refs EXCEPT ![g.ref].promise = Promise(g), ![g.ref].fails = 0,
                        ![g.ref].leased = FALSE]
      ELSE refs

Refresh(g) ==
  LET reset == Exhausted(g.known) \/ g.known.promise # Promise(g)
  IN  IF g.known.hash = 0 /\ reset /\ IsOwed(g.ref)
      THEN [refs EXCEPT ![g.ref].promise = Promise(g), ![g.ref].fails = 0]
      ELSE refs

ScanWrites ==
  /\ scan' = [scan EXCEPT !.page = {}]
  /\ \E g \in scan.page :
       refs' = IF g.known # NoRow THEN Refresh(g)
               ELSE IF refs[g.ref] = NoRow THEN [refs EXCEPT ![g.ref] = NewRow(Promise(g))]
               ELSE refs
  /\ UNCHANGED <<source, imported, files, jobs, sides, loose, doubtful,
                 changes, mishaps>>

ScanEnds ==
  LET retired == {r \in Refs : IsOwed(r) /\ Exhausted(refs[r])}
  IN  /\ scan.on /\ scan.todo = {} /\ scan.page = {}
      /\ refs' = Gone(retired) /\ loose' = Loosened(retired)
      /\ scan' = NoScan
      /\ UNCHANGED <<source, imported, files, jobs, sides, doubtful, changes, mishaps>>

(* The source goes away or fails in the middle of a scan.                  *)
ScanBreaks ==
  /\ scan.on /\ scan.todo # {} /\ scan.page = {} /\ Mishap /\ scan' = NoScan
  /\ UNCHANGED <<source, ledger, files, jobs, sides, loose, doubtful, changes>>

-----------------------------------------------------------------------------
(***************************************************************************)
(* The pump.                                                               *)
(***************************************************************************)
Claimable == {r \in Refs : IsOwed(r) /\ ~Exhausted(refs[r]) /\ ~refs[r].leased}

Claim(w, rows) ==
  /\ jobs[w] = Idle /\ rows # {} /\ rows \subseteq Claimable /\ Cardinality(rows) <= CLAIM
  /\ refs' = [r \in Refs |-> IF r \in rows
                             THEN [refs[r] EXCEPT !.leased = TRUE, !.fails = @ + 1]
                             ELSE refs[r]]
  /\ jobs' = [jobs EXCEPT ![w] = Picking({<<r, refs[r].promise>> : r \in rows})]
  /\ loose' = Loosened({})
  /\ UNCHANGED <<source, imported, files, scan, sides, doubtful,
                 changes, mishaps>>

HourPassesNever(r) == FALSE

(* An hour after a claim it may be taken again, whoever holds it.          *)
HourPasses(r) ==
  /\ IsOwed(r) /\ refs[r].leased
  /\ refs' = [refs EXCEPT ![r].leased = FALSE]
  /\ loose' = Loosened({r})
  /\ IF \E w \in Workers : r \in Claimed(w) THEN Mishap ELSE UNCHANGED mishaps
  /\ UNCHANGED <<source, imported, files, jobs, scan, sides, doubtful, changes>>

(* The node is told to hold, or the source does not open: what is claimed  *)
(* goes back unfetched, one reference at a time.                           *)
StopRun(w) ==
  /\ jobs[w].step = "picking" /\ jobs[w].queue # {} /\ Mishap
  /\ jobs' = [jobs EXCEPT ![w].step = "ending"]
  /\ UNCHANGED <<source, ledger, files, scan, sides, loose, doubtful, changes>>

GiveBack(w, q) ==
  /\ jobs[w].step = "ending" /\ q \in jobs[w].queue
  /\ refs' = IF IsOwed(q[1]) THEN [refs EXCEPT ![q[1]].fails = 0, ![q[1]].leased = FALSE]
             ELSE refs
  /\ jobs' = [jobs EXCEPT ![w] = IF jobs[w].queue = {q} THEN Idle
                                 ELSE [step |-> "ending", queue |-> @.queue \ {q}]]
  /\ UNCHANGED <<source, imported, files, scan, sides, loose, doubtful,
                 changes, mishaps>>

Ended(w) == IF jobs[w].queue = {} THEN Idle ELSE [step |-> "ending", queue |-> jobs[w].queue]

NameTakenNever(r) == FALSE

NameTaken(r) ==
  \E c \in Contents : /\ State(c) = "unsorted" /\ Place(c) = <<NameOf[r]>>
                      /\ imported[c].from # r

(* A fetch begins: the name it will wait under is chosen now.              *)
Open(w, q) ==
  LET r == q[1]
      p == IF NameTaken(r) THEN <<NameOf[r], r>> ELSE <<NameOf[r]>>
      shared == \/ \E v \in Workers \ {w} :
                     jobs[v].step \notin {"picking", "ending", "settle"} /\ jobs[v].place = p
                \/ \E c \in Contents : /\ Place(c) = p
                                       /\ State(c) # "unsorted" \/ imported[c].from = r
  IN  /\ jobs[w].step = "picking" /\ q \in jobs[w].queue
      /\ files' = [files EXCEPT ![Part(p)] = Torn]
      /\ jobs' = [Follow(jobs, Part(p), Nowhere) EXCEPT
                    ![w] = [step |-> "open", queue |-> jobs[w].queue \ {q}, ref |-> r,
                            promise |-> q[2], place |-> p, at |-> Part(p), got |-> 0]]
      /\ UNCHANGED <<source, ledger, scan, sides, loose, changes, mishaps>>
      /\ Doubt(IF shared THEN {p} ELSE {})

Discards(w) ==
  /\ files' = Unlinked(files, Part(jobs[w].place))
  /\ jobs' = Follow([jobs EXCEPT ![w] = Picking(@.queue)], Part(jobs[w].place), Nowhere)

FetchBreaks(w) ==
  /\ jobs[w].step = "open" /\ Mishap /\ Discards(w)
  /\ UNCHANGED <<source, ledger, scan, sides, loose, doubtful, changes>>

(* The source says it is gone, and the reference is forgotten.             *)
FetchFindsGone(w) ==
  LET row == {r \in {jobs[w].ref} : IsOwed(r)}
  IN  /\ jobs[w].step = "open" /\ source[jobs[w].ref] = 0 /\ Discards(w)
      /\ refs' = Gone(row)
      /\ loose' = loose \union {r \in row : \E v \in Workers \ {w} : r \in Claimed(v)}
      /\ UNCHANGED <<source, imported, scan, sides, doubtful, changes, mishaps>>

(* All of it has arrived: the promise is checked, and then decide says     *)
(* whether this node has seen the content or a group holds it.             *)
Arrive(w) ==
  LET j == jobs[w]
      got == source[j.ref]
      disk == IF j.at = Nowhere THEN files ELSE [files EXCEPT ![j.at] = got]
      closed == [jobs EXCEPT ![w].at = Nowhere, ![w].got = got]
  IN  /\ j.step = "open" /\ got # 0
      /\ IF j.promise \in {0, got} /\ State(got) = "none" /\ group[got] # "held"
         THEN files' = disk /\ jobs' = [closed EXCEPT ![w].step = "commit"]
         ELSE /\ files' = Unlinked(disk, Part(j.place))
              /\ jobs' = Follow([closed EXCEPT ![w] = IF j.promise \notin {0, got}
                                                    THEN Picking(j.queue)
                                                    ELSE [closed[w] EXCEPT !.step = "settle"]],
                                Part(j.place), Nowhere)
      /\ UNCHANGED <<source, ledger, scan, sides, loose, doubtful, changes, mishaps>>

Commit(w) ==
  LET p == jobs[w].place
  IN  /\ jobs[w].step = "commit"
      /\ IF files[Part(p)] = NoFile
         THEN jobs' = [jobs EXCEPT ![w] = Ended(w)] /\ UNCHANGED files
         ELSE /\ files' = Renamed(files, Part(p), Unsorted(p))
              /\ jobs' = [Follow(jobs, Part(p), Unsorted(p)) EXCEPT ![w].step = "keep"]
      /\ UNCHANGED <<source, ledger, scan, sides, loose, doubtful, changes, mishaps>>

(* One row for a content, for good: a second insert fails.                 *)
Keep(w) ==
  LET j == jobs[w]
  IN  /\ j.step = "keep"
      /\ IF State(j.got) # "none"
         THEN jobs' = [jobs EXCEPT ![w] = Ended(w)] /\ UNCHANGED imported
         ELSE /\ imported' = [imported EXCEPT ![j.got] =
                                [state |-> "unsorted", place |-> j.place, from |-> j.ref]]
              /\ jobs' = [jobs EXCEPT ![w].step = "settle"]
      /\ UNCHANGED <<source, refs, files, scan, sides, loose, doubtful, changes, mishaps>>

Settle(w) ==
  LET j == jobs[w]
  IN  /\ j.step = "settle"
      /\ refs' = IF refs[j.ref] = NoRow THEN refs ELSE [refs EXCEPT ![j.ref].hash = j.got]
      /\ jobs' = [jobs EXCEPT ![w] = Picking(@.queue)]
      /\ UNCHANGED <<source, imported, files, scan, sides, loose, doubtful,
                     changes, mishaps>>

-----------------------------------------------------------------------------
(***************************************************************************)
(* What the user does with what waits, one command at a time.              *)
(***************************************************************************)
Fetching == <<source, refs, jobs, scan, loose, mishaps>>
Pump == <<Fetching, changes>>
Marked(c, state) == imported' = [imported EXCEPT ![c].state = state]
Begins(op, c, step) == cmd = None /\ Change /\ cmd' = [op |-> op, c |-> c, step |-> step]
At(op, step) == cmd # None /\ cmd.op = op /\ cmd.step = step
GoesOn(step) == cmd' = [cmd EXCEPT !.step = step]
Ends == cmd' = None

(* sort_one: the bytes are filed into the group, unless it has them.       *)
Sort(c) ==
  /\ State(c) = "unsorted" /\ IsThere(c) /\ ~InRow(c) /\ Begins("sort", c, "record")
  /\ files' = Renamed(files, Unsorted(Place(c)), InGroup(c))
  /\ UNCHANGED <<Fetching, imported, take, forgetting, group>> /\ Crossed(c)

SortRecords ==
  /\ At("sort", "record")
  /\ group' = [group EXCEPT ![cmd.c] = "held"] /\ GoesOn("mark")
  /\ UNCHANGED <<Pump, imported, files, take, forgetting>> /\ Crossed(cmd.c)

SortMarks ==
  /\ At("sort", "mark")
  /\ IF State(cmd.c) = "unsorted" THEN Marked(cmd.c, "sorted") ELSE UNCHANGED imported
  /\ Ends
  /\ UNCHANGED <<Pump, files, take, forgetting, group>> /\ Crossed(cmd.c)

(* settle_missing: sort_one finds nothing to file.                         *)
SettleMissing(c) ==
  /\ State(c) = "unsorted" /\ ~IsThere(c) /\ cmd = None /\ Change
  /\ Marked(c, IF group[c] = "held" THEN "sorted" ELSE "dropped")
  /\ UNCHANGED <<Fetching, files, sides>> /\ Crossed(c)

(* Thrown away: marked, and the bytes stay.                                *)
Drop(c) ==
  /\ cmd = None /\ State(c) = "unsorted" /\ Change
  /\ Marked(c, "dropped")
  /\ UNCHANGED <<Fetching, files, sides>> /\ Crossed(c)

(* undo_one: a dropped file is there still, a sorted one is carried back   *)
(* out of the group.                                                       *)
UndoDrop(c) ==
  /\ cmd = None /\ State(c) = "dropped" /\ IsThere(c) /\ Change
  /\ Marked(c, "unsorted")
  /\ UNCHANGED <<Fetching, files, sides>> /\ Crossed(c)

Undo(c) ==
  /\ State(c) = "sorted" /\ InRow(c) /\ files[InGroup(c)] # NoFile
  /\ Begins("undo", c, "remove")
  /\ files' = Renamed(files, InGroup(c), Unsorted(Place(c)))
  /\ UNCHANGED <<Fetching, imported, take, forgetting, group>> /\ Crossed(c)

UndoRemoves ==
  /\ At("undo", "remove")
  /\ group' = IF InRow(cmd.c) THEN [group EXCEPT ![cmd.c] = "removed"] ELSE group
  /\ GoesOn("mark")
  /\ UNCHANGED <<Pump, imported, files, take, forgetting>> /\ Crossed(cmd.c)

UndoMarks ==
  /\ At("undo", "mark")
  /\ Marked(cmd.c, "unsorted") /\ Ends
  /\ UNCHANGED <<Pump, files, take, forgetting, group>> /\ Crossed(cmd.c)

(* forget, by the app when a deletion can no longer be taken back, and by  *)
(* the daemon as it starts for everything that was ever dropped.           *)
ForgetReads(c) ==
  /\ State(c) = "dropped" /\ c \notin forgetting
  /\ forgetting' = forgetting \union {c}
  /\ UNCHANGED <<Pump, imported, files, cmd, take, group, doubtful>>

ForgetDeletes(c) ==
  /\ c \in forgetting
  /\ files' = Unlinked(files, Unsorted(Place(c)))
  /\ forgetting' = forgetting \ {c}
  /\ UNCHANGED <<Pump, imported, cmd, take, group, doubtful>>

-----------------------------------------------------------------------------
(***************************************************************************)
(* The group: a download that finds the bytes among the imports takes them *)
(* (adopt_unsorted), and peers and users list, deliver and remove files.   *)
(***************************************************************************)
Take(c) ==
  /\ take = None /\ group[c] = "missing" /\ State(c) = "unsorted" /\ IsThere(c)
  /\ files' = Renamed(files, Unsorted(Place(c)), InGroup(c))
  /\ take' = [op |-> "take", c |-> c, step |-> "mark"]
  /\ UNCHANGED <<Pump, imported, cmd, forgetting, group>>
  /\ Doubt(IF AtCommand(c) \/ c \in forgetting THEN {Place(c)} ELSE {})

TakeMarksNot ==
  /\ take # None /\ take.step = "mark"
  /\ take' = [take EXCEPT !.step = "held"]
  /\ UNCHANGED <<Pump, imported, files, cmd, forgetting, group, doubtful>>

TakeMarksAnyway ==
  /\ take # None /\ take.step = "mark"
  /\ Marked(take.c, "sorted")
  /\ take' = [take EXCEPT !.step = "held"]
  /\ UNCHANGED <<Pump, files, cmd, forgetting, group, doubtful>>

TakeMarks ==
  /\ take # None /\ take.step = "mark"
  /\ IF State(take.c) = "unsorted" THEN Marked(take.c, "sorted") ELSE UNCHANGED imported
  /\ take' = [take EXCEPT !.step = "held"]
  /\ UNCHANGED <<Pump, files, cmd, forgetting, group, doubtful>>

TakeHolds ==
  /\ take # None /\ take.step = "held"
  /\ group' = IF InRow(take.c) THEN [group EXCEPT ![take.c] = "held"] ELSE group
  /\ take' = None
  /\ UNCHANGED <<Pump, imported, files, cmd, forgetting, doubtful>>

AtGroup(c) == AtCommand(c) \/ AtTake(c)

GroupChanges(c) ==
  /\ Change /\ ~AtGroup(c)
  /\ \/ /\ group[c] \in {"none", "removed"}
        /\ group' = [group EXCEPT ![c] = "missing"] /\ UNCHANGED files
     \/ /\ group[c] = "missing"
        /\ group' = [group EXCEPT ![c] = "held"] /\ files' = [files EXCEPT ![InGroup(c)] = c]
     \/ /\ InRow(c)
        /\ group' = [group EXCEPT ![c] = "removed"] /\ files' = Unlinked(files, InGroup(c))
  /\ UNCHANGED <<source, ledger, jobs, scan, cmd, take, forgetting, loose, doubtful, mishaps>>

SourceChanges(r, c) ==
  /\ Change /\ source[r] # c /\ source' = [source EXCEPT ![r] = c]
  /\ UNCHANGED <<ledger, files, jobs, scan, sides, loose, doubtful, mishaps>>

-----------------------------------------------------------------------------
(* The daemon is killed, and finishes with what was dropped as it starts.  *)
(* What was staged is never read again.                                    *)
Restart ==
  /\ Mishap
  /\ jobs' = [w \in Workers |-> Idle] /\ scan' = NoScan /\ take' = None
  /\ files' = [x \in Places |-> IF x[1] = "part" THEN NoFile ELSE files[x]]
  /\ forgetting' = {c \in Contents : State(c) = "dropped"}
  /\ UNCHANGED <<source, ledger, cmd, group, loose, changes>>
  /\ Doubt(IF take = None THEN {} ELSE {Place(take.c)})

KillCommand ==
  /\ cmd # None /\ Mishap /\ Ends
  /\ UNCHANGED <<source, ledger, files, jobs, scan, take, forgetting, group, loose, changes>>
  /\ Doubt({Place(cmd.c)})

Scans == ScanBegins \/ (\E r \in Refs : ScanReads(r)) \/ ScanWrites \/ ScanEnds
Advances(w) ==
  \/ \E rows \in SUBSET Refs : Claim(w, rows)
  \/ \E q \in jobs[w].queue : GiveBack(w, q) \/ Open(w, q)
  \/ Arrive(w) \/ FetchFindsGone(w) \/ Commit(w) \/ Keep(w) \/ Settle(w)
Works(w) == Advances(w) \/ StopRun(w) \/ FetchBreaks(w)
Sorts ==
  \/ \E c \in Contents : Sort(c) \/ SettleMissing(c) \/ Drop(c) \/ UndoDrop(c) \/ Undo(c)
  \/ SortRecords \/ SortMarks \/ UndoRemoves \/ UndoMarks
Others ==
  \/ \E c \in Contents : ForgetReads(c) \/ ForgetDeletes(c) \/ Take(c) \/ GroupChanges(c)
  \/ TakeMarks \/ TakeHolds
  \/ \E r \in Refs, c \in Contents \union {0} : SourceChanges(r, c)
  \/ \E r \in Refs : HourPasses(r)
  \/ ScanBreaks \/ Restart \/ KillCommand

Next == Scans \/ (\E w \in Workers : Works(w)) \/ Sorts \/ Others
Spec == Init /\ [][Next]_vars

(* A scan and a pump that has begun goes on, the next tick starts another, *)
(* and time passes.                                                        *)
FairSpec == /\ Spec /\ WF_vars(Scans)
            /\ \A w \in Workers : WF_vars(Advances(w))
            /\ \A r \in Refs : WF_vars(HourPasses(r))

-----------------------------------------------------------------------------
TypeOK ==
  /\ source \in [Refs -> Contents \union {0}]
  /\ \A r \in Refs : refs[r] = NoRow \/ /\ refs[r].promise \in Contents \union {0}
                                        /\ refs[r].hash \in Contents \union {0}
                                        /\ refs[r].fails \in 0 .. MaxAttempts
                                        /\ refs[r].leased \in BOOLEAN
  /\ imported \in [Contents -> [state : {"none", "unsorted", "sorted", "dropped"},
                                place : Waits \union {Nowhere}, from : Refs \union {0}]]
  /\ group \in [Contents -> {"none", "missing", "held", "removed"}]
  /\ files \in [Places -> Contents \union {NoFile, Torn}]
  /\ \A w \in Workers : Claimed(w) \subseteq Refs
  /\ forgetting \subseteq Contents /\ loose \subseteq Refs
  /\ doubtful \subseteq Waits /\ changes \in 0 .. MaxChanges /\ mishaps \in 0 .. MaxMishaps

Busy(c) == AtGroup(c) \/ c \in forgetting

(* What waits to be sorted is under the name its row gives, whole, and the *)
(* group has what it holds (keep, conflict names, sort_one, undo_one),     *)
(* wherever no two files were given one name at once, none was given that  *)
(* of a file already decided on, and nothing was killed or crossed halfway. *)
InPlace ==
  \A c \in Contents : (Place(c) \notin doubtful /\ ~Busy(c)) =>
    /\ State(c) = "unsorted" => files[Unsorted(Place(c))] = c
    /\ group[c] = "held" => files[InGroup(c)] = c

(* Two workers never hold one reference (claim, refresh), unless its lease *)
(* ran out under one of them or its row went and came back.                *)
OneClaim ==
  \A v, w \in Workers : v # w => Claimed(v) \intersect Claimed(w) \subseteq loose

(* What becomes dropped is there to be thrown away: only the user decides  *)
(* so, not a sort that does not find the bytes (settle_missing).           *)
DroppedByUser ==
  [][\A c \in Contents : (State(c)' = "dropped" /\ State(c) # "dropped") =>
       IsThere(c) \/ Place(c) \in doubtful']_vars

(* A content keeps the row it was first given, and the row only moves from *)
(* waiting to decided, except by undoing, and then its bytes are waiting   *)
(* again (the primary key of imported, the WHEREs of sorted, dropped and   *)
(* undone).                                                                *)
ForwardOnly ==
  [][\A c \in Contents : imported'[c] # imported[c] /\ State(c) # "none" =>
       /\ imported'[c] = [imported[c] EXCEPT !.state = State(c)']
       /\ State(c) # "unsorted" => /\ State(c)' = "unsorted"
                                   /\ IsThere(c)' \/ Place(c) \in doubtful']_vars

(* What the source goes on offering is settled in the end, whatever broke, *)
(* was retired or was killed on the way (refresh, retire_gone, give_back,  *)
(* lease_cutoff).                                                          *)
OfferedSettle == \A r \in Refs : <>[](source[r] # 0) => <>IsSettled(r)
=============================================================================
