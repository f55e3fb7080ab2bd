# A verification development for p2parchiver

The program under `src/` archives files between the members of a group, peer to
peer. Each member runs a daemon (`ac-node`), and a command line and a desktop
application that work on the same SQLite databases. There is no central copy:
who belongs to a group and which files it holds are replicated by exchanges
between pairs of peers. This directory models the parts of the program that
decide those two things, model-checks them with TLC on small instances, and
proves theorems about them with TLAPS for all values of the constants.

Paths below are relative to `src/crates/` unless they start with `src/`.

## The system

| component | state | operations | works with |
|---|---|---|---|
| **ac-groups: chain, standings** (`chain.rs`, `standing.rs`, `members.rs`) | a hash chain of entries signed by the admin (create, add, remove); one signed statement per member (unanswered, in, out) with a sequence number | check and append an entry, fold the members, find a departure, compare two statements | pure data; every other part of ac-groups |
| **ac-groups: store** (`store.rs`) | tables of groups, entries, standings, and two caches of them: the members and a digest | `create`, `author`, `put`, `adopt`, `author_standing`, `refresh_digest`, `forget` | written by the daemon and by commands of other processes (`ac-node/src/ops/group.rs`), each with its own connection |
| **ac-groups: exchange** (`sync.rs`, `ac-node/src/group_link.rs`) | the fetches under way and deferred | Ask/Heads, Fetch/Entries/Unavailable, answering an invitation, ratifying a departure, expiry | the store; rounds opened by the supervisor |
| **ac-files: catalogue rows** (`store/mod.rs`, `store/row.rs`, `path.rs`, `wire.rs`) | per group: path, content hash, added, removed, held; a counter of log positions | `record`, `merge`, `remove` with the rules for a path's and a content's winner | the daemon and the commands of `ac-node/src/ops/file.rs` |
| **ac-files: log and exchange** (`store/log.rs`, `sync.rs`, `ac-node/src/file_link.rs`) | `served_seq`, a cursor per peer, a cached digest; reads under way and deferred | Ask/Heads, Changes (a page), the one re-read, `tick` | the rows; rounds opened by the supervisor |
| **ac-files: bytes** (`blob.rs`, `content.rs`, `dirname.rs`) | the files on disk and staged downloads | stage, commit, verify, serve, end of a download, the moves and unlinks of a merge | the `have` flag of rows; the supervisor's pulls |
| **ac-supervisor** (`sync.rs`, `missing.rs`) | who to dial, rounds under way and owed, sources of a group's content, backoffs, proposals to hang up | dial queue (16 a minute; backoff from 15 s to 30 min), a round of groups and files with every member (60 s, retried after 5 s at most twice), pulls (one source a group, two groups, eight transfers), hang-up handshake (propose, ready, busy) | drives both exchanges; reads news and wanted counters of both stores |
| **ac-net: admission** (`admission.rs`, `admitted_peers.rs`, `attest.rs`) | handshakes with a deadline of 15 s, admitted peers | mutual proof of an attestation signed by the server, renewal | every exchange waits for it |
| **ac-net: connections, transfers** (`connectivity.rs`, `transfer.rs`, `throttle.rs`, `limits.rs`, `swarm.rs`, ...) | relayed and direct connections, transfers, a token bucket | hole punch, streams with caps and deadlines | libp2p |
| **ac-net: identity, invites, configuration** | keys and files | encodings | all |
| **ac-server** (`store.rs`, `daemon.rs`, `invite.rs`) | clients, invites, revocations, presence | redeem an invite in one transaction, attest for 24 h, revoke | clients' link |
| **ac-import** (`ledger.rs`, `verdict.rs`, `ac-node/src/ops/import/`) | a ledger of references (owed, leased for an hour, settled) and of contents (unsorted, sorted, dropped); files under `.unsorted` | scan, claim, fetch, settle, sort, drop, undo, take, forget | ac-files; `import_link.rs` drives it from the daemon's tick |
| **ac-import: the sources** (`registry.rs`, `sources/`, `oauth.rs`) | configuration and tokens | list, read, sign in | folders, a drive, a phone |
| **ac-node: daemon and commands** | one task with a 5 s tick; `node.lock` | hands each event to the links in turn | all |
| **ac-desktop** | the user interface | the commands of `ops` | both stores |

How they interact: the daemon is one task, so a handler of a link runs to its
end before the next event is looked at. The commands are other processes that
share only the SQLite files, so a command runs between any two *transactions*
of a handler. Between nodes there are only requests and responses, which a
closed connection or a timeout may lose and which may come after their sender
was given up.

What is hard here: reads made before the transaction that relies on them;
replies that arrive late; replicas that learn of additions, removals and
re-additions in different orders and through third peers; caches (members, the
two digests) that stand in for what they summarise; cursors into a log whose
rows move; a kill between two transactions of one operation. A connection whose two ends
see it open and close at different times; questions whose answers come after their
peer has gone; a row that claims bytes which another operation is moving. `PROJECT.json`
lists each under `hazards` with its line and the properties that watch it, and notes what of it they except
or that none does.

What makes each part correct:

- **chain and standings**: the fold and the scan say what the whole chain
  says; a set of statements settles to one whatever the order they come in.
- **group store**: the rows stay a prefix of the admin's chain, nothing
  acknowledged is lost, the caches describe the rows, a departure is final
  until the user accepts again.
- **group exchange**: nodes converge; nobody learns of a group past its removal;
  one departure causes one removal.
- **catalogue rows**: one copy of any content; a removed file stays removed; the
  last copy of a content is not lost to a conflict.
- **catalogue exchange**: a cursor passes nothing unseen; equal digests mean
  equal catalogues; nodes converge.
- **bytes**: a row marked as held has the bytes its hash names; a merge does not lose
  the only copy; what is listed is fetched in the end.
- **supervisor**: work that is there is eventually done, limits hold, nothing waits
  on a peer that will not move it.
- **admission**, **server**: a connection is decided, one way or the other; a
  revoked client is shut out within the life of an attestation; one way in to a client.
- **imports**: a reference is one worker's at a time and settled in the end; a file
  stays where its row says until the user decides, and a decision stands.

## The modules

| module | what it is |
|---|---|
| `GroupChain` | the chain: entries, the rules they pass, members, departures, what a peer may be served |
| `GroupStandings` | statements and the order that picks one of two |
| `GroupStore` | the store of **one** node under several processes; one statement or transaction is one step |
| `GroupLog` | what the exchange of groups promises, without messages: one log and its readers' copies |
| `GroupSync` | the exchange between **several** nodes; one handler is one step; implements `GroupLog` |
| `CatalogueRows` | the rows of one catalogue: `Record`, `Merge`, `RemoveRow` as functions of a store |
| `CatalogueSync` | the exchange of catalogues between several nodes |
| `FileStore` | rows **and** disk of one node: a merge, a download and a command, one disk operation or statement a step |
| `SupervisorRules` | what the supervisor does with an event, as functions of a record |
| `Supervisor` | the supervisor with its connections, the questions under way and the peers |
| `Imports` | one import source: its ledger, its workers, the files and what the user does with them |
| `Enrolment` | the server: clients, invites, revocation and its connections |
| `Admission` | nodes admitting each other over several connections; composed with `Enrolment` |
| `MC...` | the instances TLC checks |
| `GroupStoreProofs`, `GroupSyncProofs`, `CatalogueSyncProofs`, `FileStoreProofs`, `SupervisorProofs`, `SupervisorPullProofs`, `AdmissionProofs`, `ImportsProofs` | the theorems |

`GroupStore` and `GroupSync` extend `GroupChain` and `GroupStandings`; `CatalogueSync`
and `FileStore` extend `CatalogueRows`; `Admission` extends `Enrolment`. Two things
are modelled twice on purpose. `GroupStore` asks what interleaved *processes* do to one
database; its peers are an environment that may tell any part of the admin's chain and any
statement. `GroupSync` asks what interleaved *nodes* do to each other; there a handler is
atomic and a node's caches are what they should be. What `GroupStore` shows of operations
that do not overlap (`CacheInStepAlone`, `DigestInStep`) is what `GroupSync` takes for
granted. In the same way `CatalogueSync` is about nodes, and `FileStore` about the steps of
one node between rows and bytes; both use the rules of `CatalogueRows`.

In several modules a definition with a longer name stands just before the one it
resembles (`ReadAgain` before `Read`). It is that definition with a plausible
mistake, and `mutants` in `PROJECT.json` names the property that notices it. The
specifications do not use them.

### How state and actions correspond to the code

**GroupChain.** A chain is a sequence of entries `[op, peer]`; hashes and
signatures are abstracted by identity: since an entry's hash covers the hash
before it, agreeing on the hash at a position is agreeing on the prefix.
`Members` and `Departures` are written over the whole chain (the last entry that
names a peer decides); `FoldMembers` and `DepartureAt` are the code's loops as
recursive functions, and `FoldIsMembers` and `LoopIsDeparture` show that the two agree.

**GroupStore.** `chain`, `head`, `members`, `standings`, `digest`, `state` are the
rows and columns of the tables. `pc`, `seen`, `op`, `word`, `offer`, `todo` are
what a process has read and not yet used. `author` is `AuthorRead`, then
`AuthorCommit` or `AuthorRaced`; `author_standing` is `StandingRead`,
`StandingCommit`, `RefreshRead`, `RefreshCommit`; an answer from a peer is `Adopt`
or `Receive`, `PutRead`, `PutCommit`, `AnswerInvitation`, `Ratify`, then `author` for
each departure. `Crash` kills a process between two steps. `log` is the admin's
chain as the world knows it, and `stored`, `spoken`, `overlap`, `crashes` are
history: what `author` reported as written, our strongest statement, whether an
operation ever began while another ran, how many were killed.

**GroupSync** and **GroupLog.** `store[n]` is a node's row of the group, `inflight[n]`
its fetch, `msgs` the messages under way. `Ask`, `OnHeads`, `OnFetch`, `OnEntries`,
`OnUnavailable`, `Timeout`, `Expire` are the handlers; `AddOrRemove`, `Accept`,
`Leave` the commands; `Lose` is a message lost. `Refused` has the batches `put` and
`adopt` reject, and a batch that starts past our head (`Gap`) is asked for again.
`GL` is `GroupLog` with the admin's chain for the log and every other node's chain for its
copy: the admin's commands and the departures it makes official are `Write`, an answer
applied is `CatchUp`, `Expire` is `Forget`, and all else is a stutter.

**CatalogueRows.** A path is a sequence: `<<name>>` or `<<name, hash>>` for the
conflict name made from it. `Merge` follows `Files::merge`: what it keeps of two
rows with one hash, which of two rows wins a path, the copy the loser goes to,
and the twin under another path that is dropped.

**CatalogueSync.** A node's store has its rows, `seq`, `served`, a cursor per peer
and the cached digest; `reads` and `deferred` are the daemon's. A digest is what it
hashes (`View`). An adding is two steps, the check of `add_one` and `record`'s
transaction, with the daemon running in between. `Killed` ends a daemon after some
of a page's rows were merged and before the cursor is moved.

**FileStore.** `files` is the disk: under each path the file and its partial
(`stage`), a file being the sequence of the halves written to it, so that it can be torn
or mixed from two contents. `MergeMoves` is a merge's transaction with its renames and
unlinks, `MergeCommits` its commit: nothing else can write a row in between, but a download
or a command can touch the disk. A download is `Fetch`, `Placed` or `FetchLocal`, `Reply`, `Chunk`
by `Chunk`, `End` (hash, rename or discard), `MarkHeld`, and `BlobDone`, the supervisor's own
mark. An adding is `AddStage`, `AddCommit`, `AddRecord`; a removal is `Remove` and
`RemoveBytes`; `Verify` and `VerifyMark`. `KillDaemon` and `KillCommand` end either between two
of these, and a daemon may sweep old partials when it starts. `crossed` is history: the
paths that an operation changed while another was at them, or that a kill left half changed.

**SupervisorRules** and **Supervisor.** `v` has one field per field of the code's `Supervisor`
and its `Peer` and `GroupState` (`pending`, `dialing`, `connected`, `retry`, `closing`, `source`,
`queued`, `transfers`, `turn`, `waiting`, ...), with the counters of the two stores that it reads, and what its
actions started (`dials`, `rounds`, `reads`, `queries`, `blobs`, `closes`). An event of `PeerEvent` is an operator
on `v`, followed by `Dispatch`, the actions `supervisor_link.rs` performs. `Tick` has the parts of
`on_tick` in their order, with the timers it may find run out. `link` is how far a
connection has got; peers connect, answer, refuse and disappear as they like. A peer
answers for holdings as its contents change; only `Holders` are sure to have everything.

**Imports.** `source` is what the source offers now, `refs` the table of references (attempts,
lease, whether settled), `imported` the table of contents and their state, `files` the disk. A
scan is `ScanBegins`, `ScanReads`, `ScanWrites`, `ScanEnds`; a worker claims (`Claim`), begins a fetch
under a name (`Open`), and ends it in `Arrive`, `Commit`, `Keep`, `Settle` or one of the failures. `Sort`, `Drop`,
`Undo`, `ForgetReads`, `Take` begin the commands, each followed by its disk operations and statements.
`HourPasses` is a lease running out.

**Enrolment** and **Admission.** `clients` and `invites` are the server's tables,
`service[n]` what its listener holds of a client: the connections open, the current
one, those being closed. On the nodes, `enrolled` and `mine` are the daemon's credential and `saved`
its copy on disk; `peers[<<n, m>>]` is `n`'s handshake with `m`. A connection is a slot
between two nodes; each end sees it open (`Connected`) and end (`Disconnected`) at its own time,
and `alive` says which work. `Tick` is the admission's tick: it renews, sends, and closes
whatever ran out of its 15 seconds, which may be any handshake that is not complete.

## What is checked

| run | instance | states | shows |
|---|---|---|---|
| `StoreSafety` | two peers, the admin's or the member's store, the daemon and one command, two additions, one kill | 776 000 | the rows stay the chain, acknowledged entries stay, the head moves with the members, the digest is in step when idle, a departure is final, our statements climb, each departed member is removed in the end |
| `SyncConverges` | two nodes and a guest that never comes, two additions, two mishaps | 27 000 | the exchange implements `GroupLog` (`FollowsLog`); scans agree; the nodes come to agree |
| `CatalogueSafety` | three nodes in a line, two contents, two edits, one mishap | 899 000 | true digests, ordered log, cursors that skip nothing, one copy, tombstones that hold |
| `CatalogueConverges` | two nodes, two contents, two edits, one mishap | 48 000 | the catalogues come to say the same |
| `FileStoreHolds` | one name, two contents, four listed rows, one command, one mishap | 388 000 | rows claim only bytes that are there, a merge keeps a copy, everything listed arrives |
| `SupervisorSafety` | two members, one group, two files, one to a page, one connection at a time, one upset | 382 000 | retries end, counts are true, one source a group, news kept |
| `SupervisorServes` | one member, two groups with a file each, one transfer at a time, one upset | 62 000 | one source a group, which something moves; everything missing arrives, every call ends |
| `ImportsHold` | two references of one name, two contents, one worker, two changes, one mishap | 1 740 000 | files are where rows say, decisions stand, only the user drops |
| `ImportsServed` | one reference, two workers, two contents, one change, two mishaps | 325 000 | one claim at a time, everything offered is settled |
| `AdmissionHolds` | two nodes, one still to join, two connections each way, two hours, two changes | 439 000 | connections are watched and decided, revocation takes effect, one way in |
| `TwoMembers` | two members, two groups with a file each, nothing goes wrong | | **violation** of `OneMember`: files of one group come from both members at once |
| `ContentLost` | two nodes, two names, two contents, no removal | | **violation** of `ContentKept`: a conflict between contents loses one |

`ImportsHold` uses the symmetry of contents; it checks no liveness. The type invariants of
`FileStore`, `Supervisor`, `Imports` and `Admission` hold in these instances as well; they are left out of
the configurations because they say nothing that the other properties do not.
Those of `GroupSync`, `Imports` and `Admission` are proved.

### Where the code and its documentation disagree

Two are kept as runs. *`ContentLost`*: a tombstone that deduplication wrote carries the time of an
adding. It can beat newer-named content of somebody else under its path, and a
row that loses to a tombstone gets no conflict copy, so a content disappears
although nobody removed it (`docs/ac-files.md:42` and `:44`).

*`TwoMembers`*: "each active group missing files downloads from one member at a time, its source"
(`docs/ac-supervisor.md:121`). When a peer's transfers end, `continue_pull` (`ac-supervisor/src/sync.rs:923`) asks it
for the next page of *every* group it is the source of, also of one it has just been asked about. At the end of
that group's backlog the peer is spent and the next member becomes the source, though the first question is still
open; when it is answered, both send. The same file may then be sent twice at once, into one partial, since `fetch`
does not look whether it is under way. It takes two groups shared with one peer, and nothing need fail. `spoiled`
says when a peer was asked so (`Twice`), and `OneSource` and `SourceDriven` are claimed until then.

These were met while modelling. The properties above are stated so that they do not
depend on them, and say where:

*Groups.*

1. `refresh_digest` (`ac-groups/src/store.rs:718`) reads the chain before its transaction. An entry
   stored between the two is left out of the member table until the next write, and the table
   decides whom the group is shared with. Hence `CacheInStepAlone`.
2. `answer_invitation` (`ac-groups/src/sync.rs:321`) decides from three reads that the user said nothing,
   then writes over whatever was said since: a user who leaves in that moment is
   back in an unanswered invitation. Hence `LeftStaysAlone`.
3. The admin deletes a former member's `Out` so that it cannot beat the statement of the same
   peer added again (`docs/ac-groups.md:37`). A third peer that has not heard of the removal
   still serves it (`store.rs:537`); if it wins, the member is removed a second time.

*Files.*

4. A removal leaves a tombstone only if somebody has read *our* log up to the row
   (`ac-files/src/store/mod.rs:575`). A row that came *from* a peer was never served by us, so the
   removal deletes it, the digests differ, the peer's log is read from the start,
   and the file is merged back.
5. `add --force` over a held path replaces the bytes before it records them
   (`ac-node/src/ops/file.rs:141`): killed in between, the row claims bytes that are gone until
   `verify`. `record` also does not look again for the content under other paths.
6. The supervisor marks a path as held a second time when `BlobDone` arrives (`ac-supervisor/src/sync.rs:531`);
   a merge may have given the path another content since the download marked it.
7. A removal unlinks the bytes after its transaction and can take away those of a file added
   in between. A removal merged from a peer never unlinks anything.
8. Merging a losing row again writes its conflict copy anew as not held, and may bring back a
   copy that was removed. A partial is named after its path only, so one of another content is
   continued; the hash at the end notices.

*Imports.*

9. `name_taken` (`ac-import/src/ledger.rs:604`) counts only files still unsorted. The name of a dropped file
   whose bytes are still there is given again, and the sweep of dropped files then deletes the newcomer.
10. Two workers that fetch references of one name share one `.part`. A file moved into its group just
    before a kill is not there for the next sort, which then marks it dropped. An `undo` can
    overwrite a file that has taken the name since.
11. A worker whose lease ran out can give back the lease of the worker after it, and a third
    attempt can be retired while it is under way.

*Supervisor.*

12. `dialing` is cleared only by `Verified`, `Gone` and `DialFailed`. A dial that ends otherwise (a connection
    that is closed before it was ready) leaves the peer there, and it is not dialled again
    (`docs/ac-supervisor.md:39`). `spoiled` calls this a leak.
13. With several members, a group is exhausted when the last of those asked cannot help, even if one
    that connects meanwhile could (`sync.rs:1175`, `docs/ac-supervisor.md:125`): it waits for the next backoff.
    `WantedArrive` is therefore claimed for a single other member.
14. A transfer that fails after its peer has gone makes an empty record of that peer, which may then be asked
    for holdings though it is not connected (`ac-supervisor/src/sync.rs:541`, `:923`). `spoiled` calls this a stray.
    `CountsTrue` holds all the same, as long as what was under way with a connection has failed before the next
    to that peer is made (`Connects`): the code counts by peer, so a later failure would be counted off the new one.
15. While the disk is full a connection with nothing to do but download is not closed, and a hang-up
    agreed on by both can cut a read the other end has just begun.

16. `pump` passes over queued files that have come by other means meanwhile (added by the user, say). If that
    empties the queue in a tick, `resolve_stalled` (`sync.rs:1104`) sees no group to let go of: the peer stays the group's
    source with nothing to send, and the group's other files wait until the connection is closed. Hence "vanished" in `spoiled`.

*Admission.*

17. A peer stays admitted while it is connected although its attestation expires or it is revoked
    (`docs/ac-net.md:27` speaks of every peer). Hence `RevokedShutOut` is about admitting.
18. An enrolment whose answer is lost has spent its code. Whether a client may enrol is asked when
    it connects, not when it redeems.
19. One side may be admitted and the other not until the deadline closes the connection.

### Bounds, and why they are enough

- `MaxAdds` (2) additions let a peer be added, removed and added again, the
  shortest history in which a departure, a re-addition and the scan for the last
  removal differ. Removals need no bound: each needs an addition before it.
- `MaxSeq` of the groups (2) limits only *users*: they speak while their last
  statement is below it, so an invitation is answered, accepted and left. The
  daemon's own statements are not limited by it.
- `Guests` are the peers that are added and removed; one of them runs no node, an invitation nobody answers. In
  `StoreSafety` the other peer is one, in `SyncConverges` there are two nodes, so no news comes through a third; the
  theorems below hold for any number.
- `MaxMsgs = 1` keeps one message in flight *at a time*; still an answer can arrive
  after its fetch was given up and another begun, because `Timeout` may fire while it
  is under way. Two answers that overtake each other differ from that only by which
  of them is dropped.
- `MaxMishaps`, `MaxUpsets` and, of `Admission`, `MaxChanges` limit losses, early timeouts,
  expiries, failures and kills in all. `MaxCrashes` kills a process of the store once, between any two steps.
- `PageSize`, `MaxReads`, `MaxDeferred` of the catalogue are 2048, 8 and 2048 in the code and 1 here, so
  that pages end, slots run out and the queue fills with three nodes and four rows.
- `MaxEdits` (1 to 3), `Names`, `Hashes`, `Clock`: two contents meet under one name and
  one content under two; the clocks may agree or differ, and ties are included.
- `MaxSeq` of the catalogue (3, 9 or 14) stops a node from *opening* rounds once its
  log is that long. A re-read may write rows again at new positions, so positions
  grow as long as rounds go on. In `CatalogueConverges` it is above every position
  reached before the catalogues agree, with room to spare. `Ask` has two more bounds of
  this kind, described at its definition: neither end of a connection opens two
  rounds more than the other, and a read that hangs is given up before the next round.
- `FileStore`: a merge begins while the log is below `MaxSeq` (3), which lets the four listed rows
  displace, restore and remove one another; a file has two halves, the fewest that can be mixed.
- `Supervisor`: 16 connections, 8 transfers, 3 dials and 512 paths in a query are 1 or 2 here, so that the
  limits are met with two peers and two files. In `SupervisorSafety` two peers compete for the one
  connection and two files need two queries; in `SupervisorServes` two groups compete for one peer and one transfer.
- `Imports`: `MaxAttempts` is 2, so that a reference can be retired and offered again. Two references
  of one name are the smallest case of a name taken.
- `Admission`: two connections between two nodes are the fewest for an end that is seen after the next
  beginning; an attestation lives one hour of two, so that one expires and is renewed. An hour passes
  only while no handshake is under way: one takes 15 seconds. A revoked client that gives
  `ac join` again matters only with three changes (the revocation, a restart with what is then on its disk, and a dial) and two joined
  nodes: the run does not reach that, and `RevokedStayOut` proves it, as for any number of changes.

`CHECK_DEADLOCK FALSE` is set in the catalogue's, `FileStore`'s and `Admission`'s configurations because the
bounds really stop the model: when edits, mishaps and positions or hours are used up nothing is
left to do. The program itself goes on. The group, supervisor and import
models never stop and are checked for deadlock.

### Fairness

- Handlers of the daemon, once begun, run to their end: the daemon is one task and
  none of them waits for another process (`WF` of `DaemonStep` and what it calls, and of
  the delivery of a message to its node).
- Rounds are opened again and again with every member (`SF` of `Ask`, and of `HeardAgain`
  in the store): the supervisor asks on every connection, on every change, and at
  the latest when a group's backoff of at most 30 minutes ends. `SupervisorServes` shows
  the calls and questions that this rests on.
- A fetch or a read that nobody will answer is given up (`WF` of `Timeout`): `tick`
  drops it 30 seconds after it was made.
- `FileStore`: an open transaction and a transfer go on (`WF` of `Progress`), and a missing file is fetched
  again while it is missing (`SF` of `Fetch`), which is `WantedArrive` of the supervisor.
- `Supervisor`: the daemon ticks, a timer runs out, whatever is under way ends well or badly, the
  server says who is online, libp2p closes a connection that carries nothing. All of this is weak fairness of
  the steps that end those conditions. Of queries or transfers that are the same, which have ids, only the first two are said
  to end; more would only ask more. Liveness is claimed when no event was lost to the supervisor
  (the leak and the stray above) and the disk has room in the end (`Undisturbed`).
- `Imports`: a scan and a pump that began go on, the tick starts others, leases run out.
- `Admission`: the daemon handles the swarm's events and its requests, and each tick
  closes the handshakes that are too old.
- Nothing makes a user type a command or a peer say anything new, and a process that
  commands started may stay where it is.

## What is proved

The proofs are checked by TLAPS for every set of peers, nodes, connections, references or workers, every
number of command processes and every bound; they rest on the assumptions named in the modules:
`AdminAssumption` (the admin is a peer whose key its id yields), `SelfAssumption`,
`ProcAssumption` (the daemon is not a command), `PeerAssumption` (there are finitely many peers),
`NodeAssumption`, `RowAssumption`, `SizeAssumption` (a page has a row and there is a slot for a read), `StoreAssumption` (what peers list
are well-formed entries, and a clock shows a positive time), `EnrolmentAssumption` (lifetimes are at least an hour, and a client can
have a connection), `AdmissionAssumption`, `ImportAssumption` (a reference has one name, and what is torn is
no content) and the `BoundAssumption`s.

**GroupStoreProofs.** `Invariance` is `Spec => []IInv`. The properties alone are not
inductive: that a commit leaves the rows a prefix of the admin's chain depends on
what the process had read. `IInv` is therefore

- `TypeOK`, and `StoredIsLog` itself;
- `Phases`: what goes with where a process is: one that authors an entry is at the
  admin and the group is known, one that applies an answer read no more than there
  is, the admin never expires an invitation;
- `Copies`: what a process has read of the chain is a prefix of the admin's chain,
  and so is the answer being applied;
- `AdminOwns`: in the admin's store the rows *are* the log, and it is never an
  invitation; a group that is not known has no rows;
- `AcknowledgedAt`: every acknowledged entry stands at its place in the rows.

The head check is what makes the step go through: a process that read `k` entries
commits only if the head is still `k`, so what it appends follows what is there.
From it come `TypeCorrect`, `StoredCorrect`, `AcknowledgedCorrect`, `HeadMovesCorrect` and
`OnlyMembersStandCorrect`. What holds only when no two operations overlap needs a second
invariant, `AInv`: without overlap at most one process is not idle, what it has read of
the chain is what the rows hold, the member table is the chain's fold, and an invitation
that is being answered or expired still is one. It gives
`CacheInStepAloneCorrect` and `LeftStaysAloneCorrect`, and with the first two disagreements above says
what the overlap costs. A third, `BInv`, is about what `author_standing` leaves half done between its
two transactions: where no operation overlaps, the digest describes the statements held, except while
the one process at work still has to refresh it or was killed before it did; and what is about to be
said has a number above ours that is held. Its steps go process by process: the one at work is
followed through its labels, and every other is idle and has nothing read (`OthersIdle`). From it come
`DigestInStepCorrect` and `OwnWordClimbsCorrect`.

**GroupSyncProofs.** The exchange implements that log (`SyncFollowsLog`), with any number of nodes, messages,
losses, late answers and timeouts. What makes the step go through is an invariant over the *messages*
(`SInv`): every answer under way is a piece of the admin's chain that ends where its receiver may know of it.
The server cut it by its own members, which may be those of long ago, and the receiver may have
moved on since; but pieces stay pieces when the log grows (`PieceKept`). An answer applied
then takes a chain to a later beginning of the log (`PutChain`, `CopyStep`), the admin's commands and
ratified departures append to it (`WriteStep`), and `Expire` applies only to one who is no
member by its own chain. `SyncTypeCorrect` is the type invariant that goes with it,
and `ScansAgreeCorrect` that the code's loops are right on whatever chain a node comes to hold.
The abstract log keeps what it promises: every copy begins the log and ends where its reader may still know
of the group (`LogFollowed`). Through the refinement that holds of the nodes' chains: of any two one begins the other
(`CopiesNeverFork`), and no step takes an entry from a node that is a member by its own (`MembersKeep`).

Before that, `GroupSyncProofs` has what holds of any chain and any statement: what `create`, `add` and `remove` do to the members
(`MembersCreate`, `MembersAdd`, `MembersRemove`), that the admin stays a member of every
valid chain (`AdminStays`), that a departure is at one place (`DepartureUnique`), and
what a peer is served that is no member of a valid chain (`FormerServedUpToRemoval`):
nothing unless some beginning of the chain had it as a member, and then everything up to a removal of it
that found it a member and after which no longer beginning has it, so its last.

The loops of the code run over the entries once and forget: `FoldIsMembers` and `LoopIsDeparture` show that
they compute what `Members` and `Departures` say of the whole, for chains of any length. This is an
induction over the chain; the library's induction theorems cannot be used here, so it is made
from a smallest counterexample: the natural numbers are well-founded, so if the loop went wrong anywhere there
would be a first place, and the place before it is right (`LeastNumber`). Of statements: their order is strict and
total (`WinsTotal`, `WinsTransitive`), so taking the later of two is idempotent, commutative and
associative (`LaterIdempotent`, `LaterCommutes`, `LaterAssociates`): whatever the order and
number of times a set of statements is heard, it settles to one.

**CatalogueSyncProofs.** First the row rules, for any rows, names, contents and times: of two versions of a
path exactly one wins and winning is transitive (`WinsPathTotal`, `WinsPathTransitive`), of
two paths with one content exactly one keeps it (`WinsHashTotal`). Merging a row from a peer
keeps one copy of any content (`MergeKeepsOneCopy`), does not bring back removed content
(`MergeKeepsRemoved`), and writes the log so that cursors and the cached digest stay right
(`MergeWritesLog`). The argument takes `merge` in two halves, as the code has it: the first
writes at most the displaced row and the settled one, after which only the row just
written can have a twin (`OneCopyBut`); the second removes that twin, and changes no
content. Only `MergeKeepsOneCopy` assumes that the store had one copy to begin with, which commands
may break (see the hazard at `ops/file.rs:105`); the other two hold of any store (`TwinThere`). `FileStoreProofs`, about another
module with the same rules, repeats the few of these facts it needs.

Then the exchange of catalogues, for any nodes, links, names, contents, page size and
limits. From one merge to a page of them is an induction over the page (`MergedRun`,
again from a smallest counterexample): `MergesKeepOneCopyCorrect` and `TombstonesHoldCorrect` hold
of every page, cut short by a kill or not. `DigestTrueCorrect` and `LogOrderedCorrect` follow from what each write does to the counter:
a row that changes gets a position past all there were. `CursorSkipsNothingCorrect` is about the messages. The log
past a cursor is finite and sorted (`LogThere`, `AfterIsLog`), so a page has every row from where it was
asked for up to its `next` (`PageThere`); and since a row that changes moves past `next`, it still
has them when it arrives, however late (`CoversOnward`). The receiver moves its cursor only for
the answer to the read it waits on, which began where its cursor stands. The invariant is `CInv`:

- `StorePart`: types, digests, positions, and no cursor past its peer's counter;
- `MsgPart`: a page under way has each row of its sender that stands between `after` and `next`, as it is now;
  heads and requests say nothing that the log has not reached;
- `ReadPart`: one read a peer, from where the cursor stands (the re-read has set it back); who waits is in the queue once
  and has no read under way, and somebody waits only while every slot is taken;
- `UserPart`: an adding under way is one that a user may make.

`TypeCorrect` includes that reads and queue keep within their limits.

**FileStoreProofs.** Rows and bytes of one node, for any names, contents and clocks, with one merge, one download and one
command interleaved step by step. `HeldIsOnDisk` says what a row claims when nobody is at its path; what carries it from
operation to operation is what each of them has in hand halfway. `FInv` says that, path by path, of every path that
nothing crossed (`PathTrue`): what the row claims (`RowTrue`); that the partial a download appends to holds what
it counted, and that a file it placed is whole and still wanted (`DownloadTrue`); that what an add staged or renamed is
the content it will record (`CommandTrue`); and that while a merge has moved bytes and not yet
committed, the disk is as the rows it is *about to* write say. Only then may `verify` see a file missing that a row claims. A step that
changes a path where another operation is crosses that path, so each operation may be looked at
alone (`DownloadKeeps`, `CommandKeeps`, and a lemma for each of their steps). The hard step is the merge: its two halves rename up to two
files in an order that matters, into names that may themselves be taken, and leave every claim that was true
true of where the bytes are now (`DisplacedEffect`, `OneKeptEffect`, `MergedTrue`). For this nothing is assumed of which conflict
names peers list.

`MergeKeepsACopyCorrect` is about the same renames: none of them may end up on the only copy of a content that the group still
has. Here one must assume of the lists that a conflict name is listed with the content it is named after (`ListedNamed`); a peer that listed other content there
would have it overwritten, wanted elsewhere or not, by the file displaced to that name. The code derives a conflict name from the content only (`path.rs:103`), and
the model's users add nothing under one (the instance's `PeersList` is of that form too), so a node that keeps to the model lists nothing else: that is the first half of the invariant (`NamesPart`), which
reproduces the assumption. The second half (`CopyPart`) says of a merge whose transaction is open that what it found held and whole is, in the rows about to be
committed, whole at a path of the merge or no live row's content. `HalfKeepsCopy` gives the three ways
the first half of a merge leaves such content (where it was or at the name it moved to, unclaimed, or whole but no longer said to be held and without a twin),
and `MergedKeepsCopy` that the second half drops the right one of two twins in each.

**AdmissionProofs.** The server and any number of nodes admitting each other, with one invariant over both:
every table, attestation and handshake, whatever the order in which connections and their ends are seen. That a
revoked client stays out is a statement about steps; what makes it true lies hours back, in what
the server signed before it knew. `IInv` carries that through the messages: no attestation, on a disk, in a daemon or under
way, lasts longer than `LIFETIME` from now, nor, once its owner is revoked, than that from the
revocation (`Lasting`); the server attests nobody it revoked in an earlier hour (`Recorded`); and a handshake
that has named its peer and is not yet complete names one who may still be admitted (`Handshakes`), because
an hour passes only between handshakes. That everyone connected is watched does not follow from what one end knows, since its
two connections may end in any order; it needs `OneWayIn` and `EveryoneWatched` as parts of the invariant, pair by
pair (`Watched`). Each action has its lemma, and all end in `NodeStep`, which frames the pairs an action
leaves alone. The theorems are `AdmissionTyped`, `OneWayToEach`, `AllWatched` and
`RevokedStayOut`.

**ImportsProofs.** One import with any number of references, names, workers and attempts. Two chains of argument
meet in its invariant. *Claims* (`Claims`): what a worker has claimed is leased in the ledger and claimed by
nobody else, unless the reference is `loose`, its lease having run out or its row having gone and come back; so
a claim, which takes only what is not leased, cannot meet another (`ClaimedOnce`). *Files*: a name that is not `doubtful` is one
fetch's or one content's (`Apart`), what a fetch staged under it is the content it will be kept as (`Staged`), and each content's bytes
are where the state of its row and the step of the command at it say (`AllWhole`). None of the three is inductive
alone: `keep` turns a staged file into a content's, a sort moves it, and the name that is then free may be given again.
`FilesInPlace` follows, and so do the two properties of steps: `RowsGoForward` (only an undo takes a row back, and with its bytes)
and `OnlyUserDrops` (a sort that finds no bytes is one that was crossed or killed before).

**SupervisorProofs, SupervisorPullProofs.** The supervisor with any peers, groups, files and limits. An event is a dozen small functions of the record
`v`, one after another, and several walk over all groups, peers or questions. Each walk is shown to be a run of steps (`NextPagesRun`
and its like), so that what one step leaves alone the walk does (`UpTo`), and what one step keeps the walk keeps. Then five invariants,
two of the counters, two of the pulls (these in `SupervisorPullProofs`, which extends the other) and one of the calls for news:

- `CallInv`, of the rounds. By peer: what was asked since the last answer and what `arm_retry` has left never exceed
  `RetryAttempts` + 1 together; a round is armed again only between two goes, so no go is counted twice; and a peer without a
  connection has none, so that a new connection begins anew. It gives `TriesStayBounded`: a round that is deferred, swept, answered
  late and failed again is still retried a bounded number of times.
- `LoadInv`, of the transfers. A connected peer counts the reads that run with it, any other peer none, and has nothing queued; no more
  slots are taken than there are; and nothing runs with a peer whose connection is only opening. The last is what
  carries the count over `Gone` and `Verified`: reads outlive a connection but not the making of the next.
  `pump` is the hard step, since it starts transfers in the middle of a queue it has not yet written back
  (`Pumping`). It gives `CountsStayTrue`.
- `PullInv`, of the sources. `OneSource` speaks of open questions and of files being read, and is not inductive: an answer turns a question into
  files queued, a question that fails is put again later, and none of these may outlive the source. So a group and the peer it is pulled from are in one
  phase at a time: at most one question open (`QueriesOK`), or one to be put again (`ArmedOK`), or files queued and read (`QueuesOK`, `ReadsOK`); and in each of
  them the peer is the group's source. `release_source` is what ends all of them at once (`Leaves`). It gives `SourceStaysOne`.
- `MoveInv`, that each source is being moved. On top of `PullInv` it needs that a source is a connected member of its group
  (`Belongs`), and that what is queued can still be had from the peer it is queued at, is queued once and is not being read, and that what was asked for is missing
  (`Getting`): otherwise `pump` would throw away the last file of a queue without a transfer to take its place. A handler breaks the property half way: between the end of a
  transfer and `continue_pull`, or between an answer and `resolve_stalled`, some groups of one peer have nothing under way.
  `DrivenBut(w, p, G)` is the property but for the groups `G` of the peer `p`, and the lemmas of each function say which groups it
  leaves behind and which it settles (by a question, a file queued, or giving up the source); at the end of the event none is left. It gives
  `SourcesStayDriven`.
- `NewsInv`, of the calls for news, beside `CallInv`. A peer listed while nothing was asked of it (`owed`) is, once connected, `AtRest`: no question of
  any kind under way with it or to be put again, and no go of a round left, so that no round that fails can be the one that takes it off the list. Before it is
  connected nothing is asked of it at all, so the first questions of a new connection are never put off; and dials are
  counted up to the limit only while one is under way (`DialsOK`). `Heeds(w, u)` says of a change that it asks nothing of a peer at rest and takes nobody at rest or without a connection
  off the list: all functions do but the dial that fails last and the questions themselves, which end what `owed` means. It gives `NewsStaysKept`.

The two invariants of the pulls hold until the run is `spoiled`: an answer came after its peer had gone (`stray`), a peer was asked about a group while a question about it
was open (`twice`, the case `OneMember` is violated by), or, for the fourth, a file asked for came by other means (`vanished`). These are the conditions
`OneSource` and `SourceDriven` state, no others, and `SpoiledStays` says that they are never taken back.

`SameRounds`, `SameLoads`, `SamePulls` and `SameNews` say that a function touches nothing that `CallInv`, `LoadInv`, `PullInv` or `NewsInv` reads; of the twenty-odd
there are, five change the rounds and four the transfers.

**Only model-checked.** Every invariant of a passing run is a theorem, and so is every property of its steps; what is left to TLC is what must
happen in the end: convergence and every other liveness property (the prover has
no reasoning about fairness or ENABLED): `DepartureRatified`, both `Convergence`, `MissingArrive`, `WantedArrive`,
`CallsEnd`, `OfferedSettle`, `LinksDecided`. And that `ContentKept` and `OneMember` are violated.

## Not modelled

- Signatures, hashes, encodings, sizes and names: a statement is its author's word and
  an entry is its place in the chain. The limits on sizes and the rejection of malformed
  messages are not modelled.
- Several groups at once in the exchanges: that of groups has 8 slots and defers 256 groups, with
  one peer remembered for each. The catalogue's slots and queue are modelled, and the supervisor's rules are
  for any number of groups, though its instances have two at most, and with two peers only in `TwoMembers`.
- The answers a node may give between two ticks (a budget of both exchanges).
- In `FileStore`: two downloads at once (which `TwoMembers` shows may be of one file), and the names directories are given on disk.
- In `Supervisor`: members that come and go while it runs, addresses learned on the local network and the choice of
  one to dial, the thresholds above which files are shared, presence of peers asked earlier. That a connection closes
  and that the supervisor hears of it is one step.
- In `Imports`: folders, sizes, several groups, and the copy made when a file cannot be renamed across disks.
- In `Enrolment` and `Admission`: usernames, presence answers, the relay and its meter, direct and relayed
  connections, when an admitted peer counts as settled. A message is delivered only while its receiver still has the
  connection open.
- Hole punching, streams, the throttle and the limits of `ac-net`; the sources of `ac-import` (I/O and
  services of others); `ac-desktop` (the user interface), and the daemon's start. They keep little state
  that steps, and what they do to the stores is modelled as commands and events. With the unit tests that
  stand in the same files as the code, they are the larger part of the source's lines.

## The plan

Done: all modules above, the refinement of the group exchange to `GroupLog`, and the theorems listed.

Left: the interleavings of several groups and several downloads, listed above as not modelled, and what makes liveness hold
for every instance, which needs a prover that reasons about fairness.
