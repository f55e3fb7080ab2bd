----------------------------- MODULE GroupStore -----------------------------
(***************************************************************************)
(* One node's store of one group (crates/ac-groups/src/store.rs) and the   *)
(* processes that use it: the daemon, which applies what peers send        *)
(* (sync.rs, on_entries and tick), and the commands of the CLI and of the  *)
(* desktop app (crates/ac-node/src/ops/group.rs).  They share a SQLite     *)
(* file and no lock, so a step here is one statement or one transaction    *)
(* and any other process may run between two steps of an operation.        *)
(*                                                                         *)
(* The network is what may arrive: any prefix of the admin's chain, and    *)
(* any statement a peer may have signed about itself.                      *)
(*                                                                         *)
(* Left out: usernames, times, the last_synced column and the news counter *)
(* the supervisor reads to decide whom to call.                            *)
(*                                                                         *)
(* A longer-named definition just before the one it resembles (Departure-  *)
(* First before Departure) is a mutated form that nothing else uses.       *)
(***************************************************************************)
EXTENDS GroupChain, GroupStandings, FiniteSets

CONSTANTS
  Selves,      \* the peers whose store this may be
  Apps,        \* the command processes
  Daemon,      \* the daemon process
  MaxAdds,     \* bound: Add entries in the admin's chain
  MaxSeq,      \* bound: a command speaks only below this standing seq
  Guests,      \* bound: the peers entries name and answers carry standings of
  MaxCrashes   \* bound: processes killed in the middle of an operation

ASSUME SelfAssumption == Selves \subseteq Peers \cap Keyed
ASSUME ProcAssumption == Daemon \notin Apps
ASSUME BoundAssumption ==
  {MaxAdds, MaxSeq, MaxCrashes} \subseteq Nat /\ Guests \subseteq Peers

-----------------------------------------------------------------------------
VARIABLES
  me,         \* the peer whose store this is; never changes
  chain,      \* the group_entries rows, in order; <<>> if the group is unknown
  head,       \* groups.head_seq
  members,    \* the group_members rows
  standings,  \* the group_standings rows
  digest,     \* groups.standings_digest, as the statements it was computed over
  state,      \* groups.state, or "absent"
  log,        \* the admin's chain
  pc,         \* where each process is in its operation
  seen,       \* the chain each process has read
  op,         \* the entry each process is authoring
  word,       \* the standing each process is authoring
  offer,      \* what the daemon is applying: the chain and the statements sent
  todo,       \* the departures the daemon has yet to ratify
  stored,     \* history: <<seq, entry>> of each author call that returned Ok
  spoken,     \* history: of the statements this node stored, the one that wins
  crashes,    \* history: processes killed so far
  overlap     \* history: an operation has started while another was running

rows == <<chain, head, members, standings, digest, state>>
local == <<seen, op, word, offer, todo>>
past == <<stored, spoken, crashes, overlap>>
vars == <<rows, log, pc, local, past, me>>

Procs == Apps \cup {Daemon}
AllSilent == [q \in Peers |-> Silent]
NoOffer == [chain |-> <<>>, heard |-> AllSilent]
Begin(p) ==
  /\ pc[p] = "idle"
  /\ overlap' = (overlap \/ \E q \in Procs : pc[q] # "idle")
Goto(p, label) == pc' = [pc EXCEPT ![p] = label]
AdminLeft == me = Admin /\ standings[me].pos = "out"

-----------------------------------------------------------------------------
(***************************************************************************)
(* The writes.                                                             *)
(***************************************************************************)

(***************************************************************************)
(* write_entries: INSERT OR IGNORE of the entries of `new` the table lacks.*)
(***************************************************************************)
WriteEntries(new) ==
  chain' = chain \o SubSeq(new, Len(chain) + 1, Len(new))

OnlyOf(c, set) == [q \in Peers |-> IF q \in Members(c) THEN set[q] ELSE Silent]

(***************************************************************************)
(* rebuild_caches, with chain c, the standings table and the set the       *)
(* digest is computed over.                                                *)
(***************************************************************************)
RebuildCachesAdding(c, table, set) ==
  /\ members' = members \cup Members(c)
  /\ standings' = OnlyOf(c, table)
  /\ digest' = OnlyOf(c, set)

RebuildCachesKeeping(c, table, set) ==
  /\ members' = Members(c)
  /\ standings' = table
  /\ digest' = OnlyOf(c, set)

RebuildCaches(c, table, set) ==
  /\ members' = Members(c)
  /\ standings' = OnlyOf(c, table)
  /\ digest' = OnlyOf(c, set)

Forgotten(p) ==
  /\ seen' = [seen EXCEPT ![p] = <<>>]
  /\ op' = [op EXCEPT ![p] = Create]
  /\ word' = [word EXCEPT ![p] = Silent]

(***************************************************************************)
(* The call of p returns.  In the daemon it was one of those on_entries    *)
(* makes, answer_invitation before ratify, and an app's command is over.   *)
(***************************************************************************)
Return(p) ==
  /\ Goto(p, IF p = Daemon THEN "ratify" ELSE "idle")
  /\ Forgotten(p)

-----------------------------------------------------------------------------
(***************************************************************************)
(* create: the genesis, our In, and the caches, in one transaction.        *)
(***************************************************************************)
CreateGroup(p) ==
  LET mine == [AllSilent EXCEPT ![me] = [seq |-> NextSeq(Silent), pos |-> "in"]]
  IN  /\ me = Admin /\ state = "absent" /\ Begin(p)
      /\ chain' = <<Create>> /\ log' = <<Create>>
      /\ head' = 1
      /\ state' = "active"
      /\ RebuildCaches(<<Create>>, mine, mine)
      /\ spoken' = mine[me]
      /\ UNCHANGED <<pc, local, stored, crashes, me>>

(***************************************************************************)
(* add and remove: the checks made before author is called.                *)
(***************************************************************************)
AddOrRemove(p, e) ==
  /\ me = Admin /\ state # "absent" /\ Begin(p)
  /\ e.op = "add" => ~AdminLeft
  /\ op' = [op EXCEPT ![p] = e]
  /\ Goto(p, "author")
  /\ UNCHANGED <<rows, log, seen, word, offer, todo, stored, spoken, crashes, me>>

(***************************************************************************)
(* author reads the chain and signs the next entry; an entry the rules     *)
(* refuse ends the call with nothing written.                              *)
(***************************************************************************)
AuthorRead(p) ==
  /\ pc[p] = "author"
  /\ \/ /\ CanAppend(chain, op[p])
        /\ seen' = [seen EXCEPT ![p] = chain]
        /\ Goto(p, "append")
        /\ UNCHANGED <<op, word>>
     \/ /\ ~CanAppend(chain, op[p])
        /\ Return(p)
  /\ UNCHANGED <<rows, log, offer, todo, past, me>>

(***************************************************************************)
(* author's transaction.  The head it read must still be the head.         *)
(***************************************************************************)
AuthorCommitUnchecked(p) ==
  LET new == Append(seen[p], op[p])
  IN  /\ pc[p] = "append"
      /\ WriteEntries(new)
      /\ head' = Len(new)
      /\ RebuildCaches(new, standings, standings)
      /\ log' = new
      /\ stored' = stored \cup {<<Len(new), op[p]>>}
      /\ Return(p)
      /\ UNCHANGED <<state, offer, todo, spoken, crashes, overlap, me>>

AuthorCommit(p) ==
  LET new == Append(seen[p], op[p])
  IN  /\ pc[p] = "append" /\ head = Len(seen[p])
      /\ WriteEntries(new)
      /\ head' = Len(new)
      /\ RebuildCaches(new, standings, standings)
      /\ log' = new
      /\ stored' = stored \cup {<<Len(new), op[p]>>}
      /\ Return(p)
      /\ UNCHANGED <<state, offer, todo, spoken, crashes, overlap, me>>

(***************************************************************************)
(* Another writer moved the head: the transaction is dropped (Raced).      *)
(***************************************************************************)
AuthorRaced(p) ==
  /\ pc[p] = "append" /\ head # Len(seen[p])
  /\ Return(p)
  /\ UNCHANGED <<rows, log, offer, todo, past, me>>

-----------------------------------------------------------------------------
Speak(p, pos) ==
  /\ word' = [word EXCEPT ![p] = [seq |-> 0, pos |-> pos]]
  /\ Goto(p, "number")

Accept(p) ==
  /\ Begin(p) /\ state \notin {"absent", "active"} /\ standings[me].seq < MaxSeq
  /\ me \in members /\ ~AdminLeft
  /\ Speak(p, "in")
  /\ UNCHANGED <<rows, log, seen, op, offer, todo, stored, spoken, crashes, me>>

Leave(p) ==
  /\ Begin(p) /\ state \notin {"absent", "left"} /\ standings[me].seq < MaxSeq
  /\ Speak(p, "out")
  /\ UNCHANGED <<rows, log, seen, op, offer, todo, stored, spoken, crashes, me>>

(***************************************************************************)
(* author_standing: the seq is read before the transaction opens.          *)
(***************************************************************************)
StandingRead(p) ==
  /\ pc[p] = "number"
  /\ word' = [word EXCEPT ![p].seq = NextSeq(standings[me])]
  /\ Goto(p, "say")
  /\ UNCHANGED <<rows, log, seen, op, offer, todo, past, me>>

(***************************************************************************)
(* author_standing's transaction: the row is overwritten whatever it held, *)
(* and the state follows where the group still has a row.                  *)
(***************************************************************************)
StandingCommitAlone(p) ==
  /\ pc[p] = "say"
  /\ standings' = [standings EXCEPT ![me] = word[p]]
  /\ state' = IF state = "absent" THEN "absent" ELSE StateOf(word[p].pos)
  /\ spoken' = Later(spoken, word[p])
  /\ Return(p)
  /\ UNCHANGED <<chain, head, members, digest, log, offer, todo, stored, crashes, overlap, me>>

StandingCommit(p) ==
  /\ pc[p] = "say"
  /\ standings' = [standings EXCEPT ![me] = word[p]]
  /\ state' = IF state = "absent" THEN "absent" ELSE StateOf(word[p].pos)
  /\ spoken' = Later(spoken, word[p])
  /\ Goto(p, "refresh")
  /\ UNCHANGED <<chain, head, members, digest, log, local, stored, crashes, overlap, me>>

(***************************************************************************)
(* refresh_digest: the chain is read before its transaction opens; a group *)
(* forgotten meanwhile ends the call with an error.                        *)
(***************************************************************************)
RefreshRead(p) ==
  /\ pc[p] = "refresh"
  /\ \/ /\ chain # <<>>
        /\ seen' = [seen EXCEPT ![p] = chain]
        /\ Goto(p, "rebuild")
        /\ UNCHANGED <<op, word>>
     \/ chain = <<>> /\ Return(p)
  /\ UNCHANGED <<rows, log, offer, todo, past, me>>

RefreshCommit(p) ==
  /\ pc[p] = "rebuild"
  /\ RebuildCaches(seen[p], standings, standings)
  /\ Return(p)
  /\ UNCHANGED <<chain, head, state, log, offer, todo, past, me>>

-----------------------------------------------------------------------------
(***************************************************************************)
(* What an answer may carry: our own statements were all signed here, any  *)
(* other peer may have signed anything about itself.                       *)
(***************************************************************************)
Hearable ==
  {f \in [Peers -> [seq : 1 .. MaxSeq, pos : Position] \cup {Silent}] :
     /\ f[me] \in {spoken, Silent}
     /\ \A q \in Peers : f[q] # Silent => q \in Guests}

(***************************************************************************)
(* adopt's first transaction, for a group the store does not know.         *)
(***************************************************************************)
Adopt(n, heard) ==
  LET sent == SubSeq(log, 1, n)
  IN  /\ Begin(Daemon) /\ state = "absent" /\ ValidChain(sent)
      /\ WriteEntries(sent)
      /\ head' = Len(sent)
      /\ state' = "pending"
      /\ RebuildCaches(sent, standings, AllSilent)
      /\ offer' = [chain |-> sent, heard |-> heard]
      /\ Goto(Daemon, "put")
      /\ UNCHANGED <<log, seen, op, word, todo, stored, spoken, crashes, me>>

(***************************************************************************)
(* An answer arrives about a group the store knows.  One that stops short  *)
(* of our head has nothing fresh and does what n = Len(chain) does.        *)
(***************************************************************************)
Receive(n, heard) ==
  /\ Begin(Daemon) /\ state # "absent" /\ n >= Len(chain)
  /\ offer' = [chain |-> SubSeq(log, 1, n), heard |-> heard]
  /\ Goto(Daemon, "put")
  /\ UNCHANGED <<rows, log, seen, op, word, todo, stored, spoken, crashes, me>>

(***************************************************************************)
(* put reads the chain; where both have an entry they must agree, or the   *)
(* batch is refused with nothing written (Diverged).                       *)
(***************************************************************************)
Agrees(c, sent) == \A i \in DOMAIN c \cap DOMAIN sent : c[i] = sent[i]

PutRead ==
  /\ pc[Daemon] = "put"
  /\ IF Agrees(chain, offer.chain)
     THEN /\ seen' = [seen EXCEPT ![Daemon] = chain]
          /\ Goto(Daemon, "apply")
          /\ UNCHANGED offer
     ELSE Goto(Daemon, "idle") /\ offer' = NoOffer /\ UNCHANGED seen
  /\ UNCHANGED <<rows, log, op, word, todo, past, me>>

Extended == IF Len(offer.chain) > Len(seen[Daemon]) THEN offer.chain ELSE seen[Daemon]
Fresh == Len(Extended) > Len(seen[Daemon])

(***************************************************************************)
(* put's transaction, once the head is known not to have moved.  A peer    *)
(* whose newly winning statement is Out, and who is a member by the chain  *)
(* put holds, has departed.                                                *)
(***************************************************************************)
DepartureFirst(q, said) == standings[q] = Silent /\ said.pos = "out"
Departure(q, said) == said # standings[q] /\ said.pos = "out"

PutApplied ==
  LET held == [q \in Peers |-> IF EverMentioned(Extended, q)
                                THEN Later(standings[q], offer.heard[q])
                                ELSE standings[q]]
  IN  /\ WriteEntries(Extended)
      /\ head' = IF Fresh THEN Len(Extended) ELSE head
      /\ RebuildCaches(Extended, held, held)
      /\ todo' = {q \in Members(Extended) :
                    Departure(q, held[q]) /\ me = Admin /\ q # me}
      /\ Goto(Daemon, "answer")

(***************************************************************************)
(* Only a batch with fresh entries compares the head it read; if another   *)
(* writer moved it the whole batch is dropped (Raced).                     *)
(***************************************************************************)
PutCommit ==
  /\ pc[Daemon] = "apply"
  /\ IF Fresh /\ head # Len(seen[Daemon])
     THEN Goto(Daemon, "idle") /\ UNCHANGED <<chain, head, members, standings, digest, todo>>
     ELSE PutApplied
  /\ Forgotten(Daemon)
  /\ offer' = NoOffer
  /\ UNCHANGED <<state, log, past, me>>

(***************************************************************************)
(* answer_invitation: say Unanswered if we are named, undecided and have   *)
(* said nothing.                                                           *)
(***************************************************************************)
AnswerInvitationAnyway ==
  /\ pc[Daemon] = "answer"
  /\ IF me \in members /\ standings[me] = Silent
     THEN Speak(Daemon, "unanswered")
     ELSE Goto(Daemon, "ratify") /\ UNCHANGED word
  /\ UNCHANGED <<rows, log, seen, op, offer, todo, past, me>>

AnswerInvitation ==
  /\ pc[Daemon] = "answer"
  /\ IF state = "pending" /\ me \in members /\ standings[me] = Silent
     THEN Speak(Daemon, "unanswered")
     ELSE Goto(Daemon, "ratify") /\ UNCHANGED word
  /\ UNCHANGED <<rows, log, seen, op, offer, todo, past, me>>

(***************************************************************************)
(* ratify: author a Remove for each departure, one call after another.     *)
(***************************************************************************)
Ratify ==
  /\ pc[Daemon] = "ratify"
  /\ \/ \E q \in todo :
          /\ todo' = todo \ {q}
          /\ op' = [op EXCEPT ![Daemon] = Remove(q)]
          /\ Goto(Daemon, "author")
     \/ todo = {} /\ Goto(Daemon, "idle") /\ UNCHANGED <<op, todo>>
  /\ UNCHANGED <<rows, log, seen, word, offer, past, me>>

(***************************************************************************)
(* expire_pending: an invitation 30 days old that no longer names us.  The *)
(* check and forget's transaction are two steps.                           *)
(***************************************************************************)
ExpireCheck ==
  /\ Begin(Daemon) /\ state = "pending" /\ me \notin members
  /\ Goto(Daemon, "forget")
  /\ UNCHANGED <<rows, log, local, stored, spoken, crashes, me>>

Forget ==
  /\ pc[Daemon] = "forget"
  /\ chain' = <<>> /\ head' = 0 /\ members' = {}
  /\ standings' = AllSilent /\ digest' = AllSilent
  /\ state' = "absent"
  /\ Goto(Daemon, "idle")
  /\ UNCHANGED <<log, local, past, me>>

-----------------------------------------------------------------------------
(***************************************************************************)
(* A process is killed: its transaction, if any, is rolled back, and what  *)
(* it had read is lost.                                                    *)
(***************************************************************************)
Crash(p) ==
  /\ pc[p] # "idle" /\ crashes < MaxCrashes
  /\ crashes' = crashes + 1
  /\ Goto(p, "idle")
  /\ Forgotten(p)
  /\ IF p = Daemon THEN offer' = NoOffer /\ todo' = {} ELSE UNCHANGED <<offer, todo>>
  /\ UNCHANGED <<rows, log, stored, spoken, overlap, me>>

Adds(c) == Cardinality({i \in DOMAIN c : c[i].op = "add"})

Ops == {e \in Entry : e.peer \in Guests /\ (e.op = "add" => Adds(log) < MaxAdds)}

(***************************************************************************)
(* The admin, elsewhere, appends to its chain.                             *)
(***************************************************************************)
LogGrows ==
  /\ me # Admin
  /\ \E e \in Ops : CanAppend(log, e) /\ log' = Append(log, e)
  /\ UNCHANGED <<rows, pc, local, past, me>>

Init ==
  /\ me \in Selves
  /\ chain = <<>> /\ head = 0 /\ members = {}
  /\ standings = AllSilent /\ digest = AllSilent
  /\ state = "absent"
  /\ log = IF me = Admin THEN <<>> ELSE <<Create>>
  /\ pc = [p \in Procs |-> "idle"]
  /\ seen = [p \in Procs |-> <<>>]
  /\ op = [p \in Procs |-> Create]
  /\ word = [p \in Procs |-> Silent]
  /\ offer = NoOffer /\ todo = {}
  /\ stored = {} /\ spoken = Silent /\ crashes = 0 /\ overlap = FALSE

Author(p) == AuthorRead(p) \/ AuthorCommit(p) \/ AuthorRaced(p)
AuthorStanding(p) ==
  StandingRead(p) \/ StandingCommit(p) \/ RefreshRead(p) \/ RefreshCommit(p)

Command(p) ==
  \/ CreateGroup(p) \/ Accept(p) \/ Leave(p)
  \/ \E e \in Ops : e.op # "create" /\ AddOrRemove(p, e)

Arrival == \E n \in 0 .. Len(log), heard \in Hearable : Adopt(n, heard) \/ Receive(n, heard)

DaemonStep ==
  \/ PutRead \/ PutCommit \/ AnswerInvitation \/ Ratify \/ Forget

Next ==
  \/ \E p \in Apps : Command(p)
  \/ \E p \in Procs : Author(p) \/ AuthorStanding(p) \/ Crash(p)
  \/ Arrival \/ DaemonStep \/ ExpireCheck \/ LogGrows

Spec == Init /\ [][Next]_vars

(***************************************************************************)
(* The daemon's handlers run to completion once started, and peers repeat  *)
(* what they and we both hold: any difference makes the next round fetch.  *)
(* Nothing makes a user type a command or a peer say anything new.         *)
(***************************************************************************)
HeardAgain ==
  Receive(Len(log), [q \in Peers |-> IF q \in Guests \ {me} THEN standings[q] ELSE Silent])

FairSpec ==
  /\ Spec
  /\ WF_vars(DaemonStep \/ Author(Daemon) \/ AuthorStanding(Daemon))
  /\ SF_vars(HeardAgain)

-----------------------------------------------------------------------------
Labels ==
  {"idle", "author", "append", "number", "say", "refresh", "rebuild",
   "put", "apply", "answer", "ratify", "forget"}

(***************************************************************************)
(* Every variable has its type.                                            *)
(***************************************************************************)
TypeOK ==
  /\ me \in Selves
  /\ chain \in Seq(Entry) /\ log \in Seq(Entry)
  /\ head \in Nat
  /\ members \in SUBSET Peers /\ todo \in SUBSET Peers
  /\ standings \in [Peers -> Word] /\ digest \in [Peers -> Word]
  /\ state \in {"absent", "pending", "active", "left"}
  /\ pc \in [Procs -> Labels]
  /\ seen \in [Procs -> Seq(Entry)]
  /\ op \in [Procs -> Entry]
  /\ word \in [Procs -> Word]
  /\ offer \in [chain : Seq(Entry), heard : [Peers -> Word]]
  /\ stored \in SUBSET (Nat \X Entry) /\ spoken \in Word
  /\ crashes \in Nat /\ overlap \in BOOLEAN

(***************************************************************************)
(* The rows are a prefix of the admin's chain and head_seq counts them,    *)
(* whatever the processes that write them interleave (store.rs: author and *)
(* put read the chain before their transaction opens).                     *)
(***************************************************************************)
StoredIsLog ==
  head = Len(chain) /\ Begins(chain, log)

(***************************************************************************)
(* An entry that author reported as written is in the rows, at its place,  *)
(* from then on: of two writers that read the same head one is told it     *)
(* lost, and INSERT OR IGNORE never swallows an entry silently.            *)
(***************************************************************************)
AcknowledgedStored ==
  \A s \in stored : s[1] <= Len(chain) /\ chain[s[1]] = s[2]

(***************************************************************************)
(* A transaction that moves the head leaves the member table as the chain  *)
(* folds to.                                                               *)
(***************************************************************************)
HeadMovesMembers == [][head' # head => members' = Members(chain')]_vars

(***************************************************************************)
(* A peer that the member table does not list has no standing stored, so   *)
(* its old statement cannot beat a fresh one after it is added again.  Our *)
(* own row may outlive forget: author_standing writes it unconditionally.  *)
(***************************************************************************)
OnlyMembersStand ==
  \A q \in Peers \ {me} : standings[q] # Silent => q \in members

(***************************************************************************)
(* The member table is what the chain folds to ("Membership from the       *)
(* cache, which put keeps in step with the chain"), as long as no two      *)
(* operations overlap, wherever a process is killed.                       *)
(***************************************************************************)
CacheInStep == state # "absent" => members = Members(chain)
CacheInStepAlone == ~overlap => CacheInStep

(***************************************************************************)
(* With nothing running and no process ever killed, the digest offered to  *)
(* peers describes the standings held ("heads can match while one side is  *)
(* missing a departure, and the digest catches that").                     *)
(***************************************************************************)
AllIdle == \A p \in Procs : pc[p] = "idle"
DigestInStep == AllIdle /\ ~overlap /\ crashes = 0 => digest = standings

(***************************************************************************)
(* A group left stays left until a command accepts it again: no answer of  *)
(* a peer and no invitation turns it back.                                 *)
(***************************************************************************)
BackByAccept == \E p \in Apps : pc[p] = "say" /\ word[p].pos = "in"
LeftStaysAlone == [][~overlap /\ state = "left" => state' = "left" \/ BackByAccept]_vars

(***************************************************************************)
(* While a row of ours is held, what replaces it wins against it: with no  *)
(* operations overlapping, the statements this node signs climb, so no     *)
(* peer that heard an earlier one keeps it.                                *)
(***************************************************************************)
OwnWordClimbs ==
  [][~overlap /\ standings[me] # Silent /\ standings'[me] \notin {Silent, standings[me]}
       => Wins(standings'[me], standings[me])]_vars

(***************************************************************************)
(* A member whose Out the admin holds is removed from the chain, unless    *)
(* operations overlap or a process is killed.                              *)
(***************************************************************************)
DepartureRatified ==
  \A q \in Peers \ {Admin} :
    (me = Admin /\ standings[q].pos = "out")
      ~> (q \notin Members(chain) \/ overlap \/ crashes > 0)

=============================================================================
