-------------------------- MODULE GroupStoreProofs --------------------------
(***************************************************************************)
(* Theorems about GroupStore, for every set of peers and of processes and  *)
(* every bound.  IInv is the inductive invariant; its parts relate where a *)
(* process is in its operation to what it has read and to what the rows    *)
(* hold.  AInv and BInv, further down, are what holds beside it as long as *)
(* no two operations overlap: AInv of the entries and the member table,    *)
(* BInv of the statements and their digest.                                *)
(***************************************************************************)
EXTENDS GroupStore, TLAPS

(***************************************************************************)
(* What a process may rely on at each label: who authors, what is being    *)
(* said, and that the group it works on is still there.                    *)
(***************************************************************************)
Phases ==
  /\ \A p \in Procs :
       pc[p] \in {"number", "say"} =>
         word[p] \in Standing /\ (word[p].pos = "unanswered" => me # Admin)
  /\ \A p \in Procs : pc[p] \in {"author", "append"} => me = Admin /\ state # "absent"
  /\ todo # {} => me = Admin /\ state # "absent"
  /\ pc[Daemon] \in {"put", "apply"} => state # "absent"
  /\ pc[Daemon] = "apply" => Len(seen[Daemon]) <= Len(chain)
  /\ pc[Daemon] = "forget" => me # Admin

(***************************************************************************)
(* Whatever a process has read or been sent was the admin's chain once.    *)
(***************************************************************************)
Copies ==
  /\ Begins(offer.chain, log)
  /\ \A p \in Procs : Begins(seen[p], log)

(***************************************************************************)
(* The admin's own store is the chain, and never an invitation; a group    *)
(* the store does not know has no entries.                                 *)
(***************************************************************************)
AdminOwns ==
  /\ me = Admin => chain = log /\ state # "pending"
  /\ state = "absent" => chain = <<>>
  /\ stored # {} => me = Admin

AcknowledgedAt == \A s \in stored : s[1] \in DOMAIN chain /\ chain[s[1]] = s[2]

IInv ==
  /\ TypeOK /\ StoredIsLog
  /\ Phases /\ Copies /\ AdminOwns /\ AcknowledgedAt

-----------------------------------------------------------------------------
(***************************************************************************)
(* What is held after a statement arrives is one of the two                *)
(* (StandingSet::insert).                                                  *)
(***************************************************************************)
LEMMA LaterType ==
  ASSUME NEW a \in Word, NEW b \in Word
  PROVE  Later(a, b) \in {a, b}
BY DEF Later

(***************************************************************************)
(* Sequences.                                                              *)
(***************************************************************************)
LEMMA FirstEntries ==
  ASSUME NEW l \in Seq(Entry), NEW n \in 0 .. Len(l)
  PROVE  /\ SubSeq(l, 1, n) \in Seq(Entry) /\ Len(SubSeq(l, 1, n)) = n
         /\ Begins(SubSeq(l, 1, n), l)
BY DEF Begins

(***************************************************************************)
(* A prefix of the log is a prefix of what the log grows to.               *)
(***************************************************************************)
LEMMA BeginsAppend ==
  ASSUME NEW c \in Seq(Entry), NEW l \in Seq(Entry), NEW e \in Entry, Begins(c, l)
  PROVE  Begins(c, Append(l, e))
BY DEF Begins

(***************************************************************************)
(* Two prefixes of one length are one chain.                               *)
(***************************************************************************)
LEMMA BeginsSame ==
  ASSUME NEW c \in Seq(Entry), NEW l \in Seq(Entry), Begins(c, l), Len(c) = Len(l)
  PROVE  c = l
BY DEF Begins

(***************************************************************************)
(* INSERT OR IGNORE of one prefix of the log into another leaves the       *)
(* longer of the two.                                                      *)
(***************************************************************************)
LEMMA WriteExtends ==
  ASSUME NEW c \in Seq(Entry), NEW new \in Seq(Entry), NEW l \in Seq(Entry),
         Begins(c, l), Begins(new, l)
  PROVE  c \o SubSeq(new, Len(c) + 1, Len(new)) = IF Len(new) > Len(c) THEN new ELSE c
<1> DEFINE t == SubSeq(new, Len(c) + 1, Len(new))
<1>1. CASE Len(new) > Len(c)
  <2>1. t \in Seq(Entry) /\ Len(t) = Len(new) - Len(c)
        /\ \A i \in 1 .. Len(t) : t[i] = new[Len(c) + i]
    BY <1>1
  <2>2. Len(c \o t) = Len(new) /\ c \o t \in Seq(Entry)
    BY <2>1, <1>1
  <2>3. ASSUME NEW i \in 1 .. Len(new) PROVE (c \o t)[i] = new[i]
    <3>1. CASE i <= Len(c)
      BY <3>1, <2>1 DEF Begins
    <3>2. CASE i > Len(c)
      BY <3>2, <2>1
    <3> QED BY <3>1, <3>2
  <2>4. c \o t = new
    BY <2>2, <2>3, BeginsSame DEF Begins
  <2> QED BY <1>1, <2>4
<1>2. CASE Len(new) <= Len(c)
  <2>1. t = <<>>
    BY <1>2
  <2> QED BY <1>2, <2>1
<1> QED BY <1>1, <1>2

(***************************************************************************)
(* Caches.                                                                 *)
(***************************************************************************)
LEMMA CachesType ==
  ASSUME NEW c \in Seq(Entry), NEW table \in [Peers -> Word], NEW set \in [Peers -> Word],
         RebuildCaches(c, table, set)
  PROVE  members' \in SUBSET Peers /\ standings' \in [Peers -> Word]
         /\ digest' \in [Peers -> Word]
BY DEF RebuildCaches, OnlyOf, Members, Word

-----------------------------------------------------------------------------
(***************************************************************************)
(* What a process holds when it holds nothing.                             *)
(***************************************************************************)
LEMMA Nothing ==
  /\ <<>> \in Seq(Entry) /\ <<Create>> \in Seq(Entry) /\ Create \in Entry
  /\ Silent \in Word /\ AllSilent \in [Peers -> Word]
  /\ NoOffer \in [chain : Seq(Entry), heard : [Peers -> Word]]
  /\ NoOffer.chain = <<>>
  /\ \A l \in Seq(Entry) : Begins(<<>>, l) /\ Begins(l, l)
<1>1. Create \in Entry
  BY AdminAssumption DEF Create, Entry, Op
<1>2. AllSilent \in [Peers -> Word] /\ Silent \in Word
  BY DEF AllSilent, Word
<1>3. \A l \in Seq(Entry) : Begins(<<>>, l) /\ Begins(l, l)
  BY DEF Begins
<1> QED BY <1>1, <1>2, <1>3 DEF NoOffer

(***************************************************************************)
(* A call that returns leaves its process holding nothing, and touches no  *)
(* other.                                                                  *)
(***************************************************************************)
LEMMA ReturnType ==
  ASSUME TypeOK, NEW p \in Procs, Return(p)
  PROVE  /\ pc' \in [Procs -> Labels] /\ seen' \in [Procs -> Seq(Entry)]
         /\ op' \in [Procs -> Entry] /\ word' \in [Procs -> Word]
         /\ pc'[p] \in {"ratify", "idle"} /\ seen'[p] = <<>>
         /\ \A q \in Procs \ {p} : pc'[q] = pc[q] /\ seen'[q] = seen[q] /\ word'[q] = word[q]
BY Nothing DEF TypeOK, Return, Goto, Forgotten, Labels

(***************************************************************************)
(* The invariant holds of a node that knows no group.                      *)
(***************************************************************************)
LEMMA InitInv == Init => IInv
<1> SUFFICES ASSUME Init PROVE IInv
  OBVIOUS
<1>1. TypeOK
  BY Nothing DEF Init, TypeOK, Labels
<1>2. StoredIsLog /\ Copies
  BY <1>1, Nothing DEF Init, StoredIsLog, Copies, TypeOK
<1>3. Phases /\ AdminOwns /\ AcknowledgedAt
  BY DEF Init, Phases, AdminOwns, AcknowledgedAt, Procs
<1> QED BY <1>1, <1>2, <1>3 DEF IInv

(***************************************************************************)
(* The steps of a command before it writes.                                *)
(***************************************************************************)
LEMMA AddOrRemoveInv ==
  ASSUME IInv, NEW p \in Procs, NEW e \in Entry, AddOrRemove(p, e)
  PROVE  IInv'
<1> USE DEF AddOrRemove, rows, Begin, Goto
<1>1. TypeOK'
  BY DEF IInv, TypeOK, Labels
<1>2. StoredIsLog' /\ AcknowledgedAt' /\ AdminOwns'
  BY DEF IInv, StoredIsLog, AcknowledgedAt, AdminOwns
<1>3. Phases'
  BY DEF IInv, Phases, TypeOK
<1>4. Copies'
  BY DEF IInv, Copies, TypeOK
<1> QED BY <1>1, <1>2, <1>3, <1>4 DEF IInv

(***************************************************************************)
(* accept, up to the standing it will sign.                                *)
(***************************************************************************)
LEMMA AcceptInv ==
  ASSUME IInv, NEW p \in Procs, Accept(p)
  PROVE  IInv'
<1> USE DEF Accept, rows, Begin, Speak, Goto
<1>1. TypeOK'
  BY Nothing DEF IInv, TypeOK, Labels, Word, Standing, Position
<1>2. StoredIsLog' /\ AcknowledgedAt' /\ AdminOwns'
  BY DEF IInv, StoredIsLog, AcknowledgedAt, AdminOwns
<1>3. Phases'
  BY DEF IInv, Phases, TypeOK, Standing, Position
<1>4. Copies'
  BY DEF IInv, Copies, TypeOK
<1> QED BY <1>1, <1>2, <1>3, <1>4 DEF IInv

(***************************************************************************)
(* leave, up to the standing it will sign.                                 *)
(***************************************************************************)
LEMMA LeaveInv ==
  ASSUME IInv, NEW p \in Procs, Leave(p)
  PROVE  IInv'
<1> USE DEF Leave, rows, Begin, Speak, Goto
<1>1. TypeOK'
  BY Nothing DEF IInv, TypeOK, Labels, Word, Standing, Position
<1>2. StoredIsLog' /\ AcknowledgedAt' /\ AdminOwns'
  BY DEF IInv, StoredIsLog, AcknowledgedAt, AdminOwns
<1>3. Phases'
  BY DEF IInv, Phases, TypeOK, Standing, Position
<1>4. Copies'
  BY DEF IInv, Copies, TypeOK
<1> QED BY <1>1, <1>2, <1>3, <1>4 DEF IInv

(***************************************************************************)
(* author's read of the chain: what it read is the admin's chain.          *)
(***************************************************************************)
LEMMA AuthorReadInv ==
  ASSUME IInv, NEW p \in Procs, AuthorRead(p)
  PROVE  IInv'
<1> USE DEF AuthorRead, rows, past, Goto
<1>1. TypeOK'
  BY ReturnType DEF IInv, TypeOK, Labels
<1>2. StoredIsLog' /\ AcknowledgedAt' /\ AdminOwns'
  BY DEF IInv, StoredIsLog, AcknowledgedAt, AdminOwns
<1>3. Phases'
  <2>1. CASE Return(p)
    BY <2>1, ReturnType DEF IInv, Phases, Procs
  <2>2. CASE ~Return(p)
    BY <2>2 DEF IInv, Phases, TypeOK, Procs
  <2> QED BY <2>1, <2>2
<1>4. Copies'
  BY ReturnType, Nothing DEF IInv, Copies, StoredIsLog, TypeOK
<1> QED BY <1>1, <1>2, <1>3, <1>4 DEF IInv

(***************************************************************************)
(* author told that another writer moved the head.                         *)
(***************************************************************************)
LEMMA AuthorRacedInv ==
  ASSUME IInv, NEW p \in Procs, AuthorRaced(p)
  PROVE  IInv'
<1> USE DEF AuthorRaced, rows, past
<1>1. TypeOK'
  BY ReturnType DEF IInv, TypeOK, Labels
<1>2. StoredIsLog' /\ AcknowledgedAt' /\ AdminOwns'
  BY DEF IInv, StoredIsLog, AcknowledgedAt, AdminOwns
<1>3. Phases'
  BY ReturnType DEF IInv, Phases, Procs
<1>4. Copies'
  BY ReturnType, Nothing DEF IInv, Copies, TypeOK
<1> QED BY <1>1, <1>2, <1>3, <1>4 DEF IInv

(***************************************************************************)
(* author_standing.                                                        *)
(***************************************************************************)
LEMMA StandingReadInv ==
  ASSUME IInv, NEW p \in Procs, StandingRead(p)
  PROVE  IInv'
<1> USE DEF StandingRead, rows, past, Goto
<1>0. NextSeq(standings[me]) \in Nat
  <2>1. me \in Peers /\ standings[me] \in Word
    BY SelfAssumption DEF IInv, TypeOK
  <2>2. \A w \in Word : NextSeq(w) \in Nat
    BY DEF Word, Standing, Silent, NextSeq
  <2> QED BY <2>1, <2>2
<1>1. TypeOK'
  <2>1. word' \in [Procs -> Word]
    BY <1>0 DEF IInv, TypeOK, Phases, Word, Standing
  <2> QED BY <2>1 DEF IInv, TypeOK, Labels
<1>2. StoredIsLog' /\ AcknowledgedAt' /\ AdminOwns'
  BY DEF IInv, StoredIsLog, AcknowledgedAt, AdminOwns
<1>3. Phases'
  <2>1. word'[p] \in Standing /\ word'[p].pos = word[p].pos
        /\ \A q \in Procs \ {p} : word'[q] = word[q] /\ pc'[q] = pc[q]
    BY <1>0 DEF IInv, TypeOK, Phases, Word, Standing
  <2> QED BY <2>1 DEF IInv, Phases, TypeOK, Procs
<1>4. Copies'
  BY DEF IInv, Copies, TypeOK
<1> QED BY <1>1, <1>2, <1>3, <1>4 DEF IInv

(***************************************************************************)
(* author_standing's transaction.                                          *)
(***************************************************************************)
LEMMA StandingCommitInv ==
  ASSUME IInv, NEW p \in Procs, StandingCommit(p)
  PROVE  IInv'
<1> USE DEF StandingCommit, local, Goto
<1>0. /\ word[p] \in Standing /\ (me = Admin => word[p].pos # "unanswered")
      /\ StateOf(word[p].pos) \in {"pending", "active", "left"}
      /\ (me = Admin => StateOf(word[p].pos) # "pending")
  BY DEF IInv, Phases, Standing, Position, StateOf
<1>1. TypeOK'
  BY <1>0, LaterType DEF IInv, TypeOK, Labels, Word
<1>2. StoredIsLog' /\ AcknowledgedAt' /\ AdminOwns'
  BY <1>0 DEF IInv, StoredIsLog, AcknowledgedAt, AdminOwns
<1>3. Phases'
  BY <1>0 DEF IInv, Phases, TypeOK, Procs
<1>4. Copies'
  BY DEF IInv, Copies, TypeOK
<1> QED BY <1>1, <1>2, <1>3, <1>4 DEF IInv

(***************************************************************************)
(* refresh_digest's read of the chain.                                     *)
(***************************************************************************)
LEMMA RefreshReadInv ==
  ASSUME IInv, NEW p \in Procs, RefreshRead(p)
  PROVE  IInv'
<1> USE DEF RefreshRead, rows, past, Goto
<1>1. TypeOK'
  BY ReturnType DEF IInv, TypeOK, Labels
<1>2. StoredIsLog' /\ AcknowledgedAt' /\ AdminOwns'
  BY DEF IInv, StoredIsLog, AcknowledgedAt, AdminOwns
<1>3. Phases'
  <2>1. CASE Return(p)
    BY <2>1, ReturnType DEF IInv, Phases, Procs
  <2>2. CASE ~Return(p)
    BY <2>2 DEF IInv, Phases, TypeOK, Procs
  <2> QED BY <2>1, <2>2
<1>4. Copies'
  BY ReturnType, Nothing DEF IInv, Copies, StoredIsLog, TypeOK
<1> QED BY <1>1, <1>2, <1>3, <1>4 DEF IInv

(***************************************************************************)
(* refresh_digest's transaction, over a chain that may be behind by then.  *)
(***************************************************************************)
LEMMA RefreshCommitInv ==
  ASSUME IInv, NEW p \in Procs, RefreshCommit(p)
  PROVE  IInv'
<1> USE DEF RefreshCommit, past
<1>1. TypeOK'
  <2>1. seen[p] \in Seq(Entry)
    BY DEF IInv, TypeOK
  <2> QED BY <2>1, CachesType, ReturnType DEF IInv, TypeOK
<1>2. StoredIsLog' /\ AcknowledgedAt' /\ AdminOwns'
  BY DEF IInv, StoredIsLog, AcknowledgedAt, AdminOwns
<1>3. Phases'
  BY ReturnType DEF IInv, Phases, Procs
<1>4. Copies'
  BY ReturnType, Nothing DEF IInv, Copies, TypeOK
<1> QED BY <1>1, <1>2, <1>3, <1>4 DEF IInv

(***************************************************************************)
(* The daemon, and the processes that are killed under it.                 *)
(***************************************************************************)
LEMMA ReceiveInv ==
  ASSUME IInv, NEW n \in 0 .. Len(log), NEW heard \in Hearable, Receive(n, heard)
  PROVE  IInv'
<1> USE DEF Receive, rows, Begin, Goto
<1>0. Daemon \in Procs
  BY DEF Procs
<1>9. /\ SubSeq(log, 1, n) \in Seq(Entry) /\ Begins(SubSeq(log, 1, n), log)
      /\ heard \in [Peers -> Word]
  BY FirstEntries DEF IInv, TypeOK, Hearable, Word, Standing
<1>1. TypeOK'
  BY <1>0, <1>9 DEF IInv, TypeOK, Labels
<1>2. StoredIsLog' /\ AcknowledgedAt' /\ AdminOwns'
  BY DEF IInv, StoredIsLog, AcknowledgedAt, AdminOwns
<1>3. Phases'
  BY DEF IInv, Phases, TypeOK, Procs
<1>4. Copies'
  BY <1>9 DEF IInv, Copies, TypeOK
<1> QED BY <1>1, <1>2, <1>3, <1>4 DEF IInv

(***************************************************************************)
(* put's read of the chain, before its transaction.                        *)
(***************************************************************************)
LEMMA PutReadInv ==
  ASSUME IInv, PutRead
  PROVE  IInv'
<1> USE DEF PutRead, rows, past, Goto
<1>0. Daemon \in Procs
  BY DEF Procs
<1>1. TypeOK'
  BY <1>0, Nothing DEF IInv, TypeOK, Labels
<1>2. StoredIsLog' /\ AcknowledgedAt' /\ AdminOwns'
  BY DEF IInv, StoredIsLog, AcknowledgedAt, AdminOwns
<1>3. Phases'
  BY DEF IInv, Phases, TypeOK, Procs
<1>4. Copies'
  BY <1>0, Nothing DEF IInv, Copies, StoredIsLog, TypeOK
<1> QED BY <1>1, <1>2, <1>3, <1>4 DEF IInv

(***************************************************************************)
(* answer_invitation.                                                      *)
(***************************************************************************)
LEMMA AnswerInvitationInv ==
  ASSUME IInv, AnswerInvitation
  PROVE  IInv'
<1> USE DEF AnswerInvitation, rows, past, Speak, Goto
<1>0. Daemon \in Procs
  BY DEF Procs
<1>1. TypeOK'
  <2>1. [seq |-> 0, pos |-> "unanswered"] \in Word
    BY DEF Word, Standing, Position
  <2>2. word' \in [Procs -> Word] /\ pc' \in [Procs -> Labels]
    BY <1>0, <2>1 DEF IInv, TypeOK, Labels
  <2> QED BY <2>2 DEF IInv, TypeOK
<1>2. StoredIsLog' /\ AcknowledgedAt' /\ AdminOwns'
  BY DEF IInv, StoredIsLog, AcknowledgedAt, AdminOwns
<1>3. Phases'
  BY <1>0 DEF IInv, Phases, AdminOwns, TypeOK, Standing, Position
<1>4. Copies'
  BY DEF IInv, Copies, TypeOK
<1> QED BY <1>1, <1>2, <1>3, <1>4 DEF IInv

(***************************************************************************)
(* ratify, one departure.                                                  *)
(***************************************************************************)
LEMMA RatifyInv ==
  ASSUME IInv, Ratify
  PROVE  IInv'
<1> USE DEF Ratify, rows, past, Goto
<1>0. Daemon \in Procs
  BY DEF Procs
<1>1. TypeOK'
  <2>1. \A q \in Peers : Remove(q) \in Entry
    BY DEF Remove, Entry, Op
  <2>2. op' \in [Procs -> Entry] /\ pc' \in [Procs -> Labels] /\ todo' \in SUBSET Peers
    <3>1. pc' \in [Procs -> Labels] /\ todo' \in SUBSET Peers
      BY <1>0 DEF IInv, TypeOK, Labels
    <3>2. CASE \E q \in todo : op' = [op EXCEPT ![Daemon] = Remove(q)]
      BY <1>0, <2>1, <3>1, <3>2 DEF IInv, TypeOK
    <3>3. CASE UNCHANGED op
      BY <3>1, <3>3 DEF IInv, TypeOK
    <3> QED BY <3>1, <3>2, <3>3
  <2> QED BY <2>2 DEF IInv, TypeOK
<1>2. StoredIsLog' /\ AcknowledgedAt' /\ AdminOwns'
  BY DEF IInv, StoredIsLog, AcknowledgedAt, AdminOwns
<1>3. Phases'
  BY <1>0 DEF IInv, Phases, TypeOK
<1>4. Copies'
  BY DEF IInv, Copies, TypeOK
<1> QED BY <1>1, <1>2, <1>3, <1>4 DEF IInv

(***************************************************************************)
(* expire_pending's check.                                                 *)
(***************************************************************************)
LEMMA ExpireCheckInv ==
  ASSUME IInv, ExpireCheck
  PROVE  IInv'
<1> USE DEF ExpireCheck, rows, local, Begin, Goto
<1>0. Daemon \in Procs
  BY DEF Procs
<1>1. TypeOK'
  BY <1>0 DEF IInv, TypeOK, Labels
<1>2. StoredIsLog' /\ AcknowledgedAt' /\ AdminOwns'
  BY DEF IInv, StoredIsLog, AcknowledgedAt, AdminOwns
<1>3. Phases'
  BY <1>0 DEF IInv, Phases, AdminOwns, TypeOK
<1>4. Copies'
  BY DEF IInv, Copies, TypeOK
<1> QED BY <1>1, <1>2, <1>3, <1>4 DEF IInv

(***************************************************************************)
(* forget's transaction: the admin never gets there, as its group is no    *)
(* invitation.                                                             *)
(***************************************************************************)
LEMMA ForgetInv ==
  ASSUME IInv, Forget
  PROVE  IInv'
<1> USE DEF Forget, local, past, Goto
<1>0. Daemon \in Procs
  BY DEF Procs
<1>1. TypeOK'
  BY <1>0, Nothing DEF IInv, TypeOK, Labels
<1>2. StoredIsLog' /\ AcknowledgedAt' /\ AdminOwns'
  BY Nothing DEF IInv, TypeOK, StoredIsLog, AcknowledgedAt, AdminOwns, Phases
<1>3. Phases'
  BY <1>0 DEF IInv, Phases, TypeOK
<1>4. Copies'
  BY DEF IInv, Copies, TypeOK
<1> QED BY <1>1, <1>2, <1>3, <1>4 DEF IInv

(***************************************************************************)
(* A process killed.                                                       *)
(***************************************************************************)
LEMMA CrashInv ==
  ASSUME IInv, NEW p \in Procs, Crash(p)
  PROVE  IInv'
<1> USE DEF Crash, rows, Goto, Forgotten
<1>1. TypeOK'
  BY Nothing DEF IInv, TypeOK, Labels
<1>2. StoredIsLog' /\ AcknowledgedAt' /\ AdminOwns'
  BY DEF IInv, StoredIsLog, AcknowledgedAt, AdminOwns
<1>3. Phases'
  BY DEF IInv, Phases, TypeOK, Procs
<1>4. Copies'
  BY Nothing DEF IInv, Copies, TypeOK
<1> QED BY <1>1, <1>2, <1>3, <1>4 DEF IInv

(***************************************************************************)
(* The admin appends elsewhere.                                            *)
(***************************************************************************)
LEMMA LogGrowsInv ==
  ASSUME IInv, LogGrows
  PROVE  IInv'
<1> USE DEF LogGrows, rows, local, past
<1>1. TypeOK'
  BY DEF IInv, TypeOK, Ops
<1>2. StoredIsLog' /\ AcknowledgedAt' /\ AdminOwns'
  BY BeginsAppend DEF IInv, StoredIsLog, AcknowledgedAt, AdminOwns, TypeOK, Ops
<1>3. Phases'
  BY DEF IInv, Phases
<1>4. Copies'
  BY BeginsAppend DEF IInv, Copies, TypeOK, Ops
<1> QED BY <1>1, <1>2, <1>3, <1>4 DEF IInv

(***************************************************************************)
(* The transactions that move the head.                                    *)
(***************************************************************************)
LEMMA CreateGroupInv ==
  ASSUME IInv, NEW p \in Procs, CreateGroup(p)
  PROVE  IInv'
<1> DEFINE mine == [AllSilent EXCEPT ![me] = [seq |-> NextSeq(Silent), pos |-> "in"]]
<1>1. me = Admin /\ state = "absent" /\ chain = <<>> /\ log = <<>> /\ stored = {}
  BY DEF CreateGroup, IInv, AdminOwns, AcknowledgedAt
<1>2. chain' = <<Create>> /\ log' = <<Create>> /\ head' = 1 /\ state' = "active"
      /\ RebuildCaches(<<Create>>, mine, mine) /\ spoken' = mine[me]
      /\ overlap' \in BOOLEAN
      /\ UNCHANGED <<pc, local, stored, crashes, me>>
  BY DEF CreateGroup, Begin, IInv, TypeOK
<1>3. mine \in [Peers -> Word] /\ mine[me] \in Word
  <2>1. [seq |-> NextSeq(Silent), pos |-> "in"] \in Word
    BY DEF NextSeq, Silent, Word, Standing, Position
  <2> QED BY <2>1, <1>1, AdminAssumption, Nothing
<1>4. TypeOK'
  <2>1. members' \in SUBSET Peers /\ standings' \in [Peers -> Word] /\ digest' \in [Peers -> Word]
    BY <1>2, <1>3, Nothing, CachesType
  <2> HIDE DEF mine
  <2> QED BY <1>2, <1>3, <2>1, Nothing DEF IInv, TypeOK, local
<1> HIDE DEF mine
<1>5. StoredIsLog' /\ AcknowledgedAt' /\ AdminOwns'
  BY <1>1, <1>2, Nothing DEF StoredIsLog, AcknowledgedAt, AdminOwns
<1>6. Phases'
  BY <1>1, <1>2 DEF IInv, Phases, local
<1>7. Copies'
  <2>1. <<Create>> = Append(<<>>, Create)
    OBVIOUS
  <2>2. \A c \in Seq(Entry) : Begins(c, <<>>) => Begins(c, <<Create>>)
    BY <2>1, Nothing, BeginsAppend
  <2> QED BY <1>1, <1>2, <2>2 DEF IInv, Copies, TypeOK, local
<1> QED BY <1>4, <1>5, <1>6, <1>7 DEF IInv

(***************************************************************************)
(* author's transaction appends its one entry to the rows: the head it     *)
(* read is still the head, so the chain it read is too.                    *)
(***************************************************************************)
LEMMA AuthorCommitWrites ==
  ASSUME IInv, NEW p \in Procs, AuthorCommit(p)
  PROVE  LET new == Append(chain, op[p])
         IN  /\ me = Admin /\ chain = log /\ op[p] \in Entry /\ new \in Seq(Entry)
             /\ chain' = new /\ log' = new /\ head' = Len(new)
             /\ RebuildCaches(new, standings, standings)
             /\ stored' = stored \cup {<<Len(new), op[p]>>}
             /\ Return(p)
             /\ UNCHANGED <<state, offer, todo, spoken, crashes, overlap, me>>
<1> DEFINE new == Append(chain, op[p])
<1>1. me = Admin /\ chain = log /\ op[p] \in Entry /\ chain \in Seq(Entry)
  BY DEF AuthorCommit, IInv, Phases, AdminOwns, TypeOK
<1>2. seen[p] = chain
  BY <1>1, BeginsSame DEF AuthorCommit, IInv, StoredIsLog, Copies, TypeOK
<1>3. new \in Seq(Entry) /\ Begins(chain, new) /\ Begins(new, new) /\ Len(new) > Len(chain)
  BY <1>1 DEF Begins
<1>4. chain \o SubSeq(new, Len(chain) + 1, Len(new)) = new
  <2> HIDE DEF new
  <2> QED BY <1>1, <1>3, WriteExtends
<1> QED BY <1>1, <1>2, <1>3, <1>4 DEF AuthorCommit, WriteEntries

(***************************************************************************)
(* author's transaction keeps every entry acknowledged before at its       *)
(* place.                                                                  *)
(***************************************************************************)
LEMMA AuthorCommitInv ==
  ASSUME IInv, NEW p \in Procs, AuthorCommit(p)
  PROVE  IInv'
<1> DEFINE new == Append(chain, op[p])
<1>1. /\ me = Admin /\ chain = log /\ op[p] \in Entry /\ new \in Seq(Entry)
      /\ chain' = new /\ log' = new /\ head' = Len(new)
      /\ RebuildCaches(new, standings, standings)
      /\ stored' = stored \cup {<<Len(new), op[p]>>}
      /\ Return(p)
      /\ UNCHANGED <<state, offer, todo, spoken, crashes, overlap, me>>
  BY AuthorCommitWrites
<1>2. Len(new) = Len(chain) + 1 /\ DOMAIN new = 1 .. Len(new) /\ new[Len(new)] = op[p]
      /\ DOMAIN chain = 1 .. Len(chain) /\ \A i \in DOMAIN chain : new[i] = chain[i]
      /\ Len(chain) \in Nat
  BY <1>1 DEF IInv, TypeOK
<1>3. TypeOK'
  <2>1. members' \in SUBSET Peers /\ standings' \in [Peers -> Word] /\ digest' \in [Peers -> Word]
    BY <1>1, CachesType DEF IInv, TypeOK
  <2>2. stored' \in SUBSET (Nat \X Entry) /\ head' \in Nat
    BY <1>1, <1>2 DEF IInv, TypeOK
  <2> QED BY <1>1, <2>1, <2>2, ReturnType DEF IInv, TypeOK
<1>4. StoredIsLog'
  BY <1>1, Nothing DEF StoredIsLog
<1>5. AcknowledgedAt'
  BY <1>1, <1>2 DEF IInv, AcknowledgedAt
<1>6. AdminOwns'
  BY <1>1 DEF IInv, AdminOwns, Phases, AuthorCommit
<1>7. Phases'
  <2>1. Daemon \in Procs /\ state # "absent" /\ Len(chain') >= Len(chain)
    BY <1>1, <1>2 DEF Procs, IInv, Phases, AuthorCommit
  <2>2. /\ pc'[p] \in {"ratify", "idle"}
        /\ \A q \in Procs \ {p} : pc'[q] = pc[q] /\ seen'[q] = seen[q] /\ word'[q] = word[q]
    BY <1>1, ReturnType DEF IInv
  <2>3. \A q \in Procs : Len(seen[q]) \in Nat
    BY DEF IInv, TypeOK
  <2> HIDE DEF new
  <2> QED BY <1>1, <1>2, <2>1, <2>2, <2>3 DEF IInv, Phases
<1>8. Copies'
  BY <1>1, ReturnType, Nothing, BeginsAppend DEF IInv, TypeOK, Copies
<1> QED BY <1>3, <1>4, <1>5, <1>6, <1>7, <1>8 DEF IInv

(***************************************************************************)
(* adopt's first transaction.                                              *)
(***************************************************************************)
LEMMA AdoptInv ==
  ASSUME IInv, NEW n \in 0 .. Len(log), NEW heard \in Hearable, Adopt(n, heard)
  PROVE  IInv'
<1> DEFINE sent == SubSeq(log, 1, n)
<1>0. Daemon \in Procs
  BY DEF Procs
<1>1. sent \in Seq(Entry) /\ Begins(sent, log) /\ heard \in [Peers -> Word]
  BY FirstEntries DEF IInv, TypeOK, Hearable, Word, Standing
<1>2. state = "absent" /\ chain = <<>> /\ sent # <<>>
  BY DEF Adopt, IInv, AdminOwns, ValidChain
<1>3. me # Admin /\ stored = {}
  BY <1>2, <1>1 DEF IInv, AdminOwns, TypeOK, Begins
<1>4. chain' = sent
  <2> HIDE DEF sent
  <2>1. <<>> \o SubSeq(sent, Len(<<>>) + 1, Len(sent)) = sent
    BY <1>1
  <2> QED BY <2>1, <1>2 DEF Adopt, WriteEntries, sent
<1>5. /\ head' = Len(sent) /\ state' = "pending"
      /\ RebuildCaches(sent, standings, AllSilent)
      /\ offer' = [chain |-> sent, heard |-> heard]
      /\ pc' = [pc EXCEPT ![Daemon] = "put"]
      /\ overlap' \in BOOLEAN
      /\ UNCHANGED <<log, seen, op, word, todo, stored, spoken, crashes, me>>
  BY DEF Adopt, Begin, Goto, IInv, TypeOK
<1> HIDE DEF sent
<1>6. TypeOK'
  <2>1. members' \in SUBSET Peers /\ standings' \in [Peers -> Word] /\ digest' \in [Peers -> Word]
    BY <1>1, <1>5, Nothing, CachesType DEF IInv, TypeOK
  <2> QED BY <1>0, <1>1, <1>4, <1>5, <2>1 DEF IInv, TypeOK, Labels
<1>7. StoredIsLog' /\ AcknowledgedAt' /\ AdminOwns'
  BY <1>1, <1>3, <1>4, <1>5 DEF StoredIsLog, AcknowledgedAt, AdminOwns
<1>8. Phases'
  BY <1>0, <1>3, <1>5 DEF IInv, Phases, TypeOK
<1>9. Copies'
  BY <1>1, <1>5 DEF IInv, Copies
<1> QED BY <1>6, <1>7, <1>8, <1>9 DEF IInv

(***************************************************************************)
(* put's transaction leaves the longer of the rows and the chain it holds. *)
(***************************************************************************)
LEMMA PutCommitWrites ==
  ASSUME IInv, PutCommit, ~(Fresh /\ head # Len(seen[Daemon]))
  PROVE  /\ Extended \in Seq(Entry) /\ Begins(Extended, log)
         /\ chain' = IF Fresh THEN Extended ELSE chain
         /\ head' = Len(chain')
         /\ Fresh => seen[Daemon] = chain
         /\ Len(chain) <= Len(chain')
<1>0. Daemon \in Procs /\ pc[Daemon] = "apply"
  BY DEF Procs, PutCommit
<1>1. seen[Daemon] \in Seq(Entry) /\ offer.chain \in Seq(Entry) /\ chain \in Seq(Entry)
      /\ log \in Seq(Entry)
      /\ Begins(seen[Daemon], log) /\ Begins(offer.chain, log) /\ Begins(chain, log)
  BY <1>0 DEF IInv, TypeOK, Copies, StoredIsLog
<1>2. Extended \in Seq(Entry) /\ Begins(Extended, log)
  BY <1>1 DEF Extended
<1>3. chain' = IF Len(Extended) > Len(chain) THEN Extended ELSE chain
  BY <1>1, <1>2, WriteExtends DEF PutCommit, PutApplied, WriteEntries
<1>4. CASE Fresh
  <2>1. head = Len(seen[Daemon]) /\ Len(seen[Daemon]) = Len(chain) /\ head' = Len(Extended)
    BY <1>4 DEF PutCommit, PutApplied, IInv, StoredIsLog
  <2>2. Len(Extended) > Len(chain)
    BY <1>4, <2>1 DEF Fresh
  <2>3. seen[Daemon] = chain
    <3>1. Begins(seen[Daemon], chain)
      BY <1>1, <2>1 DEF Begins
    <3> QED BY <1>1, <2>1, <3>1, BeginsSame
  <2> QED BY <1>1, <1>2, <1>3, <1>4, <2>1, <2>2, <2>3
<1>5. CASE ~Fresh
  <2>1. Len(Extended) <= Len(chain)
    BY <1>0, <1>1, <1>2, <1>5 DEF Fresh, IInv, Phases
  <2>2. head' = Len(chain)
    BY <1>5 DEF PutCommit, PutApplied, IInv, StoredIsLog
  <2> QED BY <1>1, <1>2, <1>3, <1>5, <2>1, <2>2
<1> QED BY <1>4, <1>5

(***************************************************************************)
(* put's transaction, and the batch it drops when it lost the race.        *)
(***************************************************************************)
LEMMA PutCommitInv ==
  ASSUME IInv, PutCommit
  PROVE  IInv'
<1>0. Daemon \in Procs /\ pc[Daemon] = "apply"
  BY DEF Procs, PutCommit
<1>1. UNCHANGED <<state, log, past, me>> /\ offer' = NoOffer /\ Forgotten(Daemon)
  BY DEF PutCommit
<1>2. /\ seen' \in [Procs -> Seq(Entry)]
      /\ op' \in [Procs -> Entry] /\ word' \in [Procs -> Word]
      /\ \A q \in Procs : seen'[q] \in {seen[q], <<>>}
      /\ \A q \in Procs \ {Daemon} : word'[q] = word[q]
  BY <1>0, <1>1, Nothing DEF IInv, TypeOK, Forgotten
<1>3. Copies'
  BY <1>1, <1>2, Nothing DEF IInv, Copies, TypeOK
<1>4. CASE Fresh /\ head # Len(seen[Daemon])
  <2>1. pc' = [pc EXCEPT ![Daemon] = "idle"]
        /\ UNCHANGED <<chain, head, members, standings, digest, todo>>
    BY <1>4 DEF PutCommit, Goto
  <2>2. TypeOK'
    BY <1>0, <1>1, <1>2, <2>1, Nothing DEF IInv, TypeOK, Labels, past
  <2>3. StoredIsLog' /\ AcknowledgedAt' /\ AdminOwns'
    BY <1>1, <2>1 DEF IInv, StoredIsLog, AcknowledgedAt, AdminOwns, past
  <2>4. Phases'
    BY <1>0, <1>1, <1>2, <2>1 DEF IInv, Phases, TypeOK
  <2> QED BY <1>3, <2>2, <2>3, <2>4 DEF IInv
<1>5. CASE ~(Fresh /\ head # Len(seen[Daemon]))
  <2> DEFINE held == [q \in Peers |-> IF EverMentioned(Extended, q)
                                      THEN Later(standings[q], offer.heard[q])
                                      ELSE standings[q]]
  <2>1. /\ Extended \in Seq(Entry) /\ Begins(Extended, log)
        /\ chain' = IF Fresh THEN Extended ELSE chain
        /\ head' = Len(chain') /\ Len(chain) <= Len(chain')
    BY <1>5, PutCommitWrites
  <2>2. /\ RebuildCaches(Extended, held, held)
        /\ pc' = [pc EXCEPT ![Daemon] = "answer"]
        /\ todo' \subseteq Members(Extended) /\ (todo' # {} => me = Admin)
    BY <1>5 DEF PutCommit, PutApplied, Goto
  <2>3. held \in [Peers -> Word]
    <3>1. \A q \in Peers : standings[q] \in Word /\ offer.heard[q] \in Word
      BY DEF IInv, TypeOK
    <3>2. \A q \in Peers : Later(standings[q], offer.heard[q]) \in Word
      BY <3>1, LaterType
    <3> QED BY <3>1, <3>2
  <2>4. members' \in SUBSET Peers /\ standings' \in [Peers -> Word] /\ digest' \in [Peers -> Word]
    BY <2>1, <2>2, <2>3, CachesType
  <2> HIDE DEF held
  <2>5. TypeOK'
    <3>1. chain' \in Seq(Entry) /\ head' \in Nat /\ todo' \in SUBSET Peers
      BY <2>1, <2>2 DEF IInv, TypeOK, Members
    <3> QED BY <1>0, <1>1, <1>2, <2>2, <2>4, <3>1, Nothing DEF IInv, TypeOK, Labels, past
  <2>6. Begins(chain', log) /\ (me = Admin => chain' = chain)
    BY <2>1, BeginsSame DEF IInv, TypeOK, StoredIsLog, AdminOwns, Begins
  <2>7. StoredIsLog' /\ AcknowledgedAt' /\ AdminOwns'
    <3>1. state # "absent"
      BY <1>0 DEF IInv, Phases
    <3> QED BY <1>1, <2>1, <2>6, <3>1 DEF IInv, StoredIsLog, AcknowledgedAt, AdminOwns, past
  <2>8. Phases'
    BY <1>0, <1>1, <1>2, <2>2 DEF IInv, Phases, TypeOK
  <2> QED BY <1>3, <2>5, <2>7, <2>8 DEF IInv
<1> QED BY <1>4, <1>5

(***************************************************************************)
(* A step that changes nothing.                                            *)
(***************************************************************************)
LEMMA StutterInv ==
  ASSUME IInv, UNCHANGED vars
  PROVE  IInv'
BY DEF vars, rows, local, past, IInv, TypeOK, StoredIsLog, Phases, Copies, AdminOwns, AcknowledgedAt

(***************************************************************************)
(* Every step preserves the invariant.                                     *)
(***************************************************************************)
LEMMA StepInv ==
  ASSUME IInv, [Next]_vars
  PROVE  IInv'
<1>1. CASE \E p \in Apps : Command(p)
  <2>1. PICK p \in Apps : Command(p)
    BY <1>1
  <2>2. p \in Procs /\ Ops \subseteq Entry
    BY DEF Procs, Ops
  <2> QED BY <2>1, <2>2, CreateGroupInv, AcceptInv, LeaveInv, AddOrRemoveInv DEF Command
<1>2. CASE \E p \in Procs : Author(p)
  BY <1>2, AuthorReadInv, AuthorCommitInv, AuthorRacedInv DEF Author
<1>3. CASE \E p \in Procs : AuthorStanding(p)
  BY <1>3, StandingReadInv, StandingCommitInv, RefreshReadInv, RefreshCommitInv DEF AuthorStanding
<1>4. CASE \E p \in Procs : Crash(p)
  BY <1>4, CrashInv
<1>5. CASE Arrival
  BY <1>5, AdoptInv, ReceiveInv DEF Arrival
<1>6. CASE DaemonStep
  BY <1>6, PutReadInv, PutCommitInv, AnswerInvitationInv, RatifyInv, ForgetInv DEF DaemonStep
<1>7. CASE ExpireCheck \/ LogGrows
  BY <1>7, ExpireCheckInv, LogGrowsInv
<1> QED BY <1>1, <1>2, <1>3, <1>4, <1>5, <1>6, <1>7, StutterInv DEF Next

(***************************************************************************)
(* The inductive invariant holds in every reachable state.                 *)
(***************************************************************************)
THEOREM Invariance == Spec => []IInv
<1>1. Init => IInv
  BY InitInv
<1>2. IInv /\ [Next]_vars => IInv'
  BY StepInv
<1> QED BY <1>1, <1>2, PTL DEF Spec

-----------------------------------------------------------------------------
(***************************************************************************)
(* Every variable has its type.                                            *)
(***************************************************************************)
THEOREM TypeCorrect == Spec => []TypeOK
<1>1. IInv => TypeOK
  BY DEF IInv
<1> QED BY <1>1, Invariance, PTL

(***************************************************************************)
(* The rows are a prefix of the admin's chain and head_seq counts them,    *)
(* whatever author, put, adopt and forget interleave and wherever a        *)
(* process is killed.                                                      *)
(***************************************************************************)
THEOREM StoredCorrect == Spec => []StoredIsLog
<1>1. IInv => StoredIsLog
  BY DEF IInv
<1> QED BY <1>1, Invariance, PTL

(***************************************************************************)
(* No entry that author reported as written is ever lost or replaced: the  *)
(* head compared in its transaction suffices against any other writer.     *)
(***************************************************************************)
THEOREM AcknowledgedCorrect == Spec => []AcknowledgedStored
<1>1. IInv => AcknowledgedStored
  BY DEF IInv, AcknowledgedAt, AcknowledgedStored, TypeOK
<1> QED BY <1>1, Invariance, PTL

(***************************************************************************)
(* Of the steps, only the five that rebuild the caches from the chain they *)
(* leave move the head.                                                    *)
(***************************************************************************)
LEMMA HeadMoves ==
  ASSUME IInv, [Next]_vars, head' # head
  PROVE  members' = Members(chain')
<1>1. CASE \E p \in Apps : Command(p)
  <2>1. PICK p \in Apps : CreateGroup(p)
    BY <1>1 DEF Command, Accept, Leave, AddOrRemove, rows
  <2> QED BY <2>1 DEF CreateGroup, RebuildCaches
<1>2. CASE \E p \in Procs : Author(p)
  <2>1. PICK p \in Procs : AuthorCommit(p)
    BY <1>2 DEF Author, AuthorRead, AuthorRaced, rows
  <2> QED BY <2>1, AuthorCommitWrites DEF RebuildCaches
<1>3. CASE \E p \in Procs : AuthorStanding(p) \/ Crash(p)
  BY <1>3 DEF AuthorStanding, StandingRead, StandingCommit, RefreshRead, RefreshCommit, Crash, rows
<1>4. CASE Arrival
  <2>1. PICK n \in 0 .. Len(log), heard \in Hearable : Adopt(n, heard)
    BY <1>4 DEF Arrival, Receive, rows
  <2> DEFINE sent == SubSeq(log, 1, n)
  <2>2. chain = <<>> /\ sent \in Seq(Entry)
    BY <2>1, FirstEntries DEF Adopt, IInv, AdminOwns, TypeOK
  <2>3. chain' = <<>> \o SubSeq(sent, Len(<<>>) + 1, Len(sent)) /\ members' = Members(sent)
    BY <2>1, <2>2 DEF Adopt, WriteEntries, RebuildCaches
  <2> HIDE DEF sent
  <2>4. <<>> \o SubSeq(sent, Len(<<>>) + 1, Len(sent)) = sent
    BY <2>2
  <2> QED BY <2>3, <2>4
<1>5. CASE PutCommit
  <2>1. ~(Fresh /\ head # Len(seen[Daemon]))
    BY <1>5 DEF PutCommit
  <2>2. Fresh
    BY <1>5, <2>1 DEF PutCommit, PutApplied
  <2>3. chain' = Extended
    BY <1>5, <2>1, <2>2, PutCommitWrites
  <2> QED BY <1>5, <2>1, <2>3 DEF PutCommit, PutApplied, RebuildCaches
<1>6. CASE PutRead \/ AnswerInvitation \/ Ratify \/ ExpireCheck \/ LogGrows \/ UNCHANGED vars
  BY <1>6 DEF PutRead, AnswerInvitation, Ratify, ExpireCheck, LogGrows, vars, rows
<1>7. CASE Forget
  BY <1>7 DEF Forget, Members
<1> QED BY <1>1, <1>2, <1>3, <1>4, <1>5, <1>6, <1>7 DEF Next, DaemonStep

(***************************************************************************)
(* The transactions of author, put, adopt, create and forget that move the *)
(* head leave the member table as the new chain folds to.                  *)
(***************************************************************************)
THEOREM HeadMovesCorrect == Spec => HeadMovesMembers
<1>1. IInv /\ [Next]_vars => [head' # head => members' = Members(chain')]_vars
  BY HeadMoves
<1> QED BY <1>1, Invariance, PTL DEF Spec, HeadMovesMembers

-----------------------------------------------------------------------------
(***************************************************************************)
(* Rows of the standings table.                                            *)
(***************************************************************************)
LEMMA CachesStand ==
  ASSUME NEW c, NEW table, NEW set, RebuildCaches(c, table, set)
  PROVE  \A q \in Peers : standings'[q] # Silent => q \in members'
BY DEF RebuildCaches, OnlyOf

(***************************************************************************)
(* No step stores a standing of a peer that the member table does not      *)
(* list.                                                                   *)
(***************************************************************************)
LEMMA StandStep ==
  ASSUME IInv, OnlyMembersStand, [Next]_vars
  PROVE  OnlyMembersStand'
<1> USE DEF OnlyMembersStand
<1>0. me' = me
  BY DEF Next, Command, CreateGroup, Accept, Leave, AddOrRemove, Author, AuthorRead, AuthorCommit,
         AuthorRaced, AuthorStanding, StandingRead, StandingCommit, RefreshRead, RefreshCommit,
         Crash, Arrival, Adopt, Receive, DaemonStep, PutRead, PutCommit, AnswerInvitation, Ratify,
         Forget, ExpireCheck, LogGrows, vars, past
<1>1. CASE \E p \in Apps : Command(p)
  BY <1>0, <1>1, CachesStand DEF Command, CreateGroup, Accept, Leave, AddOrRemove, rows
<1>2. CASE \E p \in Procs : Author(p)
  BY <1>0, <1>2, CachesStand DEF Author, AuthorRead, AuthorCommit, AuthorRaced, rows
<1>3. CASE \E p \in Procs : StandingCommit(p)
  <2>1. \A q \in Peers \ {me} : standings'[q] = standings[q]
    BY <1>3 DEF StandingCommit, IInv, TypeOK
  <2>2. members' = members
    BY <1>3 DEF StandingCommit
  <2> QED BY <1>0, <2>1, <2>2
<1>4. CASE \E p \in Procs : StandingRead(p) \/ RefreshRead(p) \/ RefreshCommit(p) \/ Crash(p)
  BY <1>0, <1>4, CachesStand DEF StandingRead, RefreshRead, RefreshCommit, Crash, rows
<1>5. CASE Arrival
  BY <1>0, <1>5, CachesStand DEF Arrival, Adopt, Receive, rows
<1>6. CASE PutCommit
  BY <1>0, <1>6, CachesStand DEF PutCommit, PutApplied
<1>7. CASE PutRead \/ AnswerInvitation \/ Ratify \/ ExpireCheck \/ LogGrows \/ UNCHANGED vars
  BY <1>0, <1>7 DEF PutRead, AnswerInvitation, Ratify, ExpireCheck, LogGrows, vars, rows
<1>8. CASE Forget
  BY <1>8 DEF Forget, AllSilent
<1> QED BY <1>1, <1>2, <1>3, <1>4, <1>5, <1>6, <1>7, <1>8 DEF Next, AuthorStanding, DaemonStep

(***************************************************************************)
(* A peer the member table does not list has no standing stored, so its    *)
(* old statement cannot beat a fresh one once it is added again: every     *)
(* transaction that shrinks the table also deletes from the standings.     *)
(***************************************************************************)
THEOREM OnlyMembersStandCorrect == Spec => []OnlyMembersStand
<1>1. Init => OnlyMembersStand
  BY DEF Init, OnlyMembersStand, AllSilent
<1>2. IInv /\ OnlyMembersStand /\ [Next]_vars => OnlyMembersStand'
  BY StandStep
<1> QED BY <1>1, <1>2, Invariance, PTL DEF Spec

-----------------------------------------------------------------------------
(***************************************************************************)
(* As long as no two operations have overlapped, at most one process is in *)
(* the middle of one, what it has read is what the rows hold, an           *)
(* invitation is answered or expired while it is one, and only a command   *)
(* says anything else.                                                     *)
(***************************************************************************)
Alone ==
  /\ \A p, q \in Procs : pc[p] # "idle" /\ pc[q] # "idle" => p = q
  /\ \A p \in Procs : pc[p] \in {"append", "rebuild", "apply"} => seen[p] = chain
  /\ members = Members(chain)
  /\ pc[Daemon] = "forget" => state = "pending"
  /\ \A p \in Procs :
       pc[p] \in {"number", "say"} /\ word[p].pos = "unanswered" => state = "pending"

Speakers ==
  pc[Daemon] \in {"number", "say"} => word[Daemon].pos = "unanswered"

AInv == Speakers /\ (~overlap => Alone)

(***************************************************************************)
(* An operation that starts without overlapping another finds every        *)
(* process idle.                                                           *)
(***************************************************************************)
LEMMA BegunAlone ==
  ASSUME IInv, AInv, NEW p \in Procs, Begin(p), ~overlap'
  PROVE  Alone /\ \A q \in Procs : pc[q] = "idle"
BY DEF Begin, AInv

(***************************************************************************)
(* While one process is in an operation the others are idle.               *)
(***************************************************************************)
LEMMA OthersIdle ==
  ASSUME Alone, NEW p \in Procs, pc[p] # "idle"
  PROVE  \A q \in Procs \ {p} : pc[q] = "idle"
BY DEF Alone

(***************************************************************************)
(* A process alone that steps on, as the only one that moves.              *)
(***************************************************************************)
LEMMA AloneSteps ==
  ASSUME NEW p \in Procs, \A q \in Procs \ {p} : pc'[q] = "idle",
         pc'[p] \in {"append", "rebuild", "apply"} => seen'[p] = chain',
         members' = Members(chain'),
         pc'[p] = "forget" => state' = "pending",
         pc'[p] \in {"number", "say"} /\ word'[p].pos = "unanswered" => state' = "pending"
  PROVE  Alone'
<1>1. \A q \in Procs : pc'[q] # "idle" => q = p
  OBVIOUS
<1>2. Daemon \in Procs
  BY DEF Procs
<1> QED BY <1>1, <1>2 DEF Alone

(***************************************************************************)
(* A command that starts while nothing runs.                               *)
(***************************************************************************)
LEMMA CommandAlone ==
  ASSUME IInv, AInv, NEW p \in Apps, Command(p)
  PROVE  AInv'
<1>0. p \in Procs /\ Daemon \in Procs /\ p # Daemon
  BY ProcAssumption DEF Procs
<1>1. Begin(p)
  BY DEF Command, CreateGroup, Accept, Leave, AddOrRemove
<1>2. \A q \in Procs \ {p} : pc'[q] = pc[q] /\ word'[q] = word[q]
  BY <1>0 DEF Command, CreateGroup, Accept, Leave, AddOrRemove, Speak, Goto, IInv, TypeOK, local
<1>3. Speakers'
  BY <1>0, <1>2 DEF AInv, Speakers
<1>4. ASSUME ~overlap' PROVE Alone'
  <2>1. Alone /\ \A q \in Procs : pc[q] = "idle"
    BY <1>0, <1>1, <1>4, BegunAlone
  <2>2. members' = Members(chain')
    BY <2>1 DEF Alone, Command, CreateGroup, RebuildCaches, Accept, Leave, AddOrRemove, rows
  <2>3. /\ pc'[p] \in {"idle", "author", "number"}
        /\ pc'[p] = "number" => word'[p].pos # "unanswered"
    <3>1. CASE CreateGroup(p)
      <4>1. pc' = pc
        BY <3>1 DEF CreateGroup
      <4> QED BY <1>0, <2>1, <4>1
    <3>2. CASE Accept(p) \/ Leave(p)
      BY <1>0, <3>2 DEF Accept, Leave, Speak, Goto, IInv, TypeOK
    <3>3. CASE \E e \in Ops : AddOrRemove(p, e)
      <4>1. pc' = [pc EXCEPT ![p] = "author"]
        BY <3>3 DEF AddOrRemove, Goto
      <4> QED BY <1>0, <4>1 DEF IInv, TypeOK
    <3> QED BY <3>1, <3>2, <3>3 DEF Command
  <2> QED BY <1>0, <1>2, <2>1, <2>2, <2>3, AloneSteps
<1> QED BY <1>3, <1>4 DEF AInv

(***************************************************************************)
(* author by a process alone: the chain it read is the one it appends to.  *)
(***************************************************************************)
LEMMA AuthorAlone ==
  ASSUME IInv, AInv, NEW p \in Procs, Author(p)
  PROVE  AInv'
<1>0. Daemon \in Procs
  BY DEF Procs
<1>1. pc[p] \in {"author", "append"} /\ UNCHANGED overlap
  BY DEF Author, AuthorRead, AuthorCommit, AuthorRaced, past
<1>2. /\ pc'[p] \in {"append", "ratify", "idle"}
      /\ \A q \in Procs \ {p} : pc'[q] = pc[q] /\ word'[q] = word[q]
  <2>1. CASE Return(p)
    BY <2>1, ReturnType DEF IInv
  <2>2. CASE ~Return(p)
    BY <2>2 DEF Author, AuthorRead, AuthorCommit, AuthorRaced, Goto, IInv, TypeOK
  <2> QED BY <2>1, <2>2
<1>3. Speakers'
  BY <1>0, <1>2 DEF AInv, Speakers
<1>4. ASSUME ~overlap' PROVE Alone'
  <2>1. Alone /\ \A q \in Procs \ {p} : pc'[q] = "idle"
    BY <1>1, <1>2, <1>4, OthersIdle DEF AInv
  <2>2. CASE AuthorRead(p)
    <3>1. pc'[p] = "append" => seen'[p] = chain'
      <4>1. CASE Return(p)
        BY <4>1, ReturnType DEF IInv
      <4>2. CASE ~Return(p)
        BY <2>2, <4>2 DEF AuthorRead, rows, IInv, TypeOK
      <4> QED BY <4>1, <4>2
    <3>2. members' = Members(chain')
      BY <2>1, <2>2 DEF Alone, AuthorRead, rows
    <3> QED BY <1>2, <2>1, <3>1, <3>2, AloneSteps
  <2>3. CASE AuthorCommit(p)
    <3>1. members' = Members(chain')
      BY <2>3, AuthorCommitWrites DEF RebuildCaches
    <3>2. pc'[p] \in {"ratify", "idle"}
      BY <2>3, ReturnType DEF AuthorCommit, IInv
    <3> QED BY <2>1, <3>1, <3>2, AloneSteps
  <2>4. CASE AuthorRaced(p)
    <3>1. members' = Members(chain') /\ pc'[p] \in {"ratify", "idle"}
      BY <2>1, <2>4, ReturnType DEF AuthorRaced, Alone, rows, IInv
    <3> QED BY <2>1, <3>1, AloneSteps
  <2> QED BY <2>2, <2>3, <2>4 DEF Author
<1> QED BY <1>3, <1>4 DEF AInv

(***************************************************************************)
(* author_standing by a process alone: the digest is rebuilt over the      *)
(* chain of the rows.                                                      *)
(***************************************************************************)
LEMMA AuthorStandingAlone ==
  ASSUME IInv, AInv, NEW p \in Procs, AuthorStanding(p)
  PROVE  AInv'
<1>0. Daemon \in Procs
  BY DEF Procs
<1>1. pc[p] \in {"number", "say", "refresh", "rebuild"} /\ UNCHANGED overlap
  BY DEF AuthorStanding, StandingRead, StandingCommit, RefreshRead, RefreshCommit, past
<1>2. /\ pc'[p] \in {"say", "refresh", "rebuild", "ratify", "idle"}
      /\ pc'[p] = "say" => pc[p] = "number" /\ word'[p].pos = word[p].pos /\ UNCHANGED state
      /\ pc'[p] = "rebuild" => seen'[p] = chain'
      /\ \A q \in Procs \ {p} : pc'[q] = pc[q] /\ word'[q] = word[q]
  <2>1. CASE Return(p)
    BY <2>1, ReturnType DEF IInv
  <2>2. CASE StandingRead(p)
    <3>1. word[p] \in Standing
      BY <2>2 DEF StandingRead, IInv, Phases
    <3>2. word'[p].pos = word[p].pos
      BY <2>2, <3>1 DEF StandingRead, IInv, TypeOK, Standing
    <3> QED BY <2>2, <3>2 DEF StandingRead, Goto, rows, IInv, TypeOK
  <2>3. CASE ~Return(p) /\ ~StandingRead(p)
    BY <2>3 DEF AuthorStanding, StandingCommit, RefreshRead, RefreshCommit, Goto, IInv, TypeOK,
                local, rows
  <2> QED BY <2>1, <2>2, <2>3
<1>3. Speakers'
  BY <1>0, <1>2 DEF AInv, Speakers
<1>4. ASSUME ~overlap' PROVE Alone'
  <2>1. Alone /\ \A q \in Procs \ {p} : pc'[q] = "idle"
    BY <1>1, <1>2, <1>4, OthersIdle DEF AInv
  <2>2. members' = Members(chain')
    <3>1. CASE RefreshCommit(p)
      BY <2>1, <3>1 DEF Alone, RefreshCommit, RebuildCaches
    <3>2. CASE ~RefreshCommit(p)
      BY <2>1, <3>2 DEF Alone, AuthorStanding, StandingRead, StandingCommit, RefreshRead, rows
    <3> QED BY <3>1, <3>2
  <2>3. pc'[p] = "say" /\ word'[p].pos = "unanswered" => state' = "pending"
    BY <1>2, <2>1 DEF Alone
  <2> QED BY <1>2, <2>1, <2>2, <2>3, AloneSteps
<1> QED BY <1>3, <1>4 DEF AInv

(***************************************************************************)
(* An answer that arrives while nothing runs.                              *)
(***************************************************************************)
LEMMA ArrivalAlone ==
  ASSUME IInv, AInv, Arrival
  PROVE  AInv'
<1>0. Daemon \in Procs
  BY DEF Procs
<1>1. Begin(Daemon) /\ pc' = [pc EXCEPT ![Daemon] = "put"] /\ UNCHANGED word
  BY DEF Arrival, Adopt, Receive, Goto
<1>2. Speakers'
  BY <1>0, <1>1 DEF Speakers, IInv, TypeOK
<1>3. ASSUME ~overlap' PROVE Alone'
  <2>1. Alone /\ \A q \in Procs : pc[q] = "idle"
    BY <1>0, <1>1, <1>3, BegunAlone
  <2>2. members' = Members(chain')
    <3>1. CASE head' = head
      <4>1. ASSUME NEW n \in 0 .. Len(log), NEW heard \in Hearable, Adopt(n, heard)
            PROVE  FALSE
        <5> DEFINE sent == SubSeq(log, 1, n)
        <5>1. sent \in Seq(Entry) /\ sent # <<>> /\ head' = Len(sent)
          BY <4>1, FirstEntries DEF Adopt, ValidChain, IInv, TypeOK
        <5>2. head = 0
          BY <4>1 DEF Adopt, IInv, AdminOwns, StoredIsLog
        <5> HIDE DEF sent
        <5>3. Len(sent) # 0
          BY <5>1, Nothing, BeginsSame
        <5> QED BY <3>1, <5>1, <5>2, <5>3
      <4> QED BY <4>1, <2>1 DEF Arrival, Receive, Alone, rows
    <3>2. CASE head' # head
      BY <3>2, HeadMoves DEF Next
    <3> QED BY <3>1, <3>2
  <2> QED BY <1>0, <1>1, <2>1, <2>2, AloneSteps DEF IInv, TypeOK
<1> QED BY <1>2, <1>3 DEF AInv

(***************************************************************************)
(* The daemon's later steps, alone.                                        *)
(***************************************************************************)
LEMMA DaemonAlone ==
  ASSUME IInv, AInv, DaemonStep
  PROVE  AInv'
<1>0. Daemon \in Procs
  BY DEF Procs
<1>1. /\ pc[Daemon] # "idle" /\ UNCHANGED overlap
      /\ \A q \in Procs \ {Daemon} : pc'[q] = pc[q] /\ word'[q] = word[q]
  BY DEF DaemonStep, PutRead, PutCommit, PutApplied, AnswerInvitation, Ratify, Forget, past, local,
         Goto, Forgotten, Speak, IInv, TypeOK
<1>2. /\ pc'[Daemon] \in {"idle", "apply", "answer", "number", "ratify", "author"}
      /\ pc'[Daemon] = "number" => word'[Daemon].pos = "unanswered" /\ state' = "pending"
      /\ pc'[Daemon] = "apply" => seen'[Daemon] = chain'
  BY <1>0 DEF DaemonStep, PutRead, PutCommit, PutApplied, AnswerInvitation, Ratify, Forget, rows,
         Goto, Speak, IInv, TypeOK
<1>3. Speakers'
  BY <1>2 DEF Speakers
<1>4. ASSUME ~overlap' PROVE Alone'
  <2>1. Alone /\ \A q \in Procs \ {Daemon} : pc'[q] = "idle"
    BY <1>0, <1>1, <1>4, OthersIdle DEF AInv
  <2>2. members' = Members(chain')
    <3>1. CASE PutCommit /\ ~(Fresh /\ head # Len(seen[Daemon]))
      <4>1. members' = Members(Extended) /\ chain' = IF Fresh THEN Extended ELSE chain
        BY <3>1, PutCommitWrites DEF PutCommit, PutApplied, RebuildCaches
      <4>2. ~Fresh => Extended = chain
        BY <3>1, <2>1, <1>0 DEF Fresh, Extended, Alone, PutCommit
      <4> QED BY <4>1, <4>2
    <3>2. CASE ~(PutCommit /\ ~(Fresh /\ head # Len(seen[Daemon]))) /\ ~Forget
      BY <2>1, <3>2 DEF DaemonStep, PutRead, PutCommit, AnswerInvitation, Ratify, Alone, rows
    <3>3. CASE Forget
      BY <3>3 DEF Forget, Members
    <3> QED BY <3>1, <3>2, <3>3
  <2> QED BY <1>0, <1>2, <2>1, <2>2, AloneSteps
<1> QED BY <1>3, <1>4 DEF AInv

(***************************************************************************)
(* A crash, an expiry check or a change of the admin's chain elsewhere.    *)
(***************************************************************************)
LEMMA OtherAlone ==
  ASSUME IInv, AInv, ExpireCheck \/ LogGrows \/ UNCHANGED vars \/ \E p \in Procs : Crash(p)
  PROVE  AInv'
<1>0. Daemon \in Procs
  BY DEF Procs
<1>1. CASE ExpireCheck
  <2>1. Begin(Daemon) /\ state = "pending" /\ pc' = [pc EXCEPT ![Daemon] = "forget"]
        /\ UNCHANGED <<rows, word, seen>>
    BY <1>1 DEF ExpireCheck, Goto, local
  <2>2. Speakers'
    BY <1>0, <2>1 DEF Speakers, IInv, TypeOK
  <2>3. ASSUME ~overlap' PROVE Alone'
    <3>1. Alone /\ \A q \in Procs : pc[q] = "idle"
      BY <1>0, <2>1, <2>3, BegunAlone
    <3> QED BY <1>0, <2>1, <3>1, AloneSteps DEF rows, Alone, IInv, TypeOK
  <2> QED BY <2>2, <2>3 DEF AInv
<1>2. CASE LogGrows \/ UNCHANGED vars
  BY <1>2 DEF LogGrows, vars, rows, local, past, AInv, Speakers, Alone
<1>3. CASE \E p \in Procs : Crash(p)
  <2>1. PICK p \in Procs : Crash(p)
    BY <1>3
  <2>2. /\ pc' = [pc EXCEPT ![p] = "idle"] /\ pc[p] # "idle" /\ UNCHANGED <<rows, overlap>>
        /\ \A q \in Procs \ {p} : word'[q] = word[q]
    BY <2>1 DEF Crash, Goto, Forgotten, IInv, TypeOK
  <2>3. Speakers'
    BY <1>0, <2>2 DEF AInv, Speakers, IInv, TypeOK
  <2>4. ASSUME ~overlap' PROVE Alone'
    <3>1. Alone /\ \A q \in Procs \ {p} : pc'[q] = "idle"
      BY <2>2, <2>4, OthersIdle DEF AInv, IInv, TypeOK
    <3> QED BY <2>2, <3>1, AloneSteps DEF rows, Alone, IInv, TypeOK
  <2> QED BY <2>3, <2>4 DEF AInv
<1> QED BY <1>1, <1>2, <1>3

(***************************************************************************)
(* The second inductive invariant holds in every reachable state.          *)
(***************************************************************************)
LEMMA AloneInv == Spec => []AInv
<1>1. Init => AInv
  BY DEF Init, AInv, Speakers, Alone, Procs, Members
<1>2. IInv /\ AInv /\ [Next]_vars => AInv'
  BY CommandAlone, AuthorAlone, AuthorStandingAlone, ArrivalAlone, DaemonAlone, OtherAlone
     DEF Next
<1> QED BY <1>1, <1>2, Invariance, PTL DEF Spec

(***************************************************************************)
(* The member table is what the chain folds to as long as no two           *)
(* operations overlap, wherever a process is killed.                       *)
(***************************************************************************)
THEOREM CacheInStepAloneCorrect == Spec => []CacheInStepAlone
<1>1. AInv => CacheInStepAlone
  BY DEF AInv, Alone, CacheInStepAlone, CacheInStep
<1> QED BY <1>1, AloneInv, PTL

(***************************************************************************)
(* With no operations overlapping, no answer of a peer, no invitation and  *)
(* no expiry takes a group out of "left": only a command that accepts.     *)
(***************************************************************************)
THEOREM LeftStaysAloneCorrect == Spec => LeftStaysAlone
<1>1. ASSUME IInv, AInv, [Next]_vars, ~overlap, state = "left", state' # "left"
      PROVE  BackByAccept
  <2>1. PICK p \in Procs : StandingCommit(p)
    BY <1>1 DEF Next, Command, CreateGroup, Accept, Leave, AddOrRemove, Author, AuthorRead,
         AuthorCommit, AuthorRaced, AuthorStanding, StandingRead, RefreshRead, RefreshCommit,
         Crash, Arrival, Adopt, Receive, DaemonStep, PutRead, PutCommit, AnswerInvitation, Ratify,
         Forget, ExpireCheck, LogGrows, vars, past, rows, AInv, Alone
  <2>2. word[p] \in Standing /\ word[p].pos # "unanswered" /\ pc[p] = "say"
    BY <1>1, <2>1 DEF StandingCommit, IInv, Phases, AInv, Alone
  <2>3. word[p].pos = "in"
    BY <1>1, <2>1, <2>2 DEF StandingCommit, StateOf, Standing, Position
  <2>4. p \in Apps
    BY <1>1, <2>2 DEF AInv, Speakers, Procs
  <2> QED BY <2>2, <2>3, <2>4 DEF BackByAccept
<1>2. IInv /\ AInv /\ [Next]_vars
        => [~overlap /\ state = "left" => state' = "left" \/ BackByAccept]_vars
  BY <1>1
<1> QED BY <1>2, Invariance, AloneInv, PTL DEF Spec, LeftStaysAlone

-----------------------------------------------------------------------------
(***************************************************************************)
(* A group that has a row has entries.  As long as no two operations have  *)
(* overlapped, no standing outlives the group's row, a standing is signed  *)
(* with the seq after the one held, and only while it is being refreshed   *)
(* does the digest describe other standings than the table's, unless a     *)
(* process was killed between the two transactions.                        *)
(***************************************************************************)
Refreshing(p) == pc[p] \in {"refresh", "rebuild"}
Speaking(p) == Refreshing(p) \/ pc[p] \in {"number", "say"}

Settled ==
  /\ state = "absent" => standings = AllSilent
  /\ \A p \in Procs : Speaking(p) => state # "absent"
  /\ \A p \in Procs : pc[p] = "say" => word[p].seq = NextSeq(standings[me])
  /\ crashes = 0 => digest = standings \/ \E p \in Procs : Refreshing(p)

BInv == (chain = <<>> => state = "absent") /\ (~overlap => Settled)

(***************************************************************************)
(* The group's row goes with its entries.                                  *)
(***************************************************************************)
LEMMA RowHasEntries ==
  ASSUME IInv, [Next]_vars, chain = <<>> => state = "absent"
  PROVE  chain' = <<>> => state' = "absent"
<1>1. CASE UNCHANGED <<chain, state>> \/ Forget
  BY <1>1 DEF Forget
<1>2. ASSUME NEW p \in Procs, CreateGroup(p) PROVE chain' # <<>>
  BY <1>2 DEF CreateGroup
<1>3. ASSUME NEW p \in Procs, AuthorCommit(p) PROVE chain' # <<>>
  <2>1. chain' = Append(chain, op[p]) /\ chain \in Seq(Entry) /\ op[p] \in Entry
    BY <1>3, AuthorCommitWrites DEF IInv, TypeOK
  <2> QED BY <2>1
<1>4. ASSUME NEW p \in Procs, StandingCommit(p) PROVE chain' = <<>> => state' = "absent"
  BY <1>4 DEF StandingCommit
<1>5. ASSUME NEW n \in 0 .. Len(log), NEW heard \in Hearable, Adopt(n, heard) PROVE chain' # <<>>
  <2> DEFINE sent == SubSeq(log, 1, n)
  <2>1. chain = <<>> /\ sent # <<>> /\ sent \in Seq(Entry)
    BY <1>5, FirstEntries DEF Adopt, IInv, AdminOwns, ValidChain, TypeOK
  <2>2. chain' = chain \o SubSeq(sent, Len(chain) + 1, Len(sent))
    BY <1>5 DEF Adopt, WriteEntries
  <2> HIDE DEF sent
  <2>3. chain' = sent
    BY <2>1, <2>2
  <2> QED BY <2>1, <2>3
<1>6. CASE PutCommit
  <2>1. CASE Fresh /\ head # Len(seen[Daemon])
    BY <1>6, <2>1 DEF PutCommit
  <2>2. CASE ~(Fresh /\ head # Len(seen[Daemon]))
    <3>1. Len(chain) <= Len(chain') /\ state' = state /\ chain \in Seq(Entry)
      BY <1>6, <2>2, PutCommitWrites DEF PutCommit, IInv, TypeOK
    <3>2. chain' = <<>> => Len(chain) = 0
      BY <3>1
    <3>3. Len(chain) = 0 => chain = <<>>
      BY <3>1
    <3> QED BY <3>1, <3>2, <3>3
  <2> QED BY <2>1, <2>2
<1>7. Apps \subseteq Procs
  BY DEF Procs
<1> QED BY <1>1, <1>2, <1>3, <1>4, <1>5, <1>6, <1>7
        DEF Next, Command, Accept, Leave, AddOrRemove, Author, AuthorRead, AuthorRaced,
            AuthorStanding, StandingRead, RefreshRead, RefreshCommit, Crash, Arrival, Receive,
            DaemonStep, PutRead, AnswerInvitation, Ratify, ExpireCheck, LogGrows, vars, rows

(***************************************************************************)
(* A process alone that steps on.                                          *)
(***************************************************************************)
LEMMA SettledSteps ==
  ASSUME NEW p \in Procs, \A q \in Procs \ {p} : pc'[q] = "idle",
         state' = "absent" => standings' = AllSilent,
         Speaking(p)' => state' # "absent",
         pc'[p] = "say" => word'[p].seq = NextSeq(standings[me])',
         crashes' = 0 => digest' = standings' \/ Refreshing(p)'
  PROVE  Settled'
BY DEF Settled, Speaking, Refreshing

(***************************************************************************)
(* The caches as they are rebuilt over one set, and over silence.          *)
(***************************************************************************)
LEMMA Rebuilt ==
  ASSUME NEW c, NEW table, NEW set, RebuildCaches(c, table, set)
  PROVE  /\ table = set => digest' = standings'
         /\ \A q \in Peers : standings'[q] \in {table[q], Silent}
BY DEF RebuildCaches, OnlyOf

(***************************************************************************)
(* A command that starts while nothing runs.                               *)
(***************************************************************************)
LEMMA CommandSettled ==
  ASSUME IInv, AInv, BInv, NEW p \in Apps, Command(p), ~overlap'
  PROVE  Settled'
<1>0. p \in Procs
  BY DEF Procs
<1>1. Begin(p) /\ UNCHANGED <<me, crashes>>
  BY DEF Command, CreateGroup, Accept, Leave, AddOrRemove
<1>2. Alone /\ Settled /\ \A q \in Procs : pc[q] = "idle"
  BY <1>0, <1>1, BegunAlone DEF BInv, Begin
<1>3. CASE CreateGroup(p)
  <2>1. pc' = pc /\ state' = "active"
    BY <1>3 DEF CreateGroup
  <2>2. digest' = standings'
    BY <1>3, Rebuilt DEF CreateGroup
  <2> QED BY <1>0, <1>2, <2>1, <2>2, SettledSteps DEF Speaking, Refreshing
<1>4. CASE ~CreateGroup(p)
  <2>1. UNCHANGED rows /\ state # "absent" /\ pc'[p] \in {"author", "number"}
        /\ \A q \in Procs \ {p} : pc'[q] = pc[q]
    BY <1>0, <1>4 DEF Command, Accept, Leave, AddOrRemove, Speak, Goto, IInv, TypeOK
  <2>2. crashes = 0 => digest = standings
    BY <1>2 DEF Settled, Refreshing
  <2> QED BY <1>0, <1>1, <1>2, <2>1, <2>2, SettledSteps DEF rows, Speaking, Refreshing
<1> QED BY <1>3, <1>4

(***************************************************************************)
(* author by a process alone.                                              *)
(***************************************************************************)
LEMMA AuthorSettled ==
  ASSUME IInv, AInv, BInv, NEW p \in Procs, Author(p), ~overlap'
  PROVE  Settled'
<1>1. /\ pc[p] \in {"author", "append"} /\ UNCHANGED <<overlap, me, crashes>>
      /\ state # "absent" /\ state' = state
  BY DEF Author, AuthorRead, AuthorCommit, AuthorRaced, past, rows, IInv, Phases
<1>2. /\ pc'[p] \in {"append", "ratify", "idle"}
      /\ \A q \in Procs \ {p} : pc'[q] = pc[q]
  <2>1. CASE Return(p)
    BY <2>1, ReturnType DEF IInv
  <2>2. CASE ~Return(p)
    BY <2>2 DEF Author, AuthorRead, AuthorCommit, AuthorRaced, Goto, IInv, TypeOK
  <2> QED BY <2>1, <2>2
<1>3. Settled /\ \A q \in Procs \ {p} : pc'[q] = "idle" /\ pc[q] = "idle"
  BY <1>1, <1>2, OthersIdle DEF AInv, BInv
<1>4. crashes = 0 => digest' = standings'
  <2>1. CASE AuthorCommit(p)
    BY <2>1, AuthorCommitWrites, Rebuilt
  <2>2. CASE ~AuthorCommit(p)
    BY <1>1, <1>3, <2>2 DEF Author, AuthorRead, AuthorRaced, rows, Settled, Refreshing
  <2> QED BY <2>1, <2>2
<1> QED BY <1>1, <1>2, <1>3, <1>4, SettledSteps DEF Speaking, Refreshing

(***************************************************************************)
(* author_standing by a process alone: what it signs follows what is held, *)
(* and the digest is rebuilt before it returns.                            *)
(***************************************************************************)
LEMMA AuthorStandingSettled ==
  ASSUME IInv, AInv, BInv, NEW p \in Procs, AuthorStanding(p), ~overlap'
  PROVE  Settled'
<1>1. Speaking(p) /\ pc[p] # "idle" /\ UNCHANGED <<overlap, me, crashes>>
  BY DEF AuthorStanding, StandingRead, StandingCommit, RefreshRead, RefreshCommit, past, Speaking,
         Refreshing
<1>2. \A q \in Procs \ {p} : pc'[q] = pc[q]
  <2>1. CASE Return(p)
    BY <2>1, ReturnType DEF IInv
  <2>2. CASE ~Return(p)
    BY <2>2 DEF AuthorStanding, StandingRead, StandingCommit, RefreshRead, RefreshCommit, Goto,
                IInv, TypeOK
  <2> QED BY <2>1, <2>2
<1>3. Settled /\ state # "absent" /\ chain # <<>>
      /\ \A q \in Procs \ {p} : pc'[q] = "idle" /\ pc[q] = "idle"
  BY <1>1, <1>2, OthersIdle DEF AInv, BInv, Settled
<1>4. CASE StandingRead(p)
  <2>1. pc'[p] = "say" /\ word'[p].seq = NextSeq(standings[me]) /\ UNCHANGED <<rows, me>>
    <3>1. word[p] \in Standing
      BY <1>4 DEF StandingRead, IInv, Phases
    <3> QED BY <1>4, <3>1 DEF StandingRead, Goto, IInv, TypeOK, Standing
  <2>2. crashes = 0 => digest = standings
    BY <1>3, <1>4 DEF Settled, Refreshing, StandingRead
  <2> QED BY <1>1, <1>3, <2>1, <2>2, SettledSteps DEF rows, Speaking, Refreshing
<1>5. CASE StandingCommit(p)
  <2>1. pc'[p] = "refresh" /\ state' # "absent"
    BY <1>3, <1>5 DEF StandingCommit, Goto, IInv, TypeOK, Phases, Standing, Position, StateOf
  <2> QED BY <1>3, <2>1, SettledSteps DEF Refreshing
<1>6. CASE RefreshRead(p)
  <2>1. pc'[p] = "rebuild" /\ UNCHANGED rows
    BY <1>3, <1>6 DEF RefreshRead, Goto, IInv, TypeOK
  <2> QED BY <1>3, <2>1, SettledSteps DEF rows, Refreshing
<1>7. CASE RefreshCommit(p)
  <2>1. pc'[p] \in {"ratify", "idle"} /\ state' = state /\ digest' = standings'
    BY <1>7, ReturnType, Rebuilt DEF RefreshCommit, IInv
  <2> QED BY <1>3, <2>1, SettledSteps DEF Speaking, Refreshing
<1> QED BY <1>4, <1>5, <1>6, <1>7 DEF AuthorStanding

(***************************************************************************)
(* An answer that arrives while nothing runs, and the daemon's later       *)
(* steps, alone.                                                           *)
(***************************************************************************)
LEMMA DaemonSettled ==
  ASSUME IInv, AInv, BInv, Arrival \/ DaemonStep, ~overlap'
  PROVE  Settled'
<1>0. Daemon \in Procs
  BY DEF Procs
<1>1. \A q \in Procs \ {Daemon} : pc'[q] = pc[q]
  BY DEF Arrival, Adopt, Receive, DaemonStep, PutRead, PutCommit, PutApplied, AnswerInvitation,
         Ratify, Forget, Goto, Speak, IInv, TypeOK
<1>2. Alone /\ Settled /\ \A q \in Procs \ {Daemon} : pc'[q] = "idle" /\ pc[q] = "idle"
  <2>1. CASE Arrival
    <3>1. Begin(Daemon)
      BY <2>1 DEF Arrival, Adopt, Receive
    <3>2. Alone /\ ~overlap /\ \A q \in Procs : pc[q] = "idle"
      BY <1>0, <3>1, BegunAlone DEF Begin
    <3> QED BY <1>1, <3>2 DEF BInv
  <2>2. CASE DaemonStep
    <3>1. pc[Daemon] # "idle" /\ UNCHANGED overlap
      BY <2>2 DEF DaemonStep, PutRead, PutCommit, AnswerInvitation, Ratify, Forget, past
    <3> QED BY <1>0, <1>1, <3>1, OthersIdle DEF AInv, BInv
  <2> QED BY <2>1, <2>2
<1>3. /\ pc[Daemon] \in {"idle", "put", "apply", "answer", "ratify", "forget"}
      /\ pc'[Daemon] \in {"idle", "put", "apply", "answer", "number", "ratify", "author"}
      /\ pc'[Daemon] = "number" => state = "pending" /\ state' = state
  BY <1>0 DEF Arrival, Adopt, Receive, Begin, DaemonStep, PutRead, PutCommit, PutApplied,
         AnswerInvitation, Ratify, Forget, Goto, Speak, rows, IInv, TypeOK
<1>4. crashes' = crashes /\ (crashes = 0 => digest = standings)
  BY <1>2, <1>3 DEF Settled, Refreshing, Arrival, Adopt, Receive, DaemonStep, PutRead, PutCommit,
         AnswerInvitation, Ratify, Forget, past
<1>5. (crashes = 0 => digest' = standings') /\ (state' = "absent" => standings' = AllSilent)
  <2>1. ASSUME NEW n \in 0 .. Len(log), NEW heard \in Hearable, Adopt(n, heard)
        PROVE  state' = "pending" /\ digest' = standings'
    <3>1. standings = AllSilent
      BY <1>2, <2>1 DEF Settled, Adopt
    <3> QED BY <2>1, <3>1, Rebuilt DEF Adopt
  <2>2. CASE PutCommit
    <3>1. CASE Fresh /\ head # Len(seen[Daemon])
      BY <1>2, <1>4, <2>2, <3>1 DEF PutCommit, Settled
    <3>2. CASE ~(Fresh /\ head # Len(seen[Daemon]))
      <4>1. digest' = standings'
        BY <2>2, <3>2, Rebuilt DEF PutCommit, PutApplied
      <4>2. state' # "absent"
        BY <2>2 DEF PutCommit, IInv, Phases
      <4> QED BY <4>1, <4>2
    <3> QED BY <3>1, <3>2
  <2>3. CASE Forget
    BY <2>3 DEF Forget
  <2>4. CASE UNCHANGED rows
    BY <1>2, <1>4, <2>4 DEF rows, Settled
  <2> QED BY <2>1, <2>2, <2>3, <2>4 DEF Arrival, Receive, DaemonStep, PutRead, AnswerInvitation,
                Ratify
<1> QED BY <1>0, <1>2, <1>3, <1>4, <1>5, SettledSteps DEF Speaking, Refreshing

(***************************************************************************)
(* A crash, an expiry check or a change of the admin's chain elsewhere.    *)
(***************************************************************************)
LEMMA OtherSettled ==
  ASSUME IInv, AInv, BInv, ~overlap',
         ExpireCheck \/ LogGrows \/ UNCHANGED vars \/ \E p \in Procs : Crash(p)
  PROVE  Settled'
<1>0. Daemon \in Procs
  BY DEF Procs
<1>1. CASE ExpireCheck
  <2>1. Begin(Daemon) /\ pc' = [pc EXCEPT ![Daemon] = "forget"] /\ UNCHANGED <<rows, crashes>>
    BY <1>1 DEF ExpireCheck, Goto
  <2>2. Settled /\ \A q \in Procs : pc[q] = "idle"
    BY <1>0, <2>1, BegunAlone DEF BInv, Begin
  <2>3. pc'[Daemon] = "forget" /\ \A q \in Procs \ {Daemon} : pc'[q] = "idle"
    BY <1>0, <2>1, <2>2 DEF IInv, TypeOK
  <2>4. crashes = 0 => digest = standings
    BY <2>2 DEF Settled, Refreshing
  <2> QED BY <1>0, <2>1, <2>2, <2>3, <2>4, SettledSteps DEF rows, Speaking, Refreshing, Settled
<1>2. CASE LogGrows \/ UNCHANGED vars
  BY <1>2 DEF LogGrows, vars, rows, local, past, BInv, Settled, Speaking, Refreshing
<1>3. CASE \E p \in Procs : Crash(p)
  <2>1. PICK p \in Procs : Crash(p)
    BY <1>3
  <2>2. /\ pc' = [pc EXCEPT ![p] = "idle"] /\ pc[p] # "idle" /\ UNCHANGED <<rows, overlap>>
        /\ crashes' # 0
    BY <2>1 DEF Crash, Goto, IInv, TypeOK
  <2>3. Settled /\ pc'[p] = "idle" /\ \A q \in Procs \ {p} : pc'[q] = "idle"
    BY <2>2, OthersIdle DEF AInv, BInv, IInv, TypeOK
  <2> QED BY <2>2, <2>3, SettledSteps DEF rows, Settled, Speaking, Refreshing
<1> QED BY <1>1, <1>2, <1>3

(***************************************************************************)
(* The third inductive invariant holds in every reachable state.           *)
(***************************************************************************)
LEMMA SettledInv == Spec => []BInv
<1>1. Init => BInv
  BY DEF Init, BInv, Settled, Speaking, Refreshing, Procs
<1>2. IInv /\ AInv /\ BInv /\ [Next]_vars => BInv'
  <2> SUFFICES ASSUME IInv, AInv, BInv, [Next]_vars PROVE BInv'
    OBVIOUS
  <2>1. ~overlap' => Settled'
    BY CommandSettled, AuthorSettled, AuthorStandingSettled, DaemonSettled, OtherSettled DEF Next
  <2> QED BY <2>1, RowHasEntries DEF BInv
<1> QED BY <1>1, <1>2, Invariance, AloneInv, PTL DEF Spec

(***************************************************************************)
(* With nothing running, no operations overlapped and no process killed,   *)
(* the digest offered to peers describes the standings held                *)
(* (refresh_digest, rebuild_caches).                                       *)
(***************************************************************************)
THEOREM DigestInStepCorrect == Spec => []DigestInStep
<1>1. BInv => DigestInStep
  BY DEF BInv, Settled, Refreshing, DigestInStep, AllIdle
<1> QED BY <1>1, SettledInv, PTL

(***************************************************************************)
(* With no operations overlapping, what replaces a row of ours wins        *)
(* against it: author_standing numbers it after the one held, and put only *)
(* takes a statement that wins.                                            *)
(***************************************************************************)
THEOREM OwnWordClimbsCorrect == Spec => OwnWordClimbs
<1>1. ASSUME IInv, AInv, BInv, [Next]_vars, ~overlap, standings[me] # Silent,
             standings'[me] \notin {Silent, standings[me]}
      PROVE  Wins(standings'[me], standings[me])
  <2>1. me \in Peers /\ standings[me] \in Standing /\ state # "absent" /\ Settled
    <3>1. me \in Peers
      BY <1>1, SelfAssumption DEF IInv, TypeOK
    <3> QED BY <1>1, <3>1 DEF IInv, TypeOK, Word, BInv, Settled, AllSilent
  <2>2. ASSUME NEW p \in Procs, AuthorCommit(p) \/ RefreshCommit(p) PROVE FALSE
    BY <1>1, <2>1, <2>2, AuthorCommitWrites, Rebuilt DEF RefreshCommit
  <2>3. ASSUME NEW p \in Procs, StandingCommit(p) PROVE Wins(standings'[me], standings[me])
    <3>1. standings'[me] = word[p] /\ word[p] \in Standing /\ word[p].seq = NextSeq(standings[me])
      BY <1>1, <2>1, <2>3 DEF StandingCommit, IInv, TypeOK, Phases, Settled
    <3> QED BY <2>1, <3>1 DEF Wins, NextSeq, Standing
  <2>4. CASE PutCommit /\ ~(Fresh /\ head # Len(seen[Daemon]))
    <3>1. standings'[me] \in {Later(standings[me], offer.heard[me]), standings[me], Silent}
      BY <2>1, <2>4 DEF PutCommit, PutApplied, RebuildCaches, OnlyOf
    <3> QED BY <1>1, <3>1 DEF Later
  <2>5. ~Forget
    BY <1>1, <2>1 DEF Forget, AllSilent
  <2>6. ~UNCHANGED rows
    BY <1>1 DEF rows
  <2> QED BY <1>1, <2>1, <2>2, <2>3, <2>4, <2>5, <2>6
          DEF Next, Command, CreateGroup, Accept, Leave, AddOrRemove, Author, AuthorRead,
              AuthorRaced, AuthorStanding, StandingRead, RefreshRead, Crash, Arrival, Adopt, Receive,
              DaemonStep, PutRead, PutCommit, AnswerInvitation, Ratify, ExpireCheck, LogGrows, vars,
              rows
<1>2. IInv /\ AInv /\ BInv /\ [Next]_vars
        => [~overlap /\ standings[me] # Silent /\ standings'[me] \notin {Silent, standings[me]}
              => Wins(standings'[me], standings[me])]_vars
  BY <1>1
<1> QED BY <1>2, Invariance, AloneInv, SettledInv, PTL DEF Spec, OwnWordClimbs

=============================================================================
