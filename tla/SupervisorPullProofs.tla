------------------------ MODULE SupervisorPullProofs ------------------------
(***************************************************************************)
(* Theorems about the sources of the Supervisor, for every set of peers,   *)
(* groups and files, every membership and every limit: no group is pulled  *)
(* from two peers at once (SourceStaysOne); and none waits on a source     *)
(* that nothing will move (SourcesStayDriven).                             *)
(*                                                                         *)
(* PullInv is the invariant of the first, beside CallInv and LoadInv: a    *)
(* group and the peer it is pulled from are in one phase at a time (a      *)
(* question open, one to be put again, or files queued and read), and in   *)
(* each that peer is the group's source.                                   *)
(* MoveInv is that of the second: every source is a connected member with  *)
(* which something is under way, no file is queued twice or while it is    *)
(* read, and what is queued or asked for can still be had.                 *)
(*                                                                         *)
(* SamePulls says that a function leaves alone what PullInv reads, as      *)
(* SameRounds and SameLoads do of the other two.                           *)
(***************************************************************************)
EXTENDS SupervisorProofs

-----------------------------------------------------------------------------
(***************************************************************************)
(* What the sources speak of: beside the transfers, the source of each     *)
(* group, the questions open and those to be put again, and what is still  *)
(* to be had from whom.                                                    *)
(***************************************************************************)
PullFields == {"source", "again", "queries", "missing", "denied", "reads"}

SamePulls(w, u) ==
  /\ Fields \union PullFields \subseteq DOMAIN w
  /\ SameLoads(w, u)
  /\ \A f \in PullFields : u[f] = w[f]

(***************************************************************************)
(* Two changes in a row that leave the pulls alone leave them alone.       *)
(***************************************************************************)
LEMMA PullsTransitive ==
  \A a, b, c : SamePulls(a, b) /\ SamePulls(b, c) => SamePulls(a, c)
  BY DEF SamePulls, SameLoads

(***************************************************************************)
(* What changes nothing leaves the pulls alone.                            *)
(***************************************************************************)
LEMMA PullsReflexive ==
  \A w : Fields \union PullFields \subseteq DOMAIN w => SamePulls(w, w)
  BY DEF SamePulls, SameLoads

(***************************************************************************)
(* A dial leaves the pulls alone (dial);                                   *)
(***************************************************************************)
LEMMA DialPulls ==
  \A w, p : Fields \union PullFields \subseteq DOMAIN w => SamePulls(w, Dial(w, p))
  BY DEF Dial, SamePulls, SameLoads, Fields, PullFields

(***************************************************************************)
(* so do the dials of a tick (queue_dials),                                *)
(***************************************************************************)
LEMMA QueueDialsPulls ==
  \A w, order : Fields \union PullFields \subseteq DOMAIN w => SamePulls(w, QueueDials(w, order))
  BY DialPulls, PullsReflexive DEF QueueDials

(***************************************************************************)
(* and peers taken back as sources for a group (reconsider_content).       *)
(***************************************************************************)
LEMMA ReconsiderPulls ==
  \A w, gs : Fields \union PullFields \subseteq DOMAIN w => SamePulls(w, Reconsider(w, gs))
  BY DEF Reconsider, SamePulls, SameLoads, Fields, PullFields

(***************************************************************************)
(* So does what a tick does about one group (arm),                         *)
(***************************************************************************)
LEMMA ArmPulls ==
  \A w, g : Fields \union PullFields \subseteq DOMAIN w => SamePulls(w, Arm(w, g))
<1> TAKE w, g
<1> HAVE Fields \union PullFields \subseteq DOMAIN w
<1> DEFINE new == IF g \notin w.wanted THEN w
                  ELSE [Reconsider(w, {g}) EXCEPT
                      !.wanted = w.wanted \ {g},
                      !.asked = [x \in Peers \X Groups |->
                                   IF x[2] = g THEN 0 ELSE w.asked[x]]]
           told == IF g \notin w.news THEN new
                   ELSE [new EXCEPT !.news = new.news \ {g},
                      !.pending = new.pending \union
                        (MembersOf[g] \intersect (w.connected \union w.online))]
           next == NextMember(told, g, {})
<1>1. SamePulls(w, new)
  BY ReconsiderPulls DEF SamePulls, SameLoads, Fields, PullFields
<1>2. SamePulls(w, told)
  <2> HIDE DEF new
  <2> QED BY <1>1 DEF SamePulls, SameLoads, Fields, PullFields
<1>3. \/ Arm(w, g) = told
      \/ Arm(w, g) = [told EXCEPT !.due = told.due \ {g}]
      \/ Arm(w, g) = [told EXCEPT !.due = told.due \ {g}, !.turn[g] = next.turn,
                                  !.pending = told.pending \union {next.peer}]
  BY DEF Arm
<1> HIDE DEF new, told, next
<1>4. Fields \union PullFields \subseteq DOMAIN told
  BY <1>2 DEF SamePulls, SameLoads
<1>5. ASSUME NEW due PROVE SamePulls(told, [told EXCEPT !.due = due])
  BY <1>4 DEF SamePulls, SameLoads, Fields, PullFields
<1>6. ASSUME NEW due, NEW turn, NEW pending
      PROVE  SamePulls(told, [told EXCEPT !.due = due, !.turn[g] = turn, !.pending = pending])
  BY <1>4 DEF SamePulls, SameLoads, Fields, PullFields
<1> QED BY <1>2, <1>3, <1>5, <1>6, PullsTransitive

(***************************************************************************)
(* and about all of them,                                                  *)
(***************************************************************************)
LEMMA ArmsPulls ==
  ASSUME NEW w, Fields \union PullFields \subseteq DOMAIN w, NEW seq, Len(seq) \in Nat
  PROVE  SamePulls(w, Arms(w, seq))
<1>1. PICK run : /\ run[0] = w
                 /\ \A i \in 1 .. Len(seq) : run[i] = Arm(run[i - 1], seq[i])
                 /\ Arms(w, seq) = run[Len(seq)]
  BY ArmsRun
<1> DEFINE T == {i \in 0 .. Len(seq) : SamePulls(w, run[i])}
<1>2. 0 \in T
  BY <1>1, PullsReflexive
<1>3. ASSUME NEW i \in 1 .. Len(seq), i - 1 \in T PROVE i \in T
  <2>1. SamePulls(w, run[i - 1]) /\ Fields \union PullFields \subseteq DOMAIN run[i - 1]
    BY <1>3 DEF SamePulls, SameLoads
  <2>2. SamePulls(run[i - 1], run[i])
    BY <1>1, <2>1, ArmPulls
  <2> QED BY <2>1, <2>2, PullsTransitive
<1> HIDE DEF T
<1>4. Len(seq) \in T
  <2>1. 0 .. Len(seq) \subseteq T
    BY <1>2, <1>3, UpTo
  <2> QED BY <2>1
<1> QED BY <1>1, <1>4 DEF T

(***************************************************************************)
(* proposing to close,                                                     *)
(***************************************************************************)
LEMMA ClosesPulls ==
  \A w : Fields \union PullFields \subseteq DOMAIN w => SamePulls(w, Closes(w))
  BY DEF Closes, SamePulls, SameLoads, Fields, PullFields

(***************************************************************************)
(* beginning and ending rounds,                                            *)
(***************************************************************************)
LEMMA StartRoundPulls ==
  ASSUME NEW w, Fields \union PullFields \subseteq DOMAIN w, NEW which
  PROVE  SamePulls(w, StartRound(w, which))
  BY DEF StartRound, SamePulls, SameLoads, Fields, PullFields

(***************************************************************************)
(* asking,                                                                 *)
(***************************************************************************)
LEMMA AskPulls ==
  ASSUME NEW w, Fields \union PullFields \subseteq DOMAIN w, NEW which
  PROVE  SamePulls(w, Ask(w, which))
<1> DEFINE s == StartRound(w, which)
<1>1. SamePulls(w, s)
  BY StartRoundPulls
<1>2. \E asks : Ask(w, which) = [s EXCEPT !.asks = asks]
  BY DEF Ask
<1> HIDE DEF s
<1> QED BY <1>1, <1>2 DEF SamePulls, SameLoads, Fields, PullFields

(***************************************************************************)
(* arming a round again,                                                   *)
(***************************************************************************)
LEMMA ArmRetryPulls ==
  ASSUME NEW w, Fields \union PullFields \subseteq DOMAIN w, NEW ps
  PROVE  SamePulls(w, ArmRetry(w, ps))
<1> DEFINE which == [p \in {q \in ps : w.started[q] # "none"} |-> "none"]
           s == StartRound(w, which)
<1>1. SamePulls(w, s)
  BY StartRoundPulls
<1>2. \E pending, retry : ArmRetry(w, ps) = [s EXCEPT !.pending = pending, !.retry = retry]
  BY DEF ArmRetry
<1> HIDE DEF s
<1> QED BY <1>1, <1>2 DEF SamePulls, SameLoads, Fields, PullFields

(***************************************************************************)
(* and handing the requests out.                                           *)
(***************************************************************************)
LEMMA DispatchPulls ==
  ASSUME NEW w, Fields \union PullFields \subseteq DOMAIN w
  PROVE  SamePulls(w, Dispatch(w))
<1> DEFINE late == {a \in w.asks : ChainBusy(w, a[1])}
           idle == {p \in w.proposals :
                      Drained(w, p) /\ ~FilesBusy(w, p) /\ ~ChainBusy(w, p)}
           sent == [w EXCEPT !.rounds = w.rounds \union (w.asks \ late),
                        !.asks = {}, !.closes = w.closes \union idle,
                        !.proposals = {}]
<1>1. Dispatch(w) = ArmRetry(sent, {a[1] : a \in late})
  BY DEF Dispatch
<1>2. SamePulls(w, sent)
  BY DEF SamePulls, SameLoads, Fields, PullFields
<1> HIDE DEF sent
<1>3. PICK ps : ps = {a[1] : a \in late}
  OBVIOUS
<1>4. SamePulls(sent, ArmRetry(sent, ps))
  BY <1>2, ArmRetryPulls DEF SamePulls, SameLoads
<1> QED BY <1>1, <1>2, <1>3, <1>4, PullsTransitive

-----------------------------------------------------------------------------
(***************************************************************************)
(* What is put in order is each element of the set, once.                  *)
(***************************************************************************)
LEMMA InOrderLists ==
  ASSUME NEW S \in SUBSET Nat, IsFiniteSet(S)
  PROVE  /\ Cardinality(S) \in Nat /\ Len(InOrder(S)) = Cardinality(S)
         /\ DOMAIN InOrder(S) = 1 .. Cardinality(S)
         /\ \A i \in 1 .. Cardinality(S) : InOrder(S)[i] \in S
         /\ \A i, j \in 1 .. Cardinality(S) : InOrder(S)[i] = InOrder(S)[j] => i = j
         /\ \A x \in S : \E i \in 1 .. Cardinality(S) : InOrder(S)[i] = x
<1> DEFINE n == Cardinality(S)
           below(x) == {y \in S : y < x}
           rank == [x \in S |-> Cardinality(below(x))]
           at == InOrder(S)
<1>1. n \in Nat
  BY FS_CardinalityType
<1>2. ASSUME NEW x \in S
      PROVE  /\ IsFiniteSet(below(x)) /\ Cardinality(below(x)) \in Nat
             /\ Cardinality(below(x)) < n
  <2> DEFINE B == below(x)
  <2>1. B \in SUBSET (S \ {x}) /\ B \in SUBSET S
    OBVIOUS
  <2>2. IsFiniteSet(S \ {x}) /\ Cardinality(S \ {x}) = n - 1
    BY FS_RemoveElement
  <2> HIDE DEF B
  <2>3. IsFiniteSet(B) /\ Cardinality(B) <= n - 1
    BY <2>1, <2>2, FS_Subset
  <2>4. Cardinality(B) \in Nat
    BY <2>3, FS_CardinalityType
  <2>5. Cardinality(B) < n
    BY <1>1, <2>3, <2>4
  <2> QED BY <2>3, <2>4, <2>5 DEF B
<1>3. ASSUME NEW x \in S, NEW y \in S, x < y PROVE rank[x] < rank[y]
  <2> DEFINE B == below(x)
             C == below(y)
  <2>1. B \union {x} \in SUBSET C /\ x \notin B
    <3>1. ASSUME NEW z \in B \union {x} PROVE z \in S /\ z < y
      <4>1. x \in Nat /\ y \in Nat /\ z \in S /\ z \in Nat /\ (z = x \/ z < x)
        OBVIOUS
      <4> QED BY <1>3, <4>1
    <3>2. ~(x < x)
      <4>1. x \in Nat
        OBVIOUS
      <4> QED BY <4>1
    <3> QED BY <3>1, <3>2
  <2>2. IsFiniteSet(B) /\ IsFiniteSet(C) /\ Cardinality(B) \in Nat /\ Cardinality(C) \in Nat
    BY <1>2
  <2>3. rank[x] = Cardinality(B) /\ rank[y] = Cardinality(C)
    OBVIOUS
  <2> HIDE DEF B, C, rank
  <2>4. Cardinality(B \union {x}) = Cardinality(B) + 1 /\ IsFiniteSet(B \union {x})
    BY <2>1, <2>2, FS_AddElement
  <2>5. Cardinality(B \union {x}) <= Cardinality(C)
    BY <2>1, <2>2, FS_Subset
  <2> QED BY <2>2, <2>3, <2>4, <2>5
<1>4. rank \in [S -> 0 .. n - 1]
  BY <1>1, <1>2
<1>5. ASSUME NEW x \in S, NEW y \in S, rank[x] = rank[y] PROVE x = y
  <2>1. ~(x < y) /\ ~(y < x)
    <3>1. rank[x] \in Nat /\ rank[y] \in Nat
      BY <1>4, <1>1
    <3> HIDE DEF rank
    <3> QED BY <1>3, <1>5, <3>1
  <2> QED BY <2>1
<1>6. \A k \in 0 .. n - 1 : \E x \in S : rank[x] = k
  <2>1. rank \in Injection(S, 0 .. n - 1)
    <3> HIDE DEF rank
    <3> QED BY <1>4, <1>5, Fun_IsInj
  <2>2. IsFiniteSet(0 .. n - 1) /\ Cardinality(0 .. n - 1) = n
    <3>1. PICK m : m = n - 1
      OBVIOUS
    <3>2. 0 \in Int /\ m \in Int /\ (IF 0 > m THEN 0 ELSE m - 0 + 1) = n
      BY <1>1, <3>1
    <3> HIDE DEF n
    <3> QED BY <3>1, <3>2, FS_Interval
  <2>3. rank \in Surjection(S, 0 .. n - 1)
    <3> HIDE DEF rank
    <3> QED BY <2>1, <2>2, FS_Injection
  <2> HIDE DEF rank
  <2> QED BY <2>3 DEF Surjection
<1>7. at = [i \in 1 .. n |-> CHOOSE x \in S : Cardinality(below(x)) = i - 1]
  BY DEF InOrder
<1>8. DOMAIN at = 1 .. n /\ Len(at) = n
  <2>1. DOMAIN at = 1 .. n
    BY <1>7
  <2>2. at = [i \in 1 .. n |-> at[i]]
    BY <1>7
  <2> HIDE DEF at
  <2>3. at \in Seq({at[i] : i \in 1 .. n})
    BY <1>1, <2>2
  <2> QED BY <1>1, <2>1, <2>3
<1>9. ASSUME NEW i \in 1 .. n PROVE at[i] \in S /\ rank[at[i]] = i - 1
  <2>1. at[i] = CHOOSE x \in S : Cardinality(below(x)) = i - 1
    BY <1>7
  <2>2. \E x \in S : Cardinality(below(x)) = i - 1
    <3>1. i - 1 \in 0 .. n - 1
      BY <1>1
    <3> QED BY <1>6, <3>1
  <2>3. at[i] \in S /\ Cardinality(below(at[i])) = i - 1
    <3> HIDE DEF at
    <3> QED BY <2>1, <2>2
  <2> HIDE DEF at
  <2> QED BY <2>3
<1>10. ASSUME NEW x \in S PROVE \E i \in 1 .. n : at[i] = x
  <2> DEFINE i == rank[x] + 1
  <2>1. i \in 1 .. n
    BY <1>1, <1>4
  <2>2. at[i] \in S /\ rank[at[i]] = i - 1
    BY <1>9, <2>1
  <2>3. rank[at[i]] = rank[x]
    BY <1>4, <2>2
  <2> HIDE DEF rank, i, at
  <2> QED BY <1>5, <2>1, <2>2, <2>3
<1> HIDE DEF at, rank
<1>11. ASSUME NEW i \in 1 .. n, NEW j \in 1 .. n, at[i] = at[j] PROVE i = j
  BY <1>1, <1>9, <1>11
<1> QED BY <1>1, <1>8, <1>9, <1>10, <1>11 DEF at

-----------------------------------------------------------------------------
(***************************************************************************)
(* No question to p about g is open or to be put again; no bytes of g are  *)
(* read from p; no file of g is queued at p.                               *)
(***************************************************************************)
Unasked(w, p, g) ==
  /\ ~w.again[<<p, g>>].armed
  /\ \A q \in w.queries : ~(q[1] = p /\ q[2] = g)
Unread(w, p, g) == \A b \in w.blobs : ~(b[1] = p /\ b[2][1] = g)
Unqueued(w, p, g) == \A i \in DOMAIN w.queued[p] : w.queued[p][i][1] # g

(***************************************************************************)
(* Files of g are being fetched from p: p is the source, and is not being  *)
(* asked about g.                                                          *)
(***************************************************************************)
Fetches(w, p, g) == g \in Groups /\ w.source[g] = p /\ Unasked(w, p, g)

(***************************************************************************)
(* The sources of w are in order, when the connections in opening are not  *)
(* ready yet.  A group and the peer it is pulled from are in one phase at  *)
(* a time: one question open; or a question to be put again; or files      *)
(* queued or being read.  In each, the peer is the group's source.         *)
(***************************************************************************)
SourcesTyped(w, opening) ==
  /\ CountsOK(w, opening) /\ PullFields \subseteq DOMAIN w
  /\ w.connected \subseteq Peers
  /\ w.source \in [Groups -> Peers \union {Nobody}]
  /\ w.again \in [Peers \X Groups -> Retry]

QueriesOK(w, opening) ==
  \A q \in w.queries :
    /\ q[1] \in Peers \ opening /\ q[2] \in Groups
    /\ q[1] \in w.connected =>
         /\ w.source[q[2]] = q[1] /\ ~w.again[<<q[1], q[2]>>].armed
         /\ \A r \in w.queries : r[1] = q[1] /\ r[2] = q[2] => r = q

ArmedOK(w) ==
  \A p \in Peers, g \in Groups :
    w.again[<<p, g>>].armed => p \in w.connected /\ w.source[g] = p

QueuesOK(w) ==
  \A p \in Peers : \A i \in DOMAIN w.queued[p] : Fetches(w, p, w.queued[p][i][1])

ReadsOK(w) ==
  \A b \in w.blobs : b[1] \in w.connected => Fetches(w, b[1], b[2][1])

SourcesOK(w, opening) ==
  /\ SourcesTyped(w, opening) /\ QueriesOK(w, opening)
  /\ ArmedOK(w) /\ QueuesOK(w) /\ ReadsOK(w)

Sourced(w, opening, connected) == SourcesOK(w, opening) /\ w.connected = connected

(***************************************************************************)
(* Nobody is no peer.                                                      *)
(***************************************************************************)
LEMMA NobodyElse == Nobody \notin Peers
  BY SupervisorAssumption DEF SupervisorAssumption, Nobody

(***************************************************************************)
(* What leaves the pulls alone leaves the sources in order.                *)
(***************************************************************************)
LEMMA SourcesSame ==
  ASSUME NEW w, NEW u, NEW o, SourcesOK(w, o), SamePulls(w, u)
  PROVE  Sourced(u, o, w.connected)
<1>1. /\ DOMAIN u = DOMAIN w /\ u.connected = w.connected /\ u.blobs = w.blobs
      /\ u.queued = w.queued /\ u.source = w.source /\ u.again = w.again
      /\ u.queries = w.queries
  BY DEF SamePulls, SameLoads, PullFields
<1>2. CountsOK(u, o)
  BY CountsSame DEF SamePulls, SourcesOK, SourcesTyped, Counted
<1>3. SourcesTyped(u, o)
  BY <1>1, <1>2 DEF SourcesOK, SourcesTyped
<1>4. QueriesOK(u, o) /\ ArmedOK(u)
  BY <1>1 DEF SourcesOK, QueriesOK, ArmedOK
<1>5. QueuesOK(u) /\ ReadsOK(u)
  BY <1>1 DEF SourcesOK, QueuesOK, ReadsOK, Fetches, Unasked
<1> QED BY <1>1, <1>3, <1>4, <1>5 DEF SourcesOK, Sourced

(***************************************************************************)
(* Where nobody is the source nothing is under way with a connected peer.  *)
(***************************************************************************)
LEMMA NothingWithoutSource ==
  ASSUME NEW w, NEW o, SourcesOK(w, o), NEW p \in w.connected, NEW g \in Groups,
         w.source[g] # p
  PROVE  p \in Peers /\ Unasked(w, p, g) /\ Unread(w, p, g) /\ Unqueued(w, p, g)
<1>1. p \in Peers
  BY DEF SourcesOK, SourcesTyped
<1>2. Unasked(w, p, g)
  BY <1>1 DEF SourcesOK, QueriesOK, ArmedOK, Unasked
<1>3. Unread(w, p, g)
  BY DEF SourcesOK, ReadsOK, Fetches, Unread
<1>4. Unqueued(w, p, g)
  BY <1>1 DEF SourcesOK, QueuesOK, Fetches, Unqueued
<1> QED BY <1>1, <1>2, <1>3, <1>4

-----------------------------------------------------------------------------
(***************************************************************************)
(* left lists the files of a queue that are not of g, each once: the i-th  *)
(* is the one at kept[i].                                                  *)
(***************************************************************************)
Leaves(files, g, left, kept) ==
  /\ \A i \in DOMAIN left :
       kept[i] \in DOMAIN files /\ left[i] = files[kept[i]] /\ left[i][1] # g
  /\ \A i, j \in DOMAIN left : kept[i] = kept[j] => i = j
  /\ \A k \in DOMAIN files : files[k][1] # g => \E i \in DOMAIN left : kept[i] = k

(***************************************************************************)
(* That is what dropping what is queued of a group does (drop_queued).     *)
(***************************************************************************)
LEMMA DropQueuedKeeps ==
  ASSUME NEW w, NEW o, CountsOK(w, o), NEW p \in Peers, NEW g
  PROVE  \E left, kept :
           /\ DropQueued(w, p, g) = [w EXCEPT !.queued[p] = left]
           /\ Leaves(w.queued[p], g, left, kept)
<1> DEFINE files == w.queued[p]
           I == {i \in DOMAIN files : files[i][1] # g}
           kept == InOrder(I)
           left == [i \in DOMAIN kept |-> files[kept[i]]]
<1>1. DropQueued(w, p, g) = [w EXCEPT !.queued[p] = left]
  BY DEF DropQueued
<1>2. IsFiniteSet(I) /\ I \in SUBSET Nat
  <2>1. PICK T : files \in Seq(T)
    BY DEF CountsOK, IsQueue
  <2>2. DOMAIN files = 1 .. Len(files) /\ Len(files) \in Nat
    BY <2>1
  <2>3. IsFiniteSet(1 .. Len(files)) /\ I \in SUBSET (1 .. Len(files))
    BY <2>2, FS_Interval
  <2>4. I \in SUBSET Nat
    BY <2>2
  <2> HIDE DEF I
  <2> QED BY <2>3, <2>4, FS_Subset
<1>3. /\ DOMAIN kept = 1 .. Cardinality(I)
      /\ \A i \in DOMAIN kept : kept[i] \in I
      /\ \A i, j \in DOMAIN kept : kept[i] = kept[j] => i = j
      /\ \A x \in I : \E i \in DOMAIN kept : kept[i] = x
  <2> HIDE DEF I
  <2> QED BY <1>2, InOrderLists
<1>4. DOMAIN left = DOMAIN kept /\ \A i \in DOMAIN left : left[i] = files[kept[i]]
  OBVIOUS
<1> HIDE DEF left, kept
<1>5. \A i \in DOMAIN left :
         /\ kept[i] \in DOMAIN files /\ left[i] = files[kept[i]] /\ left[i][1] # g
  <2> SUFFICES ASSUME NEW i \in DOMAIN left
               PROVE  kept[i] \in DOMAIN files /\ left[i] = files[kept[i]] /\ left[i][1] # g
    OBVIOUS
  <2>1. left[i] = files[kept[i]] /\ kept[i] \in I
    BY <1>3, <1>4
  <2> QED BY <2>1
<1>6. \A k \in DOMAIN files : files[k][1] # g => \E i \in DOMAIN left : kept[i] = k
  BY <1>3, <1>4
<1>7. \A i, j \in DOMAIN left : kept[i] = kept[j] => i = j
  BY <1>3, <1>4
<1>8. Leaves(files, g, left, kept)
  BY <1>5, <1>6, <1>7 DEF Leaves
<1> QED BY <1>1, <1>8

(***************************************************************************)
(* u is w but for what p is asked about g, what is queued of g at p, and   *)
(* whether p is the source of g.                                           *)
(***************************************************************************)
Beside(w, u, p, g) ==
  /\ DOMAIN u = DOMAIN w
  /\ \A f \in {"connected", "transfers", "blobs", "missing", "denied", "reads"} : u[f] = w[f]
  /\ \A h \in Groups \ {g} : u.source[h] = w.source[h]
  /\ \A x \in (Peers \X Groups) \ {<<p, g>>} : u.again[x] = w.again[x]
  /\ \A q : ~(q[1] = p /\ q[2] = g) => (q \in u.queries <=> q \in w.queries)
  /\ \A r \in Peers \ {p} : u.queued[r] = w.queued[r]
  /\ \A i \in DOMAIN u.queued[p] :
       \E j \in DOMAIN w.queued[p] : u.queued[p][i] = w.queued[p][j]

(***************************************************************************)
(* Giving a peer up as a source (spend_peer) drops its queue of the group  *)
(* and lets go of it.                                                      *)
(***************************************************************************)
LEMMA SpendPeerFields ==
  ASSUME NEW w, NEW o, SourcesTyped(w, o), NEW p \in Peers, NEW g \in Groups
  PROVE  LET u == SpendPeer(w, p, g) IN
         \E left, kept :
           /\ DOMAIN u = DOMAIN w
           /\ \A f \in {"connected", "transfers", "blobs", "missing", "denied", "reads",
                        "again", "queries"} : u[f] = w[f]
           /\ u.source = [w.source EXCEPT ![g] = IF w.source[g] = p THEN Nobody
                                                 ELSE w.source[g]]
           /\ u.queued = [w.queued EXCEPT ![p] = left]
           /\ Leaves(w.queued[p], g, left, kept)
<1> DEFINE a == DropQueued(w, p, g)
           b == LetGo(a, p, g)
           u == SpendPeer(w, p, g)
<1>1. CountsOK(w, o)
  BY DEF SourcesTyped
<1>2. PICK left, kept :
           /\ DropQueued(w, p, g) = [w EXCEPT !.queued[p] = left]
           /\ Leaves(w.queued[p], g, left, kept)
  BY <1>1, DropQueuedKeeps
<1>3. /\ DOMAIN a = DOMAIN w
      /\ \A f \in {"connected", "transfers", "blobs", "missing", "denied", "reads",
                   "again", "queries", "source"} : a[f] = w[f]
      /\ a.queued = [w.queued EXCEPT ![p] = left]
  BY <1>2 DEF SourcesTyped, CountsOK, Fields, PullFields
<1> HIDE DEF a
<1>4. Fields \union PullFields \subseteq DOMAIN w /\ w.source \in [Groups -> Peers \union {Nobody}]
  BY DEF SourcesTyped, CountsOK
<1>5. /\ DOMAIN b = DOMAIN w
      /\ \A f \in {"connected", "transfers", "blobs", "missing", "denied", "reads",
                   "again", "queries"} : b[f] = w[f]
      /\ b.queued = [w.queued EXCEPT ![p] = left]
      /\ b.source = [w.source EXCEPT ![g] = IF w.source[g] = p THEN Nobody
                                            ELSE w.source[g]]
  BY <1>3, <1>4 DEF LetGo, Fields, PullFields
<1>6. u = [b EXCEPT !.asked[<<p, g>>] = 0, !.spent = w.spent \union {<<p, g>>}]
  BY DEF SpendPeer, ReleaseSource, a, b
<1> HIDE DEF b
<1>7. /\ DOMAIN u = DOMAIN w
      /\ \A f \in {"connected", "transfers", "blobs", "missing", "denied", "reads",
                   "again", "queries", "source", "queued"} : u[f] = b[f]
  <2> PICK spent : spent = w.spent \union {<<p, g>>}
    OBVIOUS
  <2> QED BY <1>4, <1>5, <1>6 DEF Fields, PullFields
<1> HIDE DEF u
<1>8. /\ DOMAIN u = DOMAIN w
      /\ \A f \in {"connected", "transfers", "blobs", "missing", "denied", "reads",
                   "again", "queries"} : u[f] = w[f]
      /\ u.source = [w.source EXCEPT ![g] = IF w.source[g] = p THEN Nobody
                                            ELSE w.source[g]]
      /\ u.queued = [w.queued EXCEPT ![p] = left]
  BY <1>5, <1>7
<1> QED BY <1>2, <1>8 DEF u

(***************************************************************************)
(* Of a peer that is not asked about the group and sends nothing of it,    *)
(* that leaves the sources in order.                                       *)
(***************************************************************************)
LEMMA SpendPeerSources ==
  ASSUME NEW w, NEW o, SourcesOK(w, o), NEW p \in Peers, NEW g \in Groups,
         Unasked(w, p, g), Unread(w, p, g)
  PROVE  LET u == SpendPeer(w, p, g)
         IN  Sourced(u, o, w.connected) /\ Beside(w, u, p, g)
<1> DEFINE u == SpendPeer(w, p, g)
<1>1. SourcesTyped(w, o)
  BY DEF SourcesOK
<1>2. PICK left, kept :
           /\ DOMAIN u = DOMAIN w
           /\ \A f \in {"connected", "transfers", "blobs", "missing", "denied", "reads",
                        "again", "queries"} : u[f] = w[f]
           /\ u.source = [w.source EXCEPT ![g] = IF w.source[g] = p THEN Nobody
                                                 ELSE w.source[g]]
           /\ u.queued = [w.queued EXCEPT ![p] = left]
           /\ Leaves(w.queued[p], g, left, kept)
  BY <1>1, SpendPeerFields
<1>3. CountsOK(u, o)
  BY <1>1, SpendPeerCounts DEF SourcesTyped, Counted
<1> HIDE DEF u
<1>4. /\ u.connected = w.connected /\ u.blobs = w.blobs /\ u.again = w.again
      /\ u.queries = w.queries /\ u.source \in [Groups -> Peers \union {Nobody}]
      /\ \A h \in Groups : u.source[h] = IF h = g /\ w.source[g] = p THEN Nobody
                                         ELSE w.source[h]
  BY <1>1, <1>2 DEF SourcesTyped
<1>5. /\ \A r \in Peers \ {p} : u.queued[r] = w.queued[r]
      /\ u.queued[p] = left
  BY <1>1, <1>2 DEF SourcesTyped, CountsOK
<1>6. SourcesTyped(u, o)
  BY <1>1, <1>2, <1>3, <1>4 DEF SourcesTyped
<1>7. ASSUME NEW r, NEW h, Fetches(w, r, h), ~(r = p /\ h = g) PROVE Fetches(u, r, h)
  BY <1>4, <1>7 DEF Fetches, Unasked
<1>8. QueriesOK(u, o) /\ ArmedOK(u)
  BY <1>4 DEF SourcesOK, QueriesOK, ArmedOK, Unasked
<1>9. QueuesOK(u)
  <2> SUFFICES ASSUME NEW r \in Peers, NEW i \in DOMAIN u.queued[r]
               PROVE  Fetches(u, r, u.queued[r][i][1])
    BY DEF QueuesOK
  <2>1. CASE r = p
    <3>1. /\ kept[i] \in DOMAIN w.queued[p] /\ left[i] = w.queued[p][kept[i]]
          /\ left[i][1] # g
      BY <1>2, <1>5, <2>1 DEF Leaves
    <3>2. Fetches(w, p, left[i][1])
      BY <3>1 DEF SourcesOK, QueuesOK
    <3> QED BY <1>5, <1>7, <2>1, <3>1, <3>2
  <2>2. CASE r # p
    <3>1. Fetches(w, r, w.queued[r][i][1])
      BY <1>5, <2>2 DEF SourcesOK, QueuesOK
    <3> QED BY <1>5, <1>7, <2>2, <3>1
  <2> QED BY <2>1, <2>2
<1>10. ReadsOK(u)
  BY <1>4, <1>7 DEF SourcesOK, ReadsOK, Unread
<1>11. Beside(w, u, p, g)
  <2>1. \A i \in DOMAIN u.queued[p] :
          \E j \in DOMAIN w.queued[p] : u.queued[p][i] = w.queued[p][j]
    BY <1>2, <1>5 DEF Leaves
  <2> QED BY <1>2, <1>4, <1>5, <2>1 DEF Beside
<1> QED BY <1>4, <1>6, <1>8, <1>9, <1>10, <1>11 DEF SourcesOK, Sourced, u

(***************************************************************************)
(* A question put is one more, whatever its number.                        *)
(***************************************************************************)
LEMMA AppendTriple ==
  ASSUME NEW p, NEW g, NEW paths, NEW n
  PROVE  LET a == Append(<<p, g, paths>>, n)
         IN  a[1] = p /\ a[2] = g /\ a[3] = paths /\ a[4] = n
<1>1. <<p, g, paths>> \in Seq({p, g, paths, n}) /\ Len(<<p, g, paths>>) = 3
  OBVIOUS
<1> QED BY <1>1

(***************************************************************************)
(* So of the questions under way there is one more.                        *)
(***************************************************************************)
LEMMA QueryPut ==
  ASSUME NEW S, NEW p, NEW g, NEW paths
  PROVE  \E q : /\ OneMore(S, <<p, g, paths>>) = S \union {q}
                /\ q[1] = p /\ q[2] = g /\ q[3] = paths
<1> DEFINE id == CHOOSE n \in 1 .. Cardinality(S) + 1 :
                   /\ Append(<<p, g, paths>>, n) \notin S
                   /\ \A m \in 1 .. n - 1 : Append(<<p, g, paths>>, m) \in S
<1>1. OneMore(S, <<p, g, paths>>) = S \union {Append(<<p, g, paths>>, id)}
  BY DEF OneMore
<1> HIDE DEF id
<1>2. PICK q : q = Append(<<p, g, paths>>, id)
  OBVIOUS
<1>3. q[1] = p /\ q[2] = g /\ q[3] = paths
  BY <1>2, AppendTriple
<1> QED BY <1>1, <1>2, <1>3

(***************************************************************************)
(* Asking a peer what it holds of the group it is the source of, while     *)
(* nothing of the group is under way with it, leaves the sources in order  *)
(* (ask_holdings).                                                         *)
(***************************************************************************)
LEMMA AskHoldingsSources ==
  ASSUME NEW w, NEW o, SourcesOK(w, o), NEW p \in w.connected, NEW g \in Groups,
         w.source[g] = p, Unasked(w, p, g), Unread(w, p, g), Unqueued(w, p, g)
  PROVE  LET u == AskHoldings(w, p, g)
         IN  Sourced(u, o, w.connected) /\ Beside(w, u, p, g)
<1> DEFINE u == AskHoldings(w, p, g)
<1>1. SourcesTyped(w, o) /\ p \in Peers
  BY DEF SourcesOK, SourcesTyped
<1>2. \/ u = SpendPeer(w, p, g)
      \/ \E last, paths : u = [w EXCEPT !.asked[<<p, g>>] = last,
                                        !.queries = OneMore(w.queries, <<p, g, paths>>)]
  BY DEF AskHoldings
<1>3. CASE u = SpendPeer(w, p, g)
  BY <1>1, <1>3, SpendPeerSources
<1>4. CASE \E last, paths :
             u = [w EXCEPT !.asked[<<p, g>>] = last,
                           !.queries = OneMore(w.queries, <<p, g, paths>>)]
  <2>1. PICK last, paths :
          u = [w EXCEPT !.asked[<<p, g>>] = last,
                        !.queries = OneMore(w.queries, <<p, g, paths>>)]
    BY <1>4
  <2>2. PICK q : /\ OneMore(w.queries, <<p, g, paths>>) = w.queries \union {q}
                 /\ q[1] = p /\ q[2] = g /\ q[3] = paths
    BY QueryPut
  <2>3. /\ DOMAIN u = DOMAIN w
        /\ \A f \in {"connected", "transfers", "blobs", "missing", "denied", "reads",
                     "again", "source", "queued"} : u[f] = w[f]
        /\ u.queries = w.queries \union {q}
    <3> HIDE DEF u
    <3> QED BY <1>1, <2>1, <2>2 DEF SourcesTyped, CountsOK, Fields, PullFields
  <2> HIDE DEF u
  <2>4. SameLoads(w, u)
    BY <2>3 DEF SameLoads
  <2>5. CountsOK(u, o)
    BY <1>1, <2>4, CountsSame DEF SourcesTyped, Counted
  <2>6. SourcesTyped(u, o)
    BY <1>1, <2>3, <2>5 DEF SourcesTyped
  <2>7. p \notin o
    BY <1>1 DEF SourcesTyped, CountsOK
  <2>8. QueriesOK(u, o)
    <3> SUFFICES ASSUME NEW x \in u.queries
                 PROVE  /\ x[1] \in Peers \ o /\ x[2] \in Groups
                        /\ x[1] \in w.connected =>
                             /\ w.source[x[2]] = x[1] /\ ~w.again[<<x[1], x[2]>>].armed
                             /\ \A r \in u.queries : r[1] = x[1] /\ r[2] = x[2] => r = x
      BY <2>3 DEF QueriesOK
    <3>1. CASE x = q
      BY <1>1, <2>2, <2>3, <2>7, <3>1 DEF Unasked
    <3>2. CASE x \in w.queries
      BY <2>2, <2>3, <3>2 DEF SourcesOK, QueriesOK, Unasked
    <3> QED BY <2>3, <3>1, <3>2
  <2>9. ArmedOK(u)
    BY <2>3 DEF SourcesOK, ArmedOK
  <2>10. ASSUME NEW r, NEW h, Fetches(w, r, h), ~(r = p /\ h = g) PROVE Fetches(u, r, h)
    BY <2>2, <2>3, <2>10 DEF Fetches, Unasked
  <2>11. QueuesOK(u)
    BY <2>3, <2>10 DEF SourcesOK, QueuesOK, Unqueued
  <2>12. ReadsOK(u)
    BY <2>3, <2>10 DEF SourcesOK, ReadsOK, Unread
  <2>13. Beside(w, u, p, g)
    BY <2>2, <2>3 DEF Beside
  <2> QED BY <2>3, <2>6, <2>8, <2>9, <2>11, <2>12, <2>13 DEF SourcesOK, Sourced, u
<1> QED BY <1>2, <1>3, <1>4

(***************************************************************************)
(* Two changes in a row on the same side leave the rest alone.             *)
(***************************************************************************)
LEMMA BesideTransitive ==
  ASSUME NEW w, NEW a, NEW u, NEW p, NEW g, Beside(w, a, p, g), Beside(a, u, p, g)
  PROVE  Beside(w, u, p, g)
<1>1. \A i \in DOMAIN u.queued[p] :
        \E j \in DOMAIN w.queued[p] : u.queued[p][i] = w.queued[p][j]
  <2> TAKE i \in DOMAIN u.queued[p]
  <2>1. PICK k \in DOMAIN a.queued[p] : u.queued[p][i] = a.queued[p][k]
    BY DEF Beside
  <2>2. PICK j \in DOMAIN w.queued[p] : a.queued[p][k] = w.queued[p][j]
    BY DEF Beside
  <2> QED BY <2>1, <2>2
<1> QED BY <1>1 DEF Beside

(***************************************************************************)
(* Claiming a group nobody is the source of (open_pull) leaves the sources *)
(* in order.                                                               *)
(***************************************************************************)
LEMMA ClaimSources ==
  ASSUME NEW w, NEW o, SourcesOK(w, o), NEW p \in w.connected, NEW g \in Groups,
         w.source[g] = Nobody
  PROVE  LET a == [w EXCEPT !.source[g] = p]
         IN  /\ Sourced(a, o, w.connected) /\ Beside(w, a, p, g) /\ a.source[g] = p
             /\ Unasked(a, p, g) /\ Unread(a, p, g) /\ Unqueued(a, p, g)
<1> DEFINE a == [w EXCEPT !.source[g] = p]
<1>1. SourcesTyped(w, o) /\ p \in Peers /\ w.source[g] # p
  BY NobodyElse DEF SourcesOK, SourcesTyped
<1>2. /\ DOMAIN a = DOMAIN w
      /\ \A f \in {"connected", "transfers", "blobs", "missing", "denied", "reads",
                   "again", "queries", "queued"} : a[f] = w[f]
      /\ a.source = [w.source EXCEPT ![g] = p]
  BY <1>1 DEF SourcesTyped, CountsOK, Fields, PullFields
<1> HIDE DEF a
<1>3. /\ a.source \in [Groups -> Peers \union {Nobody}]
      /\ \A h \in Groups : a.source[h] = IF h = g THEN p ELSE w.source[h]
  BY <1>1, <1>2 DEF SourcesTyped
<1>4. SameLoads(w, a)
  BY <1>2 DEF SameLoads
<1>5. CountsOK(a, o)
  BY <1>1, <1>4, CountsSame DEF SourcesTyped, Counted
<1>6. SourcesTyped(a, o)
  BY <1>1, <1>2, <1>3, <1>5 DEF SourcesTyped
<1>7. QueriesOK(a, o) /\ ArmedOK(a)
  <2>1. QueriesOK(a, o)
    BY <1>2, <1>3, NobodyElse DEF SourcesOK, QueriesOK
  <2>2. ArmedOK(a)
    BY <1>2, <1>3, NobodyElse DEF SourcesOK, ArmedOK
  <2> QED BY <2>1, <2>2
<1>8. ASSUME NEW r \in Peers, NEW h, Fetches(w, r, h) PROVE Fetches(a, r, h)
  BY <1>2, <1>3, <1>8, NobodyElse DEF Fetches, Unasked
<1>9. QueuesOK(a)
  BY <1>2, <1>8 DEF SourcesOK, QueuesOK
<1>10. ReadsOK(a)
  BY <1>1, <1>2, <1>8 DEF SourcesOK, ReadsOK, SourcesTyped, CountsOK
<1>11. Beside(w, a, p, g)
  BY <1>2, <1>3 DEF Beside
<1>12. Unasked(a, p, g) /\ Unread(a, p, g) /\ Unqueued(a, p, g)
  <2>1. Unasked(w, p, g) /\ Unread(w, p, g) /\ Unqueued(w, p, g)
    BY <1>1, NothingWithoutSource
  <2> QED BY <1>2, <2>1 DEF Unasked, Unread, Unqueued
<1> QED BY <1>2, <1>3, <1>6, <1>7, <1>9, <1>10, <1>11, <1>12 DEF SourcesOK, Sourced, a

(***************************************************************************)
(* So does opening a pull from a connected peer (open_pull),               *)
(***************************************************************************)
LEMMA OpenPullSources ==
  ASSUME NEW w, NEW o, SourcesOK(w, o), NEW p \in w.connected, NEW g \in Groups
  PROVE  LET u == OpenPull(w, p, g)
         IN  Sourced(u, o, w.connected) /\ Beside(w, u, p, g)
<1> DEFINE a == [w EXCEPT !.source[g] = p]
           u == OpenPull(w, p, g)
<1>1. u = w \/ (w.source[g] = Nobody /\ u = AskHoldings(a, p, g))
  BY DEF OpenPull
<1>2. CASE u = w
  <2> HIDE DEF u
  <2>1. SourcesOK(u, o) /\ u.connected = w.connected
    BY <1>2
  <2>2. Beside(w, u, p, g)
    BY <1>2 DEF Beside
  <2> QED BY <2>1, <2>2 DEF Sourced, u
<1>3. CASE w.source[g] = Nobody /\ u = AskHoldings(a, p, g)
  <2>1. /\ Sourced(a, o, w.connected) /\ Beside(w, a, p, g) /\ a.source[g] = p
        /\ Unasked(a, p, g) /\ Unread(a, p, g) /\ Unqueued(a, p, g)
    BY <1>3, ClaimSources
  <2> HIDE DEF a
  <2>2. SourcesOK(a, o) /\ a.connected = w.connected /\ p \in a.connected
    BY <2>1 DEF Sourced
  <2>3. Sourced(u, o, a.connected) /\ Beside(a, u, p, g)
    <3>1. LET x == AskHoldings(a, p, g)
          IN  Sourced(x, o, a.connected) /\ Beside(a, x, p, g)
      BY <2>1, <2>2, AskHoldingsSources
    <3> QED BY <1>3, <3>1
  <2> HIDE DEF u
  <2>4. Beside(w, u, p, g)
    BY <2>1, <2>3, BesideTransitive
  <2> QED BY <2>2, <2>3, <2>4 DEF u
<1> QED BY <1>1, <1>2, <1>3

(***************************************************************************)
(* turning the page of a group (continue_pull) when nothing is queued at   *)
(* the peer or read from it, and no question about the group is open,      *)
(***************************************************************************)
LEMMA NextPageSources ==
  ASSUME NEW w, NEW o, SourcesOK(w, o), NEW p \in w.connected, NEW g \in Groups,
         w.source[g] = p => Unasked(w, p, g), Unread(w, p, g), Unqueued(w, p, g)
  PROVE  LET u == NextPage(w, p, g)
         IN  Sourced(u, o, w.connected) /\ Beside(w, u, p, g)
<1> DEFINE u == NextPage(w, p, g)
<1>1. u = w \/ (w.source[g] = p /\ u = AskHoldings(w, p, g)) \/ u = OpenPull(w, p, g)
  BY DEF NextPage
<1>2. CASE u = w
  BY <1>2 DEF Sourced, Beside
<1>3. CASE w.source[g] = p /\ u = AskHoldings(w, p, g)
  BY <1>3, AskHoldingsSources
<1>4. CASE u = OpenPull(w, p, g)
  BY <1>4, OpenPullSources
<1> QED BY <1>1, <1>2, <1>3, <1>4

(***************************************************************************)
(* and so for each group in turn: no group is visited twice.               *)
(***************************************************************************)
LEMMA NextPagesSources ==
  ASSUME NEW w, NEW o, SourcesOK(w, o), NEW p \in w.connected,
         DOMAIN w.queued[p] = {}, \A b \in w.blobs : b[1] # p,
         \A g \in Groups : w.source[g] = p /\ p \in MembersOf[g] => Unasked(w, p, g)
  PROVE  Sourced(NextPages(w, p, InOrder(Groups)), o, w.connected)
<1> DEFINE seq == InOrder(Groups)
           n == Cardinality(Groups)
<1>1. /\ n \in Nat /\ Len(seq) = n
      /\ \A i \in 1 .. n : seq[i] \in Groups
      /\ \A i, j \in 1 .. n : seq[i] = seq[j] => i = j
  <2>1. Groups \in SUBSET Nat /\ IsFiniteSet(Groups)
    BY SupervisorAssumption DEF SupervisorAssumption
  <2> QED BY <2>1, InOrderLists
<1> HIDE DEF seq, n
<1>2. PICK run : /\ run[0] = w
                 /\ \A i \in 1 .. Len(seq) : run[i] = NextPage(run[i - 1], p, seq[i])
                 /\ NextPages(w, p, seq) = run[Len(seq)]
  BY <1>1, NextPagesRun
<1> DEFINE Good(x, i) ==
             /\ Sourced(x, o, w.connected)
             /\ DOMAIN x.queued[p] = {} /\ \A b \in x.blobs : b[1] # p
             /\ \A j \in i + 1 .. n : x.source[seq[j]] = p /\ p \in MembersOf[seq[j]]
                                        => Unasked(x, p, seq[j])
           T == {i \in 0 .. n : Good(run[i], i)}
<1>3. 0 \in T
  <2>1. Good(w, 0)
    BY <1>1 DEF Sourced
  <2> HIDE DEF Good
  <2> QED BY <1>1, <1>2, <2>1
<1>4. ASSUME NEW i \in 1 .. n, i - 1 \in T PROVE i \in T
  <2> DEFINE x == run[i - 1]
             g == seq[i]
             y == NextPage(x, p, g)
  <2>1. Good(x, i - 1)
    BY <1>4
  <2>2. i \in (i - 1) + 1 .. n /\ g \in Groups /\ run[i] = y
    BY <1>1, <1>2
  <2>3. /\ SourcesOK(x, o) /\ x.connected = w.connected /\ p \in x.connected
        /\ Unread(x, p, g) /\ Unqueued(x, p, g)
        /\ x.source[g] = p /\ p \in MembersOf[g] => Unasked(x, p, g)
    BY <2>1, <2>2 DEF Sourced, Unread, Unqueued
  <2>4. Sourced(y, o, x.connected) /\ Beside(x, y, p, g)
    <3> HIDE DEF x, g
    <3>1. CASE p \in MembersOf[g]
      BY <2>2, <2>3, <3>1, NextPageSources
    <3>2. CASE p \notin MembersOf[g]
      <4>1. y = x
        BY <3>2 DEF NextPage
      <4> QED BY <2>3, <4>1 DEF Sourced, Beside
    <3> QED BY <3>1, <3>2
  <2> HIDE DEF y, x
  <2>5. DOMAIN y.queued[p] = {} /\ \A b \in y.blobs : b[1] # p
    BY <2>1, <2>4 DEF Beside
  <2>6. ASSUME NEW j \in i + 1 .. n, y.source[seq[j]] = p, p \in MembersOf[seq[j]]
        PROVE  Unasked(y, p, seq[j])
    <3>1. j \in 1 .. n /\ j # i /\ j \in (i - 1) + 1 .. n
      BY <1>1
    <3>2. seq[j] # g /\ seq[j] \in Groups
      BY <1>1, <3>1
    <3>3. x.source[seq[j]] = p
      BY <2>4, <2>6, <3>2 DEF Beside
    <3>4. Unasked(x, p, seq[j])
      BY <2>1, <2>6, <3>1, <3>3
    <3>5. p \in Peers
      BY <2>3 DEF SourcesOK, SourcesTyped
    <3> HIDE DEF g
    <3> QED BY <2>4, <3>2, <3>4, <3>5 DEF Beside, Unasked
  <2>7. Good(y, i)
    BY <2>3, <2>4, <2>5, <2>6
  <2> HIDE DEF Good
  <2> QED BY <2>2, <2>7
<1> HIDE DEF T, Good
<1>5. n \in T
  <2>1. 0 .. n \subseteq T
    BY <1>1, <1>3, <1>4, UpTo
  <2> QED BY <1>1, <2>1
<1>6. Good(run[n], n)
  BY <1>5 DEF T
<1>7. Sourced(run[n], o, w.connected)
  BY <1>6 DEF Good
<1> QED BY <1>1, <1>2, <1>7 DEF seq

(***************************************************************************)
(* a group that is given a source or a call to one (content_pulls),        *)
(***************************************************************************)
LEMMA PullForSources ==
  ASSUME NEW w, NEW o, SourcesOK(w, o), NEW g \in Groups
  PROVE  Sourced(PullFor(w, g), o, w.connected)
<1> DEFINE usable == {p \in MembersOf[g] : p \in w.connected /\ <<p, g>> \notin w.spent}
           ready == {p \in usable : <<p, g>> \in w.reconciled}
<1>0. SourcesTyped(w, o) /\ Fields \union PullFields \subseteq DOMAIN w
  BY DEF SourcesOK, SourcesTyped, CountsOK
<1>1. \/ PullFor(w, g) = w
      \/ w.source[g] = Nobody /\ PullFor(w, g) = ExhaustGroup(w, g)
      \/ ready # {} /\ PullFor(w, g) = OpenPull(w, InOrder(ready)[1], g)
      \/ \E p, turn : PullFor(w, g) = Dial([w EXCEPT !.turn[g] = turn], p)
  BY DEF PullFor
<1>2. CASE PullFor(w, g) = w
  BY <1>2 DEF Sourced
<1>3. CASE w.source[g] = Nobody /\ PullFor(w, g) = ExhaustGroup(w, g)
  <2>1. SamePulls(w, ExhaustGroup(w, g))
    <3>1. [w.source EXCEPT ![g] = Nobody] = w.source
      BY <1>0, <1>3 DEF SourcesTyped
    <3> QED BY <1>0, <3>1 DEF ExhaustGroup, SamePulls, SameLoads, Fields, PullFields
  <2> QED BY <1>3, <2>1, SourcesSame
<1>4. CASE ready # {} /\ PullFor(w, g) = OpenPull(w, InOrder(ready)[1], g)
  <2> DEFINE p == InOrder(ready)[1]
  <2>1. ready \in SUBSET Peers /\ ready \in SUBSET w.connected
    BY <1>0 DEF SourcesTyped
  <2>2. ready \in SUBSET Nat /\ IsFiniteSet(ready)
    BY <2>1, FS_Subset, SupervisorAssumption DEF SupervisorAssumption
  <2> HIDE DEF ready
  <2>3. Cardinality(ready) \in Nat /\ Cardinality(ready) # 0
    BY <1>4, <2>2, FS_CardinalityType, FS_EmptySet
  <2>4. 1 \in 1 .. Cardinality(ready)
    BY <2>3
  <2>5. p \in w.connected
    BY <2>1, <2>2, <2>4, InOrderLists
  <2> HIDE DEF p
  <2>6. LET u == OpenPull(w, p, g)
        IN  Sourced(u, o, w.connected) /\ Beside(w, u, p, g)
    BY <2>5, OpenPullSources
  <2>7. Sourced(OpenPull(w, p, g), o, w.connected)
    BY <2>6
  <2> QED BY <1>4, <2>7 DEF p
<1>5. CASE \E p, turn : PullFor(w, g) = Dial([w EXCEPT !.turn[g] = turn], p)
  <2>1. PICK p, turn : PullFor(w, g) = Dial([w EXCEPT !.turn[g] = turn], p)
    BY <1>5
  <2> DEFINE a == [w EXCEPT !.turn[g] = turn]
  <2>2. SamePulls(w, a) /\ Fields \union PullFields \subseteq DOMAIN a
    BY <1>0 DEF SamePulls, SameLoads, Fields, PullFields
  <2> HIDE DEF a
  <2>3. SamePulls(w, Dial(a, p))
    BY <2>2, DialPulls, PullsTransitive
  <2>4. Sourced(Dial(a, p), o, w.connected)
    BY <2>3, SourcesSame
  <2> QED BY <2>1, <2>4 DEF a
<1> QED BY <1>1, <1>2, <1>3, <1>4, <1>5

(***************************************************************************)
(* and all the groups in turn.                                             *)
(***************************************************************************)
LEMMA PullsSources ==
  ASSUME NEW w, NEW o, SourcesOK(w, o), NEW seq, Len(seq) \in Nat,
         \A i \in 1 .. Len(seq) : seq[i] \in Groups
  PROVE  Sourced(Pulls(w, seq), o, w.connected)
<1>1. PICK run : /\ run[0] = w
                 /\ \A i \in 1 .. Len(seq) : run[i] = PullFor(run[i - 1], seq[i])
                 /\ Pulls(w, seq) = run[Len(seq)]
  BY PullsRun
<1> DEFINE T == {i \in 0 .. Len(seq) : Sourced(run[i], o, w.connected)}
<1>2. 0 \in T
  BY <1>1 DEF Sourced
<1>3. ASSUME NEW i \in 1 .. Len(seq), i - 1 \in T PROVE i \in T
  <2>1. SourcesOK(run[i - 1], o) /\ run[i - 1].connected = w.connected
    BY <1>3 DEF Sourced
  <2>2. Sourced(run[i], o, run[i - 1].connected)
    BY <1>1, <2>1, PullForSources
  <2> QED BY <2>1, <2>2
<1> HIDE DEF T
<1>4. Len(seq) \in T
  <2>1. 0 .. Len(seq) \subseteq T
    BY <1>2, <1>3, UpTo
  <2> QED BY <2>1
<1> QED BY <1>1, <1>4 DEF T

-----------------------------------------------------------------------------
(***************************************************************************)
(* What leaves the connections, the transfers, the sources and the         *)
(* questions alone leaves the sources in order.                            *)
(***************************************************************************)
LEMMA SourcesLike ==
  ASSUME NEW w, NEW u, NEW o, SourcesOK(w, o), SameLoads(w, u),
         u.source = w.source, u.again = w.again, u.queries = w.queries
  PROVE  Sourced(u, o, w.connected)
<1>1. /\ DOMAIN u = DOMAIN w /\ u.connected = w.connected /\ u.blobs = w.blobs
      /\ u.queued = w.queued
  BY DEF SameLoads
<1>2. CountsOK(u, o)
  BY CountsSame DEF SourcesOK, SourcesTyped, Counted
<1>3. SourcesTyped(u, o)
  BY <1>1, <1>2 DEF SourcesOK, SourcesTyped
<1>4. QueriesOK(u, o) /\ ArmedOK(u)
  BY <1>1 DEF SourcesOK, QueriesOK, ArmedOK
<1>5. QueuesOK(u) /\ ReadsOK(u)
  BY <1>1 DEF SourcesOK, QueuesOK, ReadsOK, Fetches, Unasked
<1> QED BY <1>1, <1>3, <1>4, <1>5 DEF SourcesOK, Sourced

(***************************************************************************)
(* So do queues and reads that are only of files being fetched.            *)
(***************************************************************************)
LEMMA QueuesChanged ==
  ASSUME NEW w, NEW u, NEW o, SourcesOK(w, o), Counted(u, o, w.connected),
         DOMAIN u = DOMAIN w, u.source = w.source, u.again = w.again,
         u.queries = w.queries,
         \A p \in Peers : \A i \in DOMAIN u.queued[p] : Fetches(w, p, u.queued[p][i][1]),
         \A b \in u.blobs : b[1] \in w.connected => Fetches(w, b[1], b[2][1])
  PROVE  Sourced(u, o, w.connected)
<1>1. u.connected = w.connected /\ CountsOK(u, o)
  BY DEF Counted
<1>2. SourcesTyped(u, o)
  BY <1>1 DEF SourcesOK, SourcesTyped
<1>3. QueriesOK(u, o) /\ ArmedOK(u)
  BY <1>1 DEF SourcesOK, QueriesOK, ArmedOK
<1>4. QueuesOK(u) /\ ReadsOK(u)
  BY <1>1 DEF QueuesOK, ReadsOK, Fetches, Unasked
<1> QED BY <1>1, <1>2, <1>3, <1>4 DEF SourcesOK, Sourced

(***************************************************************************)
(* What is put at the end of a sequence comes after all the rest.          *)
(***************************************************************************)
LEMMA AppendElements ==
  ASSUME NEW s, IsQueue(s), NEW f
  PROVE  LET t == Append(s, f) IN
         /\ Len(s) \in Nat /\ DOMAIN s = 1 .. Len(s) /\ DOMAIN t = 1 .. Len(s) + 1
         /\ \A i \in 1 .. Len(s) : t[i] = s[i]
         /\ t[Len(s) + 1] = f
<1>1. PICK T : s \in Seq(T)
  BY DEF IsQueue
<1>2. s \in Seq(T \union {f}) /\ f \in T \union {f}
  BY <1>1
<1> QED BY <1>2

(***************************************************************************)
(* What follows another sequence comes after all of it.                    *)
(***************************************************************************)
LEMMA ConcatElements ==
  ASSUME NEW s, IsQueue(s), NEW t, IsQueue(t)
  PROVE  LET u == s \o t IN
         /\ Len(s) \in Nat /\ DOMAIN s = 1 .. Len(s)
         /\ Len(t) \in Nat /\ DOMAIN t = 1 .. Len(t)
         /\ DOMAIN u = 1 .. Len(s) + Len(t)
         /\ \A i \in 1 .. Len(s) : u[i] = s[i]
         /\ \A i \in 1 .. Len(t) : u[Len(s) + i] = t[i]
         /\ \A i \in DOMAIN u : i \in 1 .. Len(s) \/ (i - Len(s) \in 1 .. Len(t)
                                                      /\ u[i] = t[i - Len(s)])
<1>1. PICK T : s \in Seq(T)
  BY DEF IsQueue
<1>2. PICK U : t \in Seq(U)
  BY DEF IsQueue
<1>3. s \in Seq(T \union U) /\ t \in Seq(T \union U)
  BY <1>1, <1>2
<1> QED BY <1>3

(***************************************************************************)
(* Halfway through a queue, after its first i files: those that are left   *)
(* and those being read now are among them, each once.  As long as no file *)
(* is passed over, and no transfer runs with the peer, all of them are     *)
(* left.                                                                   *)
(***************************************************************************)
OnceRead(S, p) ==
  \A b, c \in S : b[1] = p /\ c[1] = p /\ b[2] = c[2] => b = c

OnceQueued(w, p) ==
  /\ \A i, j \in DOMAIN w.queued[p] : w.queued[p][i] = w.queued[p][j] => i = j
  /\ \A b \in w.blobs : b[1] = p => \A i \in DOMAIN w.queued[p] : w.queued[p][i] # b[2]
  /\ OnceRead(w.blobs, p)

Obtainable(w, p, f) == f \in w.missing /\ <<p, f>> \notin w.denied

Taken(x, w, p, i) ==
  /\ \A f \in {"source", "again", "queries", "missing", "denied", "reads"} : x.v[f] = w[f]
  /\ x.v.transfers[p] >= w.transfers[p]
  /\ \A j \in DOMAIN x.rest : \E k \in 1 .. i : x.rest[j] = w.queued[p][k]
  /\ \A b \in x.v.blobs : b \in w.blobs \/ (b[1] = p /\ \E k \in 1 .. i : b[2] = w.queued[p][k])
  /\ ~x.full /\ RunningTransfers(x.v) < MaxTransfers => x.rest = <<>>

TakenOnce(x, w, p) ==
  /\ \A j, k \in DOMAIN x.rest : x.rest[j] = x.rest[k] => j = k
  /\ \A b \in x.v.blobs : b[1] = p => \A j \in DOMAIN x.rest : x.rest[j] # b[2]
  /\ OnceRead(x.v.blobs, p)

Kept(x, w, p, i) ==
  x.v.transfers[p] = 0 => \A k \in 1 .. i : \E j \in DOMAIN x.rest : x.rest[j] = w.queued[p][k]

(***************************************************************************)
(* One file more (pump, one step of its loop) is put off when there is no  *)
(* slot, passed over when it cannot be had, put off when the disk is full, *)
(* or read.                                                                *)
(***************************************************************************)
PumpsOne(x, y, p, f) ==
  \/ /\ x.full \/ RunningTransfers(x.v) >= MaxTransfers
     /\ y.v = x.v /\ y.full = x.full /\ y.rest = Append(x.rest, f)
  \/ /\ ~x.full /\ ~(RunningTransfers(x.v) >= MaxTransfers)
     /\ <<p, f>> \in x.v.denied \/ f \notin x.v.missing
     /\ y = x
  \/ /\ ~x.full /\ ~(RunningTransfers(x.v) >= MaxTransfers)
     /\ y.v = x.v /\ y.full = TRUE /\ y.rest = <<f>>
  \/ /\ ~x.full /\ ~(RunningTransfers(x.v) >= MaxTransfers)
     /\ y.rest = x.rest /\ y.full = x.full
     /\ y.v = [x.v EXCEPT !.space = x.v.space - 1,
                          !.transfers[p] = x.v.transfers[p] + 1,
                          !.blobs = OneMore(x.v.blobs, <<p, f>>)]

(***************************************************************************)
(* Each file is dealt with in one of these ways.                           *)
(***************************************************************************)
LEMMA PumpFileCases ==
  ASSUME NEW w, NEW o, NEW p \in Peers, NEW x, Pumping(x, w, p, o), NEW f
  PROVE  PumpsOne(x, PumpFile(x, p, f), p, f)
<1> DEFINE u == [x.v EXCEPT !.space = x.v.space - 1,
                            !.transfers[p] = x.v.transfers[p] + 1,
                            !.blobs = OneMore(x.v.blobs, <<p, f>>)]
           y == PumpFile(x, p, f)
           off == x.full \/ RunningTransfers(x.v) >= MaxTransfers
           passed == <<p, f>> \in x.v.denied \/ f \notin x.v.missing
<1>1. y = IF off THEN [x EXCEPT !.rest = Append(x.rest, f)]
          ELSE IF passed THEN x
          ELSE IF ~RoomFor(x.v) THEN [x EXCEPT !.rest = <<f>>, !.full = TRUE]
          ELSE [x EXCEPT !.v = u]
  BY DEF PumpFile
<1>2. {"v", "rest", "full"} \subseteq DOMAIN x
  BY DEF Pumping
<1>3. PICK z : z = u
  OBVIOUS
<1> HIDE DEF y, u
<1>4. CASE off
  BY <1>1, <1>2, <1>4 DEF y, PumpsOne
<1>5. CASE ~off /\ passed
  <2>1. y = x
    BY <1>1, <1>5
  <2> QED BY <1>5, <2>1 DEF y, PumpsOne
<1>6. CASE ~off /\ ~passed /\ ~RoomFor(x.v)
  <2>1. y.v = x.v /\ y.full = TRUE /\ y.rest = <<f>>
    <3> HIDE DEF off, passed
    <3> QED BY <1>1, <1>2, <1>6
  <2> QED BY <1>6, <2>1 DEF y, PumpsOne
<1>7. CASE ~off /\ ~passed /\ RoomFor(x.v)
  <2>1. y.v = u /\ y.full = x.full /\ y.rest = x.rest
    <3> HIDE DEF off, passed
    <3> QED BY <1>1, <1>2, <1>7
  <2> QED BY <1>7, <2>1 DEF y, u, PumpsOne
<1> HIDE DEF off, passed
<1> QED BY <1>4, <1>5, <1>6, <1>7

(***************************************************************************)
(* A read that begins is one more, whatever its number.                    *)
(***************************************************************************)
LEMMA BlobPut ==
  ASSUME NEW S, IsFiniteSet(S), NEW p, NEW f
  PROVE  \E b : OneMore(S, <<p, f>>) = S \union {b} /\ b[1] = p /\ b[2] = f
<1>1. \E n \in Nat : <<p, f, n>> \notin S /\ OneMore(S, <<p, f>>) = S \union {<<p, f, n>>}
  BY OneMoreAdds
<1>2. PICK b : OneMore(S, <<p, f>>) = S \union {b} /\ \E n \in Nat : b = <<p, f, n>>
  BY <1>1
<1>3. b[1] = p /\ b[2] = f
  BY <1>2
<1> QED BY <1>2, <1>3

(***************************************************************************)
(* One file more keeps what is said of a queue halfway through it.         *)
(***************************************************************************)
LEMMA PumpFileTakes ==
  ASSUME NEW w, NEW o, CountsOK(w, o), Fields \union PullFields \subseteq DOMAIN w,
         NEW p \in Peers, p \in w.connected,
         NEW x, Pumping(x, w, p, o), NEW i \in DOMAIN w.queued[p], Taken(x, w, p, i - 1)
  PROVE  LET y == PumpFile(x, p, w.queued[p][i])
         IN  /\ Pumping(y, w, p, o) /\ Taken(y, w, p, i)
             /\ OnceQueued(w, p) /\ TakenOnce(x, w, p) => TakenOnce(y, w, p)
             /\ /\ \A k \in DOMAIN w.queued[p] : Obtainable(w, p, w.queued[p][k])
                /\ Kept(x, w, p, i - 1)
                => Kept(y, w, p, i)
<1> DEFINE files == w.queued[p]
           f == files[i]
           y == PumpFile(x, p, f)
           s == x.v
<1>1. Pumping(y, w, p, o)
  BY PumpFilePumps
<1>2. /\ i \in Nat /\ i >= 1 /\ i - 1 \in Nat /\ DOMAIN files = 1 .. Len(files)
      /\ Len(files) \in Nat /\ i <= Len(files)
  <2>1. PICK T : files \in Seq(T)
    BY DEF CountsOK, IsQueue
  <2>2. DOMAIN files = 1 .. Len(files) /\ Len(files) \in Nat
    BY <2>1
  <2>3. PICK n \in Nat : n = Len(files)
    BY <2>2
  <2>4. i \in 1 .. n
    BY <2>2, <2>3
  <2> HIDE DEF files
  <2>5. i \in Nat /\ i >= 1 /\ i - 1 \in Nat /\ i <= n
    BY <2>4
  <2> QED BY <2>2, <2>3, <2>5
<1>3. /\ IsFiniteSet(s.blobs) /\ s.transfers \in [Peers -> Nat] /\ DOMAIN s = DOMAIN w
      /\ IsQueue(x.rest) /\ MaxTransfers \in Nat /\ RunningTransfers(s) \in Nat
  BY FS_CardinalityType, SupervisorAssumption
  DEF Pumping, Counted, CountsOK, SupervisorAssumption, RunningTransfers
<1>4. /\ \A k \in {"source", "again", "queries", "missing", "denied", "reads"} : s[k] = w[k]
      /\ s.transfers[p] >= w.transfers[p]
      /\ \A j \in DOMAIN x.rest : \E k \in 1 .. i - 1 : x.rest[j] = files[k]
      /\ \A b \in s.blobs : b \in w.blobs \/ (b[1] = p /\ \E k \in 1 .. i - 1 : b[2] = files[k])
      /\ ~x.full /\ RunningTransfers(s) < MaxTransfers => x.rest = <<>>
  BY DEF Taken
<1>5. w.transfers[p] \in Nat /\ s.transfers[p] \in Nat
  BY <1>3 DEF CountsOK
<1>6. \A k \in 1 .. i - 1 : k \in 1 .. i /\ k \in DOMAIN files /\ k # i
  <2> HIDE DEF files
  <2> QED BY <1>2
<1>7. i \in 1 .. i
  BY <1>2
<1>8. \/ /\ x.full \/ RunningTransfers(s) >= MaxTransfers
         /\ y.v = s /\ y.full = x.full /\ y.rest = Append(x.rest, f)
      \/ /\ ~x.full /\ ~(RunningTransfers(s) >= MaxTransfers)
         /\ <<p, f>> \in s.denied \/ f \notin s.missing
         /\ y = x
      \/ /\ ~x.full /\ ~(RunningTransfers(s) >= MaxTransfers)
         /\ y.v = s /\ y.full = TRUE /\ y.rest = <<f>>
      \/ /\ ~x.full /\ ~(RunningTransfers(s) >= MaxTransfers)
         /\ y.rest = x.rest /\ y.full = x.full
         /\ y.v = [s EXCEPT !.space = s.space - 1,
                            !.transfers[p] = s.transfers[p] + 1,
                            !.blobs = OneMore(s.blobs, <<p, f>>)]
  <2>1. PumpsOne(x, y, p, f)
    BY PumpFileCases
  <2> HIDE DEF y, f, files
  <2> QED BY <2>1 DEF PumpsOne
<1> HIDE DEF y, s, f, files
<1> DEFINE Claim == /\ Taken(y, w, p, i)
                    /\ OnceQueued(w, p) /\ TakenOnce(x, w, p) => TakenOnce(y, w, p)
                    /\ /\ \A k \in DOMAIN files : Obtainable(w, p, files[k])
                       /\ Kept(x, w, p, i - 1)
                       => Kept(y, w, p, i)
<1>9. ASSUME x.full \/ RunningTransfers(s) >= MaxTransfers,
             y.v = s, y.full = x.full, y.rest = Append(x.rest, f)
      PROVE  Claim
  <2>1. /\ Len(x.rest) \in Nat /\ DOMAIN x.rest = 1 .. Len(x.rest)
        /\ DOMAIN y.rest = 1 .. Len(x.rest) + 1
        /\ \A j \in 1 .. Len(x.rest) : y.rest[j] = x.rest[j]
        /\ y.rest[Len(x.rest) + 1] = f
    <3>1. PICK r : r = x.rest
      OBVIOUS
    <3> QED BY <1>3, <1>9, <3>1, AppendElements
  <2>2. ASSUME NEW j \in DOMAIN y.rest
        PROVE  \/ j \in DOMAIN x.rest /\ y.rest[j] = x.rest[j]
               \/ j = Len(x.rest) + 1 /\ y.rest[j] = f
    BY <2>1
  <2>3. Taken(y, w, p, i)
    <3>1. \A j \in DOMAIN y.rest : \E k \in 1 .. i : y.rest[j] = files[k]
      BY <1>4, <1>6, <1>7, <2>2 DEF f
    <3>2. \A b \in s.blobs : b \in w.blobs \/ (b[1] = p /\ \E k \in 1 .. i : b[2] = files[k])
      BY <1>4, <1>6
    <3>3. ~(~y.full /\ RunningTransfers(y.v) < MaxTransfers)
      BY <1>3, <1>9
    <3> QED BY <1>4, <1>9, <3>1, <3>2, <3>3 DEF Taken, files
  <2>4. ASSUME OnceQueued(w, p), TakenOnce(x, w, p) PROVE TakenOnce(y, w, p)
    <3>1. \A j \in DOMAIN x.rest : x.rest[j] # f
      BY <1>4, <1>6, <2>4 DEF OnceQueued, f, files
    <3>2. \A j, k \in DOMAIN y.rest : y.rest[j] = y.rest[k] => j = k
      BY <2>2, <2>4, <3>1 DEF TakenOnce
    <3>3. \A b \in s.blobs : b[1] = p => b[2] # f
      BY <1>4, <1>6, <2>4 DEF OnceQueued, f, files
    <3>4. \A b \in s.blobs : b[1] = p => \A j \in DOMAIN y.rest : y.rest[j] # b[2]
      BY <2>2, <2>4, <3>3 DEF TakenOnce, s
    <3> QED BY <1>9, <2>4, <3>2, <3>4 DEF TakenOnce, s
  <2>5. ASSUME Kept(x, w, p, i - 1) PROVE Kept(y, w, p, i)
    <3>1. \A j \in DOMAIN x.rest : j \in DOMAIN y.rest /\ y.rest[j] = x.rest[j]
      BY <2>1
    <3>2. Len(x.rest) + 1 \in DOMAIN y.rest /\ y.rest[Len(x.rest) + 1] = files[i]
      BY <2>1 DEF f
    <3>3. \A k \in 1 .. i : k \in 1 .. i - 1 \/ k = i
      BY <1>2
    <3> QED BY <1>9, <2>5, <3>1, <3>2, <3>3 DEF Kept, s, files
  <2> QED BY <2>3, <2>4, <2>5
<1>10. ASSUME ~x.full, ~(RunningTransfers(s) >= MaxTransfers),
              <<p, f>> \in s.denied \/ f \notin s.missing, y = x
       PROVE  Claim
  <2>1. Taken(y, w, p, i)
    <3>1. \A j \in DOMAIN y.rest : \E k \in 1 .. i : y.rest[j] = files[k]
      BY <1>4, <1>6, <1>10
    <3>2. \A b \in s.blobs : b \in w.blobs \/ (b[1] = p /\ \E k \in 1 .. i : b[2] = files[k])
      BY <1>4, <1>6
    <3> QED BY <1>4, <1>10, <3>1, <3>2 DEF Taken, files, s
  <2>2. ~Obtainable(w, p, f)
    BY <1>4, <1>10 DEF Obtainable
  <2> QED BY <1>2, <1>10, <2>1, <2>2 DEF f, files
<1>11. ASSUME ~x.full, ~(RunningTransfers(s) >= MaxTransfers),
              y.v = s, y.full = TRUE, y.rest = <<f>>
       PROVE  Claim
  <2>1. \A j \in DOMAIN y.rest : j = 1 /\ y.rest[j] = f
    BY <1>11
  <2>2. 1 \in DOMAIN y.rest /\ y.rest[1] = f
    BY <1>11
  <2>3. x.rest = <<>>
    BY <1>3, <1>4, <1>11
  <2>4. Taken(y, w, p, i)
    <3>1. \A j \in DOMAIN y.rest : \E k \in 1 .. i : y.rest[j] = files[k]
      BY <1>7, <2>1 DEF f
    <3>2. \A b \in s.blobs : b \in w.blobs \/ (b[1] = p /\ \E k \in 1 .. i : b[2] = files[k])
      BY <1>4, <1>6
    <3> QED BY <1>4, <1>11, <3>1, <3>2 DEF Taken, files
  <2>5. ASSUME OnceQueued(w, p), TakenOnce(x, w, p) PROVE TakenOnce(y, w, p)
    <3>1. \A b \in s.blobs : b[1] = p => b[2] # f
      BY <1>4, <1>6, <2>5 DEF OnceQueued, f, files
    <3> QED BY <1>11, <2>1, <2>5, <3>1 DEF TakenOnce, s
  <2>6. ASSUME Kept(x, w, p, i - 1) PROVE Kept(y, w, p, i)
    <3>1. SUFFICES ASSUME s.transfers[p] = 0, NEW k \in 1 .. i PROVE k = i
      BY <1>11, <2>2 DEF Kept, f, files
    <3>2. SUFFICES ASSUME k \in 1 .. i - 1 PROVE FALSE
      BY <1>2
    <3>3. PICK j \in DOMAIN x.rest : TRUE
      BY <2>6, <3>1, <3>2 DEF Kept, s
    <3>4. DOMAIN <<>> = {}
      OBVIOUS
    <3> QED BY <2>3, <3>3, <3>4
  <2> QED BY <2>4, <2>5, <2>6
<1>12. ASSUME ~x.full, ~(RunningTransfers(s) >= MaxTransfers),
              y.rest = x.rest, y.full = x.full,
              y.v = [s EXCEPT !.space = s.space - 1,
                              !.transfers[p] = s.transfers[p] + 1,
                              !.blobs = OneMore(s.blobs, <<p, f>>)]
       PROVE  Claim
  <2>1. PICK e : OneMore(s.blobs, <<p, f>>) = s.blobs \union {e} /\ e[1] = p /\ e[2] = f
    <3>1. PICK S : S = s.blobs
      OBVIOUS
    <3> QED BY <1>3, <3>1, BlobPut
  <2>2. /\ \A k \in {"source", "again", "queries", "missing", "denied", "reads"} : y.v[k] = s[k]
        /\ y.v.transfers = [s.transfers EXCEPT ![p] = s.transfers[p] + 1]
        /\ y.v.blobs = s.blobs \union {e}
    BY <1>3, <1>12, <2>1 DEF Fields, PullFields
  <2>3. y.v.transfers[p] = s.transfers[p] + 1
    BY <1>3, <2>2
  <2>4. x.rest = <<>>
    BY <1>3, <1>4, <1>12
  <2>5. Taken(y, w, p, i)
    <3>1. \A j \in DOMAIN y.rest : \E k \in 1 .. i : y.rest[j] = files[k]
      BY <1>4, <1>6, <1>12
    <3>2. \A b \in y.v.blobs : b \in w.blobs \/ (b[1] = p /\ \E k \in 1 .. i : b[2] = files[k])
      BY <1>4, <1>6, <1>7, <2>1, <2>2 DEF f
    <3>3. y.v.transfers[p] >= w.transfers[p]
      BY <1>4, <1>5, <2>3
    <3> QED BY <1>4, <1>12, <2>2, <2>4, <3>1, <3>2, <3>3 DEF Taken, files
  <2>6. ASSUME OnceQueued(w, p), TakenOnce(x, w, p) PROVE TakenOnce(y, w, p)
    <3>1. \A b \in s.blobs : b[1] = p => b[2] # f
      BY <1>4, <1>6, <2>6 DEF OnceQueued, f, files
    <3>2. DOMAIN y.rest = {}
      BY <1>12, <2>4
    <3>3. OnceRead(y.v.blobs, p)
      BY <2>1, <2>2, <2>6, <3>1 DEF OnceRead, TakenOnce, s
    <3> QED BY <3>2, <3>3 DEF TakenOnce
  <2>7. Kept(y, w, p, i)
    BY <1>5, <2>3 DEF Kept
  <2> QED BY <2>5, <2>6, <2>7
<1>13. Claim
  <2> HIDE DEF Claim
  <2> QED BY <1>8, <1>9, <1>10, <1>11, <1>12
<1> QED BY <1>1, <1>13 DEF y, f, files

(***************************************************************************)
(* u is w but for the transfers that were started with p out of its queue: *)
(* no file comes into the queue or is read that was not queued, each once; *)
(* and all are still queued if none can be passed over and no transfer     *)
(* runs with p.                                                            *)
(***************************************************************************)
Pumped(w, u, p) ==
  /\ DOMAIN u = DOMAIN w
  /\ \A f \in {"connected", "source", "again", "queries", "missing", "denied", "reads"} : u[f] = w[f]
  /\ \A r \in Peers \ {p} : u.queued[r] = w.queued[r] /\ u.transfers[r] = w.transfers[r]
  /\ u.transfers[p] >= w.transfers[p]
  /\ \A j \in DOMAIN u.queued[p] : \E k \in DOMAIN w.queued[p] : u.queued[p][j] = w.queued[p][k]
  /\ \A b \in u.blobs :
       b \in w.blobs \/ (b[1] = p /\ \E k \in DOMAIN w.queued[p] : b[2] = w.queued[p][k])
  /\ OnceQueued(w, p) => OnceQueued(u, p)
  /\ /\ \A k \in DOMAIN w.queued[p] : Obtainable(w, p, w.queued[p][k])
     /\ u.transfers[p] = 0
     => \A k \in DOMAIN w.queued[p] : \E j \in DOMAIN u.queued[p] :
          u.queued[p][j] = w.queued[p][k]

(***************************************************************************)
(* That is what starting what is queued comes to (pump).                   *)
(***************************************************************************)
LEMMA PumpTakes ==
  ASSUME NEW w, NEW o, CountsOK(w, o), Fields \union PullFields \subseteq DOMAIN w,
         NEW p \in Peers, p \in w.connected
  PROVE  Pumped(w, Pump(w, p), p)
<1> DEFINE files == w.queued[p]
           done == PumpFiles(w, p, files)
           u == Pump(w, p)
<1>1. Len(files) \in Nat /\ DOMAIN files = 1 .. Len(files)
  <2>1. PICK T : files \in Seq(T)
    BY DEF CountsOK, IsQueue
  <2> QED BY <2>1
<1>2. PICK run : /\ run[0] = [v |-> w, rest |-> <<>>, full |-> FALSE]
                 /\ \A i \in 1 .. Len(files) : run[i] = PumpFile(run[i - 1], p, files[i])
                 /\ done = run[Len(files)]
  <2> HIDE DEF files, done
  <2>1. done = PumpFiles(w, p, files)
    BY DEF done
  <2> QED BY <1>1, <2>1, PumpFilesRun
<1>3. u = [w EXCEPT !.queued[p] = done.rest, !.space = done.v.space,
                    !.transfers[p] = done.v.transfers[p], !.blobs = done.v.blobs]
  BY DEF Pump
<1> HIDE DEF done, u
<1> DEFINE all == \A k \in DOMAIN files : Obtainable(w, p, files[k])
           Good(x, i) == /\ Pumping(x, w, p, o) /\ Taken(x, w, p, i)
                         /\ OnceQueued(w, p) => TakenOnce(x, w, p)
                         /\ all => Kept(x, w, p, i)
           T == {i \in 0 .. Len(files) : Good(run[i], i)}
<1>4. 0 \in T
  <2> DEFINE x == [v |-> w, rest |-> <<>>, full |-> FALSE]
  <2>0. /\ {"v", "rest", "full"} \subseteq DOMAIN x /\ x.v = w /\ x.rest = <<>>
        /\ DOMAIN x.rest = {}
    OBVIOUS
  <2> HIDE DEF x
  <2>1. Pumping(x, w, p, o)
    <3>1. Counted(w, o, w.connected)
      BY DEF Counted
    <3> QED BY <2>0, <3>1, QueueEmpty DEF Pumping
  <2>2. Taken(x, w, p, 0)
    <3>1. w.transfers[p] \in Nat
      BY DEF CountsOK
    <3> QED BY <2>0, <3>1 DEF Taken
  <2>3. OnceQueued(w, p) => TakenOnce(x, w, p)
    BY <2>0 DEF OnceQueued, TakenOnce
  <2>4. Kept(x, w, p, 0)
    BY DEF Kept
  <2>5. Good(x, 0)
    BY <2>1, <2>2, <2>3, <2>4
  <2> HIDE DEF Good
  <2> QED BY <1>1, <1>2, <2>5 DEF x
<1>5. ASSUME NEW i \in 1 .. Len(files), i - 1 \in T PROVE i \in T
  <2>1. Good(run[i - 1], i - 1) /\ run[i] = PumpFile(run[i - 1], p, files[i])
    BY <1>2, <1>5
  <2>2. i \in DOMAIN files
    BY <1>1
  <2> DEFINE x == run[i - 1]
             y == PumpFile(x, p, w.queued[p][i])
  <2>3. /\ Pumping(y, w, p, o) /\ Taken(y, w, p, i)
        /\ OnceQueued(w, p) /\ TakenOnce(x, w, p) => TakenOnce(y, w, p)
        /\ /\ \A k \in DOMAIN w.queued[p] : Obtainable(w, p, w.queued[p][k])
           /\ Kept(x, w, p, i - 1)
           => Kept(y, w, p, i)
    <3>1. Pumping(x, w, p, o) /\ Taken(x, w, p, i - 1)
      BY <2>1
    <3> HIDE DEF x
    <3> QED BY <2>2, <3>1, PumpFileTakes
  <2>4. Good(y, i)
    <3> HIDE DEF y
    <3> QED BY <2>1, <2>3
  <2> HIDE DEF Good
  <2> QED BY <2>1, <2>4
<1> HIDE DEF T, Good
<1>6. Len(files) \in T
  <2> HIDE DEF files
  <2>1. 0 .. Len(files) \subseteq T
    BY <1>1, <1>4, <1>5, UpTo
  <2> QED BY <1>1, <2>1
<1>7. Good(done, Len(files))
  BY <1>2, <1>6 DEF T
<1>8. /\ Pumping(done, w, p, o) /\ Taken(done, w, p, Len(files))
      /\ OnceQueued(w, p) => TakenOnce(done, w, p)
      /\ all => Kept(done, w, p, Len(files))
  <2> HIDE DEF all
  <2> QED BY <1>7 DEF Good
<1>9. /\ DOMAIN u = DOMAIN w
      /\ \A f \in {"connected", "source", "again", "queries", "missing", "denied", "reads"} : u[f] = w[f]
      /\ u.queued = [w.queued EXCEPT ![p] = done.rest]
      /\ u.transfers = [w.transfers EXCEPT ![p] = done.v.transfers[p]]
      /\ u.blobs = done.v.blobs
  BY <1>3 DEF CountsOK, Fields, PullFields
<1>10. /\ u.queued[p] = done.rest /\ u.transfers[p] = done.v.transfers[p]
       /\ \A r \in Peers \ {p} : u.queued[r] = w.queued[r] /\ u.transfers[r] = w.transfers[r]
  <2>1. w.transfers \in [Peers -> Nat] /\ w.queued = [r \in Peers |-> w.queued[r]]
    BY DEF CountsOK
  <2> QED BY <1>9, <2>1
<1>11. u.transfers[p] >= w.transfers[p]
  BY <1>8, <1>10 DEF Taken
<1>12. \A j \in DOMAIN u.queued[p] : \E k \in DOMAIN files : u.queued[p][j] = files[k]
  BY <1>1, <1>8, <1>10 DEF Taken
<1>13. \A b \in u.blobs :
         b \in w.blobs \/ (b[1] = p /\ \E k \in DOMAIN files : b[2] = files[k])
  BY <1>1, <1>8, <1>9 DEF Taken
<1>14. OnceQueued(w, p) => OnceQueued(u, p)
  BY <1>8, <1>9, <1>10 DEF TakenOnce, OnceQueued
<1>15. all /\ u.transfers[p] = 0
         => \A k \in DOMAIN files : \E j \in DOMAIN u.queued[p] : u.queued[p][j] = files[k]
  <2> HIDE DEF all
  <2> QED BY <1>1, <1>8, <1>10 DEF Kept
<1>16. Pumped(w, u, p)
  BY <1>9, <1>10, <1>11, <1>12, <1>13, <1>14, <1>15 DEF Pumped
<1> QED BY <1>16 DEF u

(***************************************************************************)
(* Starting what is queued leaves the sources in order (pump),             *)
(***************************************************************************)
LEMMA PumpSources ==
  ASSUME NEW w, NEW o, SourcesOK(w, o), NEW p \in w.connected
  PROVE  Sourced(Pump(w, p), o, w.connected)
<1> DEFINE u == Pump(w, p)
<1>1. p \in Peers /\ CountsOK(w, o) /\ Fields \union PullFields \subseteq DOMAIN w
  BY DEF SourcesOK, SourcesTyped, CountsOK
<1>2. Pumped(w, u, p)
  BY <1>1, PumpTakes
<1>3. Counted(u, o, w.connected)
  BY <1>1, PumpCounts
<1> HIDE DEF u
<1>4. ASSUME NEW k \in DOMAIN w.queued[p] PROVE Fetches(w, p, w.queued[p][k][1])
  BY <1>1 DEF SourcesOK, QueuesOK
<1>5. ASSUME NEW r \in Peers, NEW i \in DOMAIN u.queued[r]
      PROVE  Fetches(w, r, u.queued[r][i][1])
  <2>1. CASE r = p
    BY <1>2, <1>4, <2>1 DEF Pumped
  <2>2. CASE r # p
    BY <1>2, <2>2 DEF Pumped, SourcesOK, QueuesOK
  <2> QED BY <2>1, <2>2
<1>6. ASSUME NEW b \in u.blobs, b[1] \in w.connected PROVE Fetches(w, b[1], b[2][1])
  <2>1. CASE b \in w.blobs
    BY <1>6, <2>1 DEF SourcesOK, ReadsOK
  <2>2. CASE b[1] = p /\ \E k \in DOMAIN w.queued[p] : b[2] = w.queued[p][k]
    BY <1>4, <2>2
  <2> QED BY <1>2, <2>1, <2>2 DEF Pumped
<1>7. Sourced(u, o, w.connected)
  BY <1>2, <1>3, <1>5, <1>6, QueuesChanged DEF Pumped
<1> QED BY <1>7 DEF u

(***************************************************************************)
(* and so does letting go of what a peer without transfers has queued      *)
(* (resolve_stalled),                                                      *)
(***************************************************************************)
Resolved(w, u, p) ==
  /\ DOMAIN u = DOMAIN w /\ w.transfers[p] = 0
  /\ ~(RunningTransfers(w) >= MaxTransfers)
  /\ \A f \in {"connected", "transfers", "blobs", "missing", "denied", "reads", "again",
               "queries"} : u[f] = w[f]
  /\ u.queued[p] = <<>> /\ \A r \in Peers \ {p} : u.queued[r] = w.queued[r]
  /\ u.source \in [Groups -> Peers \union {Nobody}]
  /\ \A g \in Groups :
       u.source[g] = IF ~Unqueued(w, p, g) /\ w.source[g] = p THEN Nobody ELSE w.source[g]

(***************************************************************************)
(* What letting go of such a peer's queue changes.                         *)
(***************************************************************************)
LEMMA ResolveFields ==
  ASSUME NEW w, NEW o, SourcesTyped(w, o), NEW p \in Peers, ResolveStalled(w, p) # w
  PROVE  Resolved(w, ResolveStalled(w, p), p)
<1> DEFINE stalled == {w.queued[p][i][1] : i \in DOMAIN w.queued[p]}
           u == ResolveStalled(w, p)
           source == [g \in Groups |-> IF g \in stalled /\ w.source[g] = p THEN Nobody
                                       ELSE w.source[g]]
<1>1. /\ ~(w.transfers[p] > 0) /\ ~(RunningTransfers(w) >= MaxTransfers)
      /\ u = [w EXCEPT !.queued[p] = <<>>, !.source = source]
  BY DEF ResolveStalled
<1>2. /\ Fields \union PullFields \subseteq DOMAIN w /\ w.transfers[p] \in Nat
      /\ w.source \in [Groups -> Peers \union {Nobody}]
      /\ w.queued = [r \in Peers |-> w.queued[r]]
  BY DEF SourcesTyped, CountsOK
<1>3. w.transfers[p] = 0
  BY <1>1, <1>2
<1>4. \A g : g \in stalled <=> ~Unqueued(w, p, g)
  BY DEF Unqueued
<1> HIDE DEF stalled
<1>5. /\ source \in [Groups -> Peers \union {Nobody}]
      /\ \A g \in Groups : source[g] = IF ~Unqueued(w, p, g) /\ w.source[g] = p THEN Nobody
                                       ELSE w.source[g]
  BY <1>2, <1>4
<1> HIDE DEF source, u
<1>6. /\ DOMAIN u = DOMAIN w /\ u.source = source
      /\ \A f \in {"connected", "transfers", "blobs", "missing", "denied", "reads", "again",
                   "queries"} : u[f] = w[f]
      /\ u.queued = [w.queued EXCEPT ![p] = <<>>]
  BY <1>1, <1>2 DEF Fields, PullFields
<1>7. u.queued[p] = <<>> /\ \A r \in Peers \ {p} : u.queued[r] = w.queued[r]
  BY <1>2, <1>6
<1> QED BY <1>1, <1>3, <1>5, <1>6, <1>7 DEF u, Resolved

(***************************************************************************)
(* since nothing is read from such a peer.                                 *)
(***************************************************************************)
LEMMA NothingReads ==
  ASSUME NEW w, NEW o, CountsOK(w, o), NEW p \in Peers, p \in w.connected,
         w.transfers[p] = 0
  PROVE  \A b \in w.blobs : b[1] # p
<1>1. IsFiniteSet(w.blobs) /\ Cardinality(Of(w.blobs, p)) = 0
  BY DEF CountsOK
<1>2. Of(w.blobs, p) \in SUBSET w.blobs
  BY DEF Of
<1>3. IsFiniteSet(Of(w.blobs, p))
  BY <1>1, <1>2, FS_Subset
<1>4. Of(w.blobs, p) = {}
  BY <1>1, <1>3, FS_EmptySet
<1> QED BY <1>4 DEF Of

(***************************************************************************)
(* So that leaves the sources in order;                                    *)
(***************************************************************************)
LEMMA ResolveSources ==
  ASSUME NEW w, NEW o, SourcesOK(w, o), NEW p \in Peers
  PROVE  Sourced(ResolveStalled(w, p), o, w.connected)
<1> DEFINE u == ResolveStalled(w, p)
<1>1. CASE u = w
  BY <1>1 DEF Sourced
<1>2. CASE u # w
  <2>0. SourcesTyped(w, o) /\ CountsOK(w, o)
    BY DEF SourcesOK, SourcesTyped
  <2>1. /\ DOMAIN u = DOMAIN w /\ w.transfers[p] = 0
        /\ \A f \in {"connected", "transfers", "blobs", "missing", "denied", "reads", "again",
                     "queries"} : u[f] = w[f]
        /\ u.queued[p] = <<>> /\ \A r \in Peers \ {p} : u.queued[r] = w.queued[r]
        /\ u.source \in [Groups -> Peers \union {Nobody}]
        /\ \A g \in Groups :
              u.source[g] = IF ~Unqueued(w, p, g) /\ w.source[g] = p THEN Nobody
                            ELSE w.source[g]
    <3>1. Resolved(w, u, p)
      BY <1>2, <2>0, ResolveFields
    <3> HIDE DEF u
    <3> QED BY <3>1 DEF Resolved
  <2>2. Counted(u, o, w.connected)
    BY <2>0, ResolveCounts
  <2> HIDE DEF u
  <2>3. SourcesTyped(u, o)
    BY <2>0, <2>1, <2>2 DEF SourcesTyped, Counted
  <2>4. ASSUME NEW g \in Groups, ~Unqueued(w, p, g) PROVE Unasked(w, p, g)
    BY <2>4 DEF SourcesOK, QueuesOK, Fetches, Unqueued
  <2>5. QueriesOK(u, o)
    <3> SUFFICES ASSUME NEW q \in w.queries
                 PROVE  /\ q[1] \in Peers \ o /\ q[2] \in Groups
                        /\ q[1] \in w.connected =>
                             /\ u.source[q[2]] = q[1] /\ ~w.again[<<q[1], q[2]>>].armed
                             /\ \A r \in w.queries : r[1] = q[1] /\ r[2] = q[2] => r = q
      BY <2>1 DEF QueriesOK
    <3>1. /\ q[1] \in Peers \ o /\ q[2] \in Groups
          /\ q[1] \in w.connected =>
               /\ w.source[q[2]] = q[1] /\ ~w.again[<<q[1], q[2]>>].armed
               /\ \A r \in w.queries : r[1] = q[1] /\ r[2] = q[2] => r = q
      BY DEF SourcesOK, QueriesOK
    <3>2. q[1] = p => Unqueued(w, p, q[2])
      BY <2>4, <3>1 DEF Unasked
    <3> QED BY <2>1, <3>1, <3>2
  <2>6. ArmedOK(u)
    BY <2>1, <2>4 DEF SourcesOK, ArmedOK, Unasked
  <2>7. QueuesOK(u)
    <3> SUFFICES ASSUME NEW r \in Peers, NEW i \in DOMAIN u.queued[r]
                 PROVE  Fetches(u, r, u.queued[r][i][1])
      BY DEF QueuesOK
    <3>1. r # p
      BY <2>1
    <3>2. Fetches(w, r, u.queued[r][i][1])
      BY <2>1, <3>1 DEF SourcesOK, QueuesOK
    <3> QED BY <2>1, <3>1, <3>2 DEF Fetches, Unasked
  <2>8. ReadsOK(u)
    <3> SUFFICES ASSUME NEW b \in w.blobs, b[1] \in w.connected
                 PROVE  Fetches(u, b[1], b[2][1])
      BY <2>1 DEF ReadsOK
    <3>1. Fetches(w, b[1], b[2][1])
      BY DEF SourcesOK, ReadsOK
    <3>2. b[1] # p
      BY <2>0, <2>1, NothingReads
    <3> QED BY <2>1, <3>1, <3>2 DEF Fetches, Unasked
  <2>9. Sourced(u, o, w.connected)
    BY <2>1, <2>3, <2>5, <2>6, <2>7, <2>8 DEF SourcesOK, Sourced
  <2> QED BY <2>9 DEF u
<1> QED BY <1>1, <1>2

(***************************************************************************)
(* so does doing both for one peer,                                        *)
(***************************************************************************)
LEMMA PumpQueueSources ==
  ASSUME NEW w, NEW o, SourcesOK(w, o), NEW p \in Peers
  PROVE  Sourced(PumpQueue(w, p), o, w.connected)
<1> DEFINE u == Pump(w, p)
<1>1. \/ PumpQueue(w, p) = w
      \/ w.queued[p] # <<>> /\ PumpQueue(w, p) = ResolveStalled(u, p)
  BY DEF PumpQueue
<1>2. CASE PumpQueue(w, p) = w
  BY <1>2 DEF Sourced
<1>3. CASE w.queued[p] # <<>> /\ PumpQueue(w, p) = ResolveStalled(u, p)
  <2>1. p \in w.connected
    BY <1>3 DEF SourcesOK, SourcesTyped, CountsOK
  <2>2. Sourced(u, o, w.connected)
    BY <2>1, PumpSources
  <2> HIDE DEF u
  <2>3. Sourced(ResolveStalled(u, p), o, u.connected) /\ u.connected = w.connected
    BY <2>2, ResolveSources DEF Sourced
  <2> QED BY <1>3, <2>3
<1> QED BY <1>1, <1>2, <1>3

(***************************************************************************)
(* for all peers in any order (pump_queues).                               *)
(***************************************************************************)
LEMMA PumpQueuesSources ==
  ASSUME NEW w, NEW o, SourcesOK(w, o), NEW seq, Len(seq) \in Nat,
         \A i \in 1 .. Len(seq) : seq[i] \in Peers
  PROVE  Sourced(PumpQueues(w, seq), o, w.connected)
<1>1. PICK run : /\ run[0] = w
                 /\ \A i \in 1 .. Len(seq) : run[i] = PumpQueue(run[i - 1], seq[i])
                 /\ PumpQueues(w, seq) = run[Len(seq)]
  BY PumpQueuesRun
<1> DEFINE T == {i \in 0 .. Len(seq) : Sourced(run[i], o, w.connected)}
<1>2. 0 \in T
  BY <1>1 DEF Sourced
<1>3. ASSUME NEW i \in 1 .. Len(seq), i - 1 \in T PROVE i \in T
  <2>1. SourcesOK(run[i - 1], o) /\ run[i - 1].connected = w.connected
    BY <1>3 DEF Sourced
  <2>2. Sourced(run[i], o, run[i - 1].connected)
    BY <1>1, <2>1, PumpQueueSources
  <2> QED BY <2>1, <2>2
<1> HIDE DEF T
<1>4. Len(seq) \in T
  <2>1. 0 .. Len(seq) \subseteq T
    BY <1>2, <1>3, UpTo
  <2> QED BY <2>1
<1> QED BY <1>1, <1>4 DEF T

-----------------------------------------------------------------------------
(***************************************************************************)
(* What is noted about a question to be put again may change: to nothing   *)
(* to be put, or, for the source of a group of which nothing is under way, *)
(* to something that is.                                                   *)
(***************************************************************************)
LEMMA AgainFields ==
  ASSUME NEW w, NEW o, SourcesTyped(w, o), NEW p \in Peers, NEW g \in Groups, NEW r \in Retry
  PROVE  LET u == [w EXCEPT !.again[<<p, g>>] = r] IN
         /\ DOMAIN u = DOMAIN w
         /\ \A f \in {"connected", "transfers", "blobs", "queued", "missing", "denied", "reads",
                      "source", "queries"} : u[f] = w[f]
         /\ u.again \in [Peers \X Groups -> Retry]
         /\ u.again[<<p, g>>] = r
         /\ \A x \in (Peers \X Groups) \ {<<p, g>>} : u.again[x] = w.again[x]
<1> DEFINE u == [w EXCEPT !.again[<<p, g>>] = r]
<1>1. /\ Fields \union PullFields \subseteq DOMAIN w
      /\ w.again \in [Peers \X Groups -> Retry]
  BY DEF SourcesTyped, CountsOK
<1>2. /\ DOMAIN u = DOMAIN w /\ u.again = [w.again EXCEPT ![<<p, g>>] = r]
      /\ \A f \in {"connected", "transfers", "blobs", "queued", "missing", "denied", "reads",
                   "source", "queries"} : u[f] = w[f]
  BY <1>1 DEF Fields, PullFields
<1> HIDE DEF u
<1>3. /\ u.again \in [Peers \X Groups -> Retry]
      /\ u.again[<<p, g>>] = r
      /\ \A x \in (Peers \X Groups) \ {<<p, g>>} : u.again[x] = w.again[x]
  BY <1>1, <1>2
<1> QED BY <1>2, <1>3 DEF u

(***************************************************************************)
(* Such a change leaves the sources in order.                              *)
(***************************************************************************)
LEMMA AgainSources ==
  ASSUME NEW w, NEW o, SourcesOK(w, o), NEW p \in Peers, NEW g \in Groups, NEW r \in Retry,
         r.armed => /\ p \in w.connected /\ w.source[g] = p
                    /\ Unread(w, p, g) /\ Unqueued(w, p, g)
                    /\ \A q \in w.queries : ~(q[1] = p /\ q[2] = g)
  PROVE  LET u == [w EXCEPT !.again[<<p, g>>] = r]
         IN  Sourced(u, o, w.connected) /\ Beside(w, u, p, g) /\ u.source = w.source
<1> DEFINE u == [w EXCEPT !.again[<<p, g>>] = r]
<1>1. SourcesTyped(w, o)
  BY DEF SourcesOK
<1>2. /\ DOMAIN u = DOMAIN w
      /\ \A f \in {"connected", "transfers", "blobs", "queued", "missing", "denied", "reads",
                   "source", "queries"} : u[f] = w[f]
      /\ u.again \in [Peers \X Groups -> Retry]
      /\ u.again[<<p, g>>] = r
      /\ \A x \in (Peers \X Groups) \ {<<p, g>>} : u.again[x] = w.again[x]
  BY <1>1, AgainFields
<1> HIDE DEF u
<1>3. Counted(u, o, w.connected)
  BY <1>1, <1>2, CountsSame DEF SourcesTyped, SameLoads
<1>4. SourcesTyped(u, o)
  BY <1>1, <1>2, <1>3 DEF SourcesTyped, Counted
<1>5. QueriesOK(u, o)
  <2> SUFFICES ASSUME NEW q \in w.queries
               PROVE  /\ q[1] \in Peers \ o /\ q[2] \in Groups
                      /\ q[1] \in w.connected =>
                           /\ w.source[q[2]] = q[1] /\ ~u.again[<<q[1], q[2]>>].armed
                           /\ \A y \in w.queries : y[1] = q[1] /\ y[2] = q[2] => y = q
    BY <1>2 DEF QueriesOK
  <2>1. /\ q[1] \in Peers \ o /\ q[2] \in Groups
        /\ q[1] \in w.connected =>
             /\ w.source[q[2]] = q[1] /\ ~w.again[<<q[1], q[2]>>].armed
             /\ \A y \in w.queries : y[1] = q[1] /\ y[2] = q[2] => y = q
    BY DEF SourcesOK, QueriesOK
  <2>2. PICK x : x = <<q[1], q[2]>>
    OBVIOUS
  <2>3. CASE x = <<p, g>>
    <3>1. q[1] = p /\ q[2] = g
      BY <2>2, <2>3
    <3> QED BY <1>2, <2>1, <2>2, <2>3, <3>1
  <2>4. CASE x # <<p, g>>
    BY <1>2, <2>1, <2>2, <2>4
  <2> QED BY <2>3, <2>4
<1>6. ArmedOK(u)
  BY <1>2 DEF SourcesOK, ArmedOK
<1>7. ASSUME NEW x \in Peers, NEW h, Fetches(w, x, h), r.armed => ~(x = p /\ h = g)
      PROVE  Fetches(u, x, h)
  BY <1>2, <1>7 DEF Fetches, Unasked
<1>8. QueuesOK(u)
  BY <1>2, <1>7 DEF SourcesOK, QueuesOK, Unqueued
<1>9. ReadsOK(u)
  BY <1>1, <1>2, <1>7 DEF SourcesOK, SourcesTyped, ReadsOK, Unread
<1>10. Beside(w, u, p, g)
  BY <1>2 DEF Beside
<1>11. Sourced(u, o, w.connected) /\ u.source = w.source
  BY <1>2, <1>4, <1>5, <1>6, <1>8, <1>9 DEF SourcesOK, Sourced
<1> QED BY <1>10, <1>11 DEF u

(***************************************************************************)
(* Nothing to be put again is not armed.                                   *)
(***************************************************************************)
LEMMA QuietRetry == Quiet \in Retry /\ ~Quiet.armed
  BY NewRetry

(***************************************************************************)
(* Queueing files of a group that may be fetched from the peer leaves the  *)
(* sources in order.                                                       *)
(***************************************************************************)
Longer(w, u, p, files) ==
  /\ DOMAIN u = DOMAIN w
  /\ \A f \in {"connected", "transfers", "blobs", "missing", "denied", "reads", "source", "again",
               "queries"} : u[f] = w[f]
  /\ u.queued = [w.queued EXCEPT ![p] = w.queued[p] \o files]
  /\ u.queued[p] = w.queued[p] \o files /\ \A r \in Peers \ {p} : u.queued[r] = w.queued[r]

(***************************************************************************)
(* So the sources stay in order.                                           *)
(***************************************************************************)
LEMMA QueueMore ==
  ASSUME NEW w, NEW o, SourcesOK(w, o), NEW p \in w.connected, NEW g, Fetches(w, p, g),
         NEW files, IsQueue(files), \A i \in DOMAIN files : files[i][1] = g
  PROVE  LET u == [w EXCEPT !.queued[p] = w.queued[p] \o files]
         IN  Sourced(u, o, w.connected) /\ Longer(w, u, p, files)
<1> DEFINE u == [w EXCEPT !.queued[p] = w.queued[p] \o files]
<1>1. SourcesTyped(w, o) /\ CountsOK(w, o) /\ p \in Peers /\ IsQueue(w.queued[p])
  BY DEF SourcesOK, SourcesTyped, CountsOK
<1>2. PICK all : all = w.queued[p] \o files
  OBVIOUS
<1>3. /\ DOMAIN u = DOMAIN w /\ u.queued = [w.queued EXCEPT ![p] = all]
      /\ \A f \in {"connected", "transfers", "blobs", "missing", "denied", "reads", "source", "again",
                   "queries"} : u[f] = w[f]
  BY <1>1, <1>2 DEF SourcesTyped, CountsOK, Fields, PullFields
<1> HIDE DEF u
<1>4. u.queued[p] = all /\ \A r \in Peers \ {p} : u.queued[r] = w.queued[r]
  BY <1>1, <1>3 DEF CountsOK
<1>5. Longer(w, u, p, files)
  BY <1>2, <1>3, <1>4 DEF Longer
<1>6. PICK s : s = w.queued[p]
  OBVIOUS
<1>7. IsQueue(all)
  BY <1>1, <1>2, <1>6, QueueConcat
<1>8. Counted(u, o, w.connected)
  BY <1>1, <1>3, <1>7, QueueReplaced
<1>9. ASSUME NEW i \in DOMAIN all PROVE Fetches(w, p, all[i][1])
  <2>1. all = s \o files
    BY <1>2, <1>6
  <2>2. /\ DOMAIN s = 1 .. Len(s) /\ DOMAIN files = 1 .. Len(files)
        /\ \A k \in 1 .. Len(s) : all[k] = s[k]
        /\ \A k \in DOMAIN all : k \in 1 .. Len(s) \/ (k - Len(s) \in 1 .. Len(files)
                                                       /\ all[k] = files[k - Len(s)])
    BY <1>1, <1>6, <2>1, ConcatElements
  <2>3. CASE i \in 1 .. Len(s)
    BY <1>1, <1>6, <2>2, <2>3 DEF SourcesOK, QueuesOK
  <2>4. CASE i - Len(s) \in 1 .. Len(files) /\ all[i] = files[i - Len(s)]
    BY <2>2, <2>4
  <2> QED BY <2>2, <2>3, <2>4
<1>10. ASSUME NEW r \in Peers, NEW i \in DOMAIN u.queued[r]
       PROVE  Fetches(w, r, u.queued[r][i][1])
  BY <1>4, <1>9 DEF SourcesOK, QueuesOK
<1>11. \A b \in u.blobs : b[1] \in w.connected => Fetches(w, b[1], b[2][1])
  BY <1>3 DEF SourcesOK, ReadsOK
<1>12. Sourced(u, o, w.connected)
  BY <1>3, <1>8, <1>10, <1>11, QueuesChanged
<1> QED BY <1>5, <1>12 DEF u

(***************************************************************************)
(* No slot is taken where no transfer runs.                                *)
(***************************************************************************)
LEMMA NoneRunning ==
  ASSUME NEW w, NEW o, CountsOK(w, o), ~(RunningTransfers(w) > 0), NEW p \in Peers
  PROVE  w.transfers[p] = 0
<1>1. IsFiniteSet(Slots(w)) /\ w.transfers[p] \in Nat
  BY DEF CountsOK
<1>2. Slots(w) = {}
  BY <1>1, FS_CardinalityType, FS_EmptySet DEF RunningTransfers
<1>3. 1 \notin 1 .. w.transfers[p]
  BY <1>2, SlotIs
<1> QED BY <1>1, <1>3

(***************************************************************************)
(* A list of what the source holds (on_holdings), when nothing else of the *)
(* group is under way with it, leaves the sources in order.                *)
(***************************************************************************)
HeldFiles(w, p, g, paths, held) ==
  LET wanted == {x \in paths \intersect held : <<p, <<g, x>>>> \notin w.denied}
  IN  [i \in 1 .. Cardinality(wanted) |-> <<g, InOrder(wanted)[i]>>]

HeldList(w, p, g, paths, files) ==
  /\ IsQueue(files) /\ Len(files) \in Nat /\ DOMAIN files = 1 .. Len(files)
  /\ \A i \in DOMAIN files :
       /\ files[i][1] = g /\ files[i][2] \in paths
       /\ files[i] = <<g, files[i][2]>> /\ <<p, files[i]>> \notin w.denied
  /\ \A i, j \in DOMAIN files : files[i] = files[j] => i = j

(***************************************************************************)
(* What such a list leads to queue is of the group, and each file once.    *)
(***************************************************************************)
LEMMA HeldFilesAre ==
  ASSUME NEW w, NEW p, NEW g, NEW paths, NEW held \in SUBSET Paths
  PROVE  HeldList(w, p, g, paths, HeldFiles(w, p, g, paths, held))
<1> DEFINE wanted == {x \in paths \intersect held : <<p, <<g, x>>>> \notin w.denied}
           files == HeldFiles(w, p, g, paths, held)
           n == Cardinality(wanted)
<1>1. wanted \in SUBSET Paths /\ wanted \in SUBSET Nat /\ IsFiniteSet(Paths)
  BY SupervisorAssumption DEF SupervisorAssumption
<1>2. \A x \in wanted : x \in paths /\ <<p, <<g, x>>>> \notin w.denied
  OBVIOUS
<1>3. files = [i \in 1 .. n |-> <<g, InOrder(wanted)[i]>>]
  BY DEF HeldFiles
<1> HIDE DEF wanted, files
<1>4. IsFiniteSet(wanted)
  BY <1>1, FS_Subset
<1>5. /\ n \in Nat
      /\ \A i \in 1 .. n : InOrder(wanted)[i] \in wanted
      /\ \A i, j \in 1 .. n : InOrder(wanted)[i] = InOrder(wanted)[j] => i = j
  BY <1>1, <1>4, InOrderLists
<1>6. PICK at : at = InOrder(wanted)
  OBVIOUS
<1>7. files = [i \in 1 .. n |-> <<g, at[i]>>]
  BY <1>3, <1>6
<1> HIDE DEF n
<1>8. DOMAIN files = 1 .. n /\ files = [i \in 1 .. n |-> files[i]]
  BY <1>7
<1>9. IsQueue(files)
  BY <1>5, <1>8, QueueFunction
<1>10. Len(files) = n
  <2>1. PICK T : files \in Seq(T)
    BY <1>9 DEF IsQueue
  <2>2. DOMAIN files = 1 .. Len(files) /\ Len(files) \in Nat
    BY <2>1
  <2>3. PICK m \in Nat : m = Len(files) /\ 1 .. m = 1 .. n
    BY <1>8, <2>2
  <2>4. Cardinality(1 .. m) = m /\ Cardinality(1 .. n) = n
    <3>1. 1 \in Int /\ m \in Int /\ n \in Int
      BY <1>5
    <3>2. (IF 1 > m THEN 0 ELSE m - 1 + 1) = m /\ (IF 1 > n THEN 0 ELSE n - 1 + 1) = n
      BY <1>5
    <3> QED BY <3>1, <3>2, FS_Interval
  <2> QED BY <2>3, <2>4
<1>11. \A i \in 1 .. n : files[i] = <<g, at[i]>> /\ files[i][1] = g /\ files[i][2] = at[i]
  BY <1>7
<1>12. \A i \in 1 .. n : /\ files[i][1] = g /\ files[i][2] \in paths
                         /\ files[i] = <<g, files[i][2]>> /\ <<p, files[i]>> \notin w.denied
  BY <1>2, <1>5, <1>6, <1>11
<1>13. \A i, j \in 1 .. n : files[i] = files[j] => i = j
  BY <1>5, <1>6, <1>11
<1>14. HeldList(w, p, g, paths, files)
  BY <1>5, <1>8, <1>9, <1>10, <1>12, <1>13 DEF HeldList
<1> QED BY <1>14 DEF files

(***************************************************************************)
(* A question to be put again is noted as put before it is (retries).      *)
(***************************************************************************)
LEMMA Disarmed ==
  ASSUME NEW w, NEW o, SourcesTyped(w, o), NEW x \in Peers \X Groups
  PROVE  \E p \in Peers, g \in Groups, r \in Retry :
           /\ x = <<p, g>> /\ ~r.armed
           /\ [w EXCEPT !.again[x].armed = FALSE] = [w EXCEPT !.again[<<p, g>>] = r]
<1>1. PICK p \in Peers, g \in Groups : x = <<p, g>>
  OBVIOUS
<1>2. w.again \in [Peers \X Groups -> Retry]
  BY DEF SourcesTyped
<1>3. PICK r : r = [w.again[x] EXCEPT !.armed = FALSE]
  OBVIOUS
<1>4. r \in Retry /\ ~r.armed
  <2>1. w.again[x] \in Retry
    BY <1>2
  <2> QED BY <1>3, <2>1 DEF Retry
<1>5. [w EXCEPT !.again[x].armed = FALSE] = [w EXCEPT !.again[x] = r]
  BY <1>3
<1> QED BY <1>1, <1>4, <1>5

(***************************************************************************)
(* One is put again when its peer is still there, else nothing happens.    *)
(***************************************************************************)
Requeried(w, u, a, p, g) ==
  \/ u = w
  \/ \E r \in Retry :
       /\ p \in w.connected /\ w.again[<<p, g>>].armed /\ ~r.armed
       /\ a = [w EXCEPT !.again[<<p, g>>] = r] /\ u = AskHoldings(a, p, g)

(***************************************************************************)
(* A question put again is put as it would be the first time.              *)
(***************************************************************************)
LEMMA RequeryCases ==
  ASSUME NEW w, NEW o, SourcesTyped(w, o), NEW x \in Peers \X Groups
  PROVE  \E a : \E p \in Peers, g \in Groups : Requeried(w, Requery(w, x), a, p, g)
<1> DEFINE a == [w EXCEPT !.again[x].armed = FALSE]
           u == Requery(w, x)
<1>1. \/ u = w
      \/ x[1] \in w.connected /\ w.again[x].armed /\ u = AskHoldings(a, x[1], x[2])
  BY DEF Requery
<1>2. PICK p \in Peers, g \in Groups, r \in Retry :
           x = <<p, g>> /\ ~r.armed /\ a = [w EXCEPT !.again[<<p, g>>] = r]
  BY Disarmed
<1>3. x[1] = p /\ x[2] = g
  BY <1>2
<1> HIDE DEF a, u
<1>4. Requeried(w, u, a, p, g)
  BY <1>1, <1>2, <1>3 DEF Requeried
<1> QED BY <1>4 DEF u

(***************************************************************************)
(* since nothing else of the group is under way with the peer.             *)
(***************************************************************************)
LEMMA ArmedAlone ==
  ASSUME NEW w, NEW o, SourcesOK(w, o), NEW p \in Peers, NEW g \in Groups,
         w.again[<<p, g>>].armed, NEW r \in Retry, ~r.armed,
         NEW a, a = [w EXCEPT !.again[<<p, g>>] = r]
  PROVE  /\ Sourced(a, o, w.connected) /\ Beside(w, a, p, g) /\ p \in a.connected
         /\ a.source = w.source /\ a.source[g] = p
         /\ Unasked(a, p, g) /\ Unread(a, p, g) /\ Unqueued(a, p, g)
<1>1. SourcesTyped(w, o)
  BY DEF SourcesOK
<1>2. p \in w.connected /\ w.source[g] = p
  BY DEF SourcesOK, ArmedOK
<1>3. Unread(w, p, g) /\ Unqueued(w, p, g)
  <2>1. ~Fetches(w, p, g)
    BY DEF Fetches, Unasked
  <2>2. Unread(w, p, g)
    BY <1>2, <2>1 DEF SourcesOK, ReadsOK, Unread
  <2>3. Unqueued(w, p, g)
    BY <2>1 DEF SourcesOK, QueuesOK, Unqueued
  <2> QED BY <2>2, <2>3
<1>4. \A q \in w.queries : ~(q[1] = p /\ q[2] = g)
  BY <1>2 DEF SourcesOK, QueriesOK
<1>5. Sourced(a, o, w.connected) /\ Beside(w, a, p, g) /\ a.source = w.source
  BY AgainSources
<1>6. /\ a.queries = w.queries /\ a.blobs = w.blobs /\ a.queued = w.queued
      /\ a.again[<<p, g>>] = r
  BY <1>1, AgainFields
<1>7. Unasked(a, p, g) /\ Unread(a, p, g) /\ Unqueued(a, p, g)
  BY <1>3, <1>4, <1>6 DEF Unasked, Unread, Unqueued
<1> QED BY <1>2, <1>5, <1>7 DEF Sourced

(***************************************************************************)
(* So putting one again leaves the sources in order;                       *)
(***************************************************************************)
LEMMA RequerySources ==
  ASSUME NEW w, NEW o, SourcesOK(w, o), NEW x \in Peers \X Groups
  PROVE  Sourced(Requery(w, x), o, w.connected)
<1>1. PICK u : u = Requery(w, x)
  OBVIOUS
<1>2. PICK a : \E p \in Peers, g \in Groups : Requeried(w, u, a, p, g)
  BY <1>1, RequeryCases DEF SourcesOK
<1>3. PICK p \in Peers, g \in Groups : Requeried(w, u, a, p, g)
  BY <1>2
<1>4. CASE u = w
  BY <1>1, <1>4 DEF Sourced
<1>5. CASE u # w
  <2>1. PICK r \in Retry :
          /\ p \in w.connected /\ w.again[<<p, g>>].armed /\ ~r.armed
          /\ a = [w EXCEPT !.again[<<p, g>>] = r] /\ u = AskHoldings(a, p, g)
    BY <1>3, <1>5 DEF Requeried
  <2>2. /\ Sourced(a, o, w.connected) /\ p \in a.connected /\ a.source[g] = p
        /\ Unasked(a, p, g) /\ Unread(a, p, g) /\ Unqueued(a, p, g)
    BY <2>1, ArmedAlone
  <2>3. SourcesOK(a, o) /\ a.connected = w.connected
    BY <2>2 DEF Sourced
  <2>4. Sourced(u, o, a.connected)
    BY <2>1, <2>2, <2>3, AskHoldingsSources
  <2> QED BY <1>1, <2>3, <2>4
<1> QED BY <1>4, <1>5

(***************************************************************************)
(* so do all the questions to be put again,                                *)
(***************************************************************************)
LEMMA RequeriesSources ==
  ASSUME NEW w, NEW o, SourcesOK(w, o), NEW seq, Len(seq) \in Nat,
         \A i \in 1 .. Len(seq) : seq[i] \in Peers \X Groups
  PROVE  Sourced(Requeries(w, seq), o, w.connected)
<1>1. PICK run : /\ run[0] = w
                 /\ \A i \in 1 .. Len(seq) : run[i] = Requery(run[i - 1], seq[i])
                 /\ Requeries(w, seq) = run[Len(seq)]
  BY RequeriesRun
<1> DEFINE T == {i \in 0 .. Len(seq) : Sourced(run[i], o, w.connected)}
<1>2. 0 \in T
  BY <1>1 DEF Sourced
<1>3. ASSUME NEW i \in 1 .. Len(seq), i - 1 \in T PROVE i \in T
  <2>1. SourcesOK(run[i - 1], o) /\ run[i - 1].connected = w.connected
    BY <1>3 DEF Sourced
  <2>2. Sourced(run[i], o, run[i - 1].connected)
    BY <1>1, <2>1, RequerySources
  <2> QED BY <2>1, <2>2
<1> HIDE DEF T
<1>4. Len(seq) \in T
  <2>1. 0 .. Len(seq) \subseteq T
    BY <1>2, <1>3, UpTo
  <2> QED BY <2>1
<1> QED BY <1>1, <1>4 DEF T

(***************************************************************************)
(* The four outcomes of such a list: nothing in it is wanted, and the next *)
(* page is asked for; or what is wanted is queued, and transfers run; or   *)
(* none can run, and the queue is let go of; or there is nothing to queue  *)
(* after all, and the peer is given up.                                    *)
(***************************************************************************)
HeldQuiet(w, p, g) == [w EXCEPT !.again[<<p, g>>] = Quiet]
HeldMore(w, p, g, paths, held) ==
  LET u == HeldQuiet(w, p, g)
  IN  [u EXCEPT !.queued[p] = u.queued[p] \o HeldFiles(u, p, g, paths, held)]

HeldEnds(w, u, pumped, t, p, g) ==
  \/ t = AskHoldings(u, p, g)
  \/ t = pumped /\ (pumped.transfers # u.transfers \/ RunningTransfers(pumped) > 0)
  \/ /\ t = ResolveStalled(pumped, p) /\ pumped.transfers = u.transfers
     /\ ~(RunningTransfers(pumped) > 0)
  \/ /\ t = SpendPeer(pumped, p, g) /\ pumped.queued[p] = <<>>
     /\ ~(RunningTransfers(pumped) > 0)

(***************************************************************************)
(* A list of what a peer holds has one of the four.                        *)
(***************************************************************************)
LEMMA HeldCases ==
  ASSUME NEW w, NEW o, SourcesTyped(w, o), NEW p \in Peers, NEW g \in Groups, NEW paths, NEW held
  PROVE  HeldEnds(w, HeldQuiet(w, p, g), Pump(HeldMore(w, p, g, paths, held), p),
                  Held(w, p, g, paths, held), p, g)
<1> DEFINE u == [w EXCEPT !.again[<<p, g>>] = Quiet]
           wanted == {x \in paths \intersect held : <<p, <<g, x>>>> \notin w.denied}
           files  == [i \in 1 .. Cardinality(wanted) |-> <<g, InOrder(wanted)[i]>>]
           pumped == Pump([u EXCEPT !.queued[p] = u.queued[p] \o files], p)
           t == Held(w, p, g, paths, held)
<1>1. t = IF wanted = {} THEN AskHoldings(u, p, g)
          ELSE IF pumped.transfers # u.transfers \/ RunningTransfers(pumped) > 0
               THEN pumped
          ELSE IF pumped.queued[p] # <<>> THEN ResolveStalled(pumped, p)
          ELSE SpendPeer(pumped, p, g)
  BY DEF Held
<1>2. u = HeldQuiet(w, p, g)
  BY DEF HeldQuiet
<1>3. u.denied = w.denied
  BY QuietRetry, AgainFields
<1>4. files = HeldFiles(u, p, g, paths, held)
  <2> HIDE DEF u
  <2> QED BY <1>3 DEF HeldFiles
<1>5. pumped = Pump(HeldMore(w, p, g, paths, held), p)
  <2> HIDE DEF u, files
  <2> QED BY <1>2, <1>4 DEF HeldMore
<1> HIDE DEF pumped, u, wanted, t
<1>6. HeldEnds(w, u, pumped, t, p, g)
  BY <1>1 DEF HeldEnds
<1> QED BY <1>2, <1>5, <1>6 DEF t

(***************************************************************************)
(* What it queues and starts, when nothing else of the group is under way  *)
(* with the source.                                                        *)
(***************************************************************************)
LEMMA HeldMoreSources ==
  ASSUME NEW w, NEW o, SourcesOK(w, o), NEW p \in w.connected, NEW g \in Groups,
         w.source[g] = p, Unasked(w, p, g), Unread(w, p, g), Unqueued(w, p, g),
         NEW paths, NEW held \in SUBSET Paths
  PROVE  LET u == HeldQuiet(w, p, g)
             m == HeldMore(w, p, g, paths, held)
         IN  /\ Sourced(u, o, w.connected) /\ Beside(w, u, p, g) /\ u.source = w.source
             /\ Unasked(u, p, g) /\ Unread(u, p, g) /\ Unqueued(u, p, g)
             /\ Sourced(m, o, w.connected)
             /\ Longer(u, m, p, HeldFiles(u, p, g, paths, held))
<1> DEFINE u == HeldQuiet(w, p, g)
           m == HeldMore(w, p, g, paths, held)
           files == HeldFiles(u, p, g, paths, held)
<1>1. SourcesTyped(w, o) /\ p \in Peers
  BY DEF SourcesOK, SourcesTyped
<1>2. /\ DOMAIN u = DOMAIN w
      /\ \A f \in {"connected", "transfers", "blobs", "queued", "missing", "denied", "reads",
                   "source", "queries"} : u[f] = w[f]
      /\ u.again[<<p, g>>] = Quiet
  BY <1>1, QuietRetry, AgainFields DEF HeldQuiet
<1>3. Sourced(u, o, w.connected) /\ Beside(w, u, p, g) /\ u.source = w.source
  BY <1>1, QuietRetry, AgainSources DEF HeldQuiet
<1>4. m = [u EXCEPT !.queued[p] = u.queued[p] \o files]
  BY DEF HeldMore
<1> HIDE DEF u
<1>5. Unasked(u, p, g) /\ Unread(u, p, g) /\ Unqueued(u, p, g)
  BY <1>2, QuietRetry DEF Unasked, Unread, Unqueued
<1>6. Fetches(u, p, g)
  BY <1>3, <1>5 DEF Fetches
<1> HIDE DEF files
<1>7. IsQueue(files) /\ \A i \in DOMAIN files : files[i][1] = g
  <2>1. HeldList(u, p, g, paths, files)
    BY HeldFilesAre DEF files
  <2> QED BY <2>1 DEF HeldList
<1>8. SourcesOK(u, o) /\ u.connected = w.connected /\ p \in u.connected
  BY <1>2, <1>3 DEF Sourced
<1>9. Sourced(m, o, u.connected) /\ Longer(u, m, p, files)
  <2> HIDE DEF m
  <2> QED BY <1>4, <1>6, <1>7, <1>8, QueueMore
<1> QED BY <1>3, <1>5, <1>8, <1>9 DEF u, files

(***************************************************************************)
(* In each of the four the sources stay in order.                          *)
(***************************************************************************)
LEMMA HeldSources ==
  ASSUME NEW w, NEW o, SourcesOK(w, o), NEW p \in w.connected, NEW g \in Groups,
         w.source[g] = p, Unasked(w, p, g), Unread(w, p, g), Unqueued(w, p, g),
         NEW paths, NEW held \in SUBSET Paths
  PROVE  Sourced(Held(w, p, g, paths, held), o, w.connected)
<1> DEFINE u == HeldQuiet(w, p, g)
           m == HeldMore(w, p, g, paths, held)
           files == HeldFiles(u, p, g, paths, held)
           pumped == Pump(m, p)
           t == Held(w, p, g, paths, held)
<1>1. SourcesTyped(w, o) /\ p \in Peers
  BY DEF SourcesOK, SourcesTyped
<1>2. /\ Sourced(u, o, w.connected) /\ Beside(w, u, p, g) /\ u.source = w.source
      /\ Unasked(u, p, g) /\ Unread(u, p, g) /\ Unqueued(u, p, g)
      /\ Sourced(m, o, w.connected) /\ Longer(u, m, p, files)
  BY HeldMoreSources
<1>3. HeldEnds(w, u, pumped, t, p, g)
  BY <1>1, HeldCases
<1> HIDE DEF u, m, t, files
<1>4. SourcesOK(m, o) /\ m.connected = w.connected /\ p \in m.connected
  BY <1>2 DEF Sourced
<1>5. Sourced(pumped, o, w.connected)
  BY <1>4, PumpSources
<1>6. Pumped(m, pumped, p)
  BY <1>1, <1>4, PumpTakes DEF SourcesOK, SourcesTyped, CountsOK
<1> HIDE DEF pumped
<1>7. ASSUME t = AskHoldings(u, p, g) PROVE Sourced(t, o, w.connected)
  <2>1. SourcesOK(u, o) /\ u.connected = w.connected /\ p \in u.connected /\ u.source[g] = p
    BY <1>2 DEF Sourced
  <2>2. LET x == AskHoldings(u, p, g) IN Sourced(x, o, u.connected) /\ Beside(u, x, p, g)
    BY <1>2, <2>1, AskHoldingsSources
  <2>3. Sourced(AskHoldings(u, p, g), o, w.connected)
    BY <2>1, <2>2
  <2> QED BY <1>7, <2>3
<1>8. ASSUME t = pumped PROVE Sourced(t, o, w.connected)
  BY <1>5, <1>8
<1>9. ASSUME t = ResolveStalled(pumped, p) PROVE Sourced(t, o, w.connected)
  BY <1>1, <1>5, <1>9, ResolveSources DEF Sourced
<1>10. ASSUME t = SpendPeer(pumped, p, g), ~(RunningTransfers(pumped) > 0)
       PROVE  Sourced(t, o, w.connected)
  <2>1. SourcesOK(pumped, o) /\ pumped.connected = w.connected
    BY <1>5 DEF Sourced
  <2>2. CountsOK(pumped, o)
    BY <2>1 DEF SourcesOK, SourcesTyped
  <2>3. pumped.transfers[p] = 0
    BY <1>1, <1>10, <2>2, NoneRunning
  <2>4. Unread(pumped, p, g)
    BY <1>1, <2>1, <2>2, <2>3, NothingReads DEF Unread
  <2>5. Unasked(pumped, p, g)
    BY <1>2, <1>6 DEF Pumped, Longer, Unasked
  <2>6. LET x == SpendPeer(pumped, p, g)
        IN  Sourced(x, o, pumped.connected) /\ Beside(pumped, x, p, g)
    BY <1>1, <2>1, <2>4, <2>5, SpendPeerSources
  <2>7. Sourced(SpendPeer(pumped, p, g), o, w.connected)
    BY <2>1, <2>6
  <2> QED BY <1>10, <2>7
<1>11. Sourced(t, o, w.connected)
  BY <1>3, <1>7, <1>8, <1>9, <1>10 DEF HeldEnds
<1> QED BY <1>11 DEF t

(***************************************************************************)
(* So does a refusal to say (arm_holdings_retry).                          *)
(***************************************************************************)
LEMMA RefusedSources ==
  ASSUME NEW w, NEW o, SourcesOK(w, o), NEW p \in w.connected, NEW g \in Groups,
         w.source[g] = p, Unasked(w, p, g), Unread(w, p, g), Unqueued(w, p, g)
  PROVE  Sourced(Refused(w, p, g), o, w.connected)
<1> DEFINE u == DropQueued(w, p, g)
           left == u.again[<<p, g>>].left
           a == [u EXCEPT !.again[<<p, g>>] = Quiet]
           r == [of |-> "holdings", armed |-> TRUE, left |-> left - 1]
           b == [u EXCEPT !.again[<<p, g>>] = r]
           t == Refused(w, p, g)
<1>1. (left = 0 /\ t = SpendPeer(a, p, g)) \/ (left # 0 /\ t = b)
  BY DEF Refused
<1>2. SourcesTyped(w, o) /\ CountsOK(w, o) /\ p \in Peers
  BY DEF SourcesOK, SourcesTyped
<1>3. PICK some, kept :
           /\ u = [w EXCEPT !.queued[p] = some]
           /\ Leaves(w.queued[p], g, some, kept)
  BY <1>2, DropQueuedKeeps
<1>4. Counted(u, o, w.connected)
  BY <1>2, DropQueuedCounts
<1>5. /\ DOMAIN u = DOMAIN w
      /\ \A f \in {"connected", "transfers", "blobs", "missing", "denied", "reads",
                   "again", "queries", "source"} : u[f] = w[f]
      /\ u.queued = [w.queued EXCEPT ![p] = some]
  BY <1>2, <1>3 DEF SourcesTyped, CountsOK, Fields, PullFields
<1> HIDE DEF u, t
<1>6. u.queued[p] = some /\ \A x \in Peers \ {p} : u.queued[x] = w.queued[x]
  BY <1>2, <1>5 DEF CountsOK
<1>7. ASSUME NEW x \in Peers, NEW i \in DOMAIN u.queued[x]
      PROVE  Fetches(w, x, u.queued[x][i][1])
  BY <1>3, <1>6 DEF SourcesOK, QueuesOK, Leaves
<1>8. Sourced(u, o, w.connected)
  BY <1>4, <1>5, <1>7, QueuesChanged DEF SourcesOK, ReadsOK
<1>9. /\ SourcesOK(u, o) /\ u.connected = w.connected /\ p \in u.connected /\ u.source[g] = p
      /\ Unasked(u, p, g) /\ Unread(u, p, g) /\ Unqueued(u, p, g)
  <2>1. SourcesOK(u, o) /\ u.connected = w.connected /\ p \in u.connected /\ u.source[g] = p
    BY <1>5, <1>8 DEF Sourced
  <2>2. Unasked(u, p, g) /\ Unread(u, p, g)
    BY <1>5 DEF Unasked, Unread
  <2>3. Unqueued(u, p, g)
    BY <1>3, <1>6 DEF Unqueued, Leaves
  <2> QED BY <2>1, <2>2, <2>3
<1>10. ASSUME left = 0 /\ t = SpendPeer(a, p, g) PROVE Sourced(t, o, w.connected)
  <2>1. Sourced(a, o, u.connected) /\ Beside(u, a, p, g) /\ a.source = u.source
    BY <1>2, <1>9, QuietRetry, AgainSources
  <2>2. /\ a.blobs = u.blobs /\ a.queries = u.queries /\ a.again[<<p, g>>] = Quiet
    BY <1>2, <1>9, QuietRetry, AgainFields DEF SourcesOK
  <2> HIDE DEF a
  <2>3. SourcesOK(a, o) /\ a.connected = u.connected /\ Unasked(a, p, g) /\ Unread(a, p, g)
    BY <1>9, <2>1, <2>2, QuietRetry DEF Sourced, Unasked, Unread
  <2>4. LET x == SpendPeer(a, p, g) IN Sourced(x, o, a.connected) /\ Beside(a, x, p, g)
    BY <1>2, <2>3, SpendPeerSources
  <2>5. Sourced(SpendPeer(a, p, g), o, w.connected)
    BY <1>9, <2>3, <2>4
  <2> QED BY <1>10, <2>5
<1>11. ASSUME left # 0 /\ t = b PROVE Sourced(t, o, w.connected)
  <2>1. u.again[<<p, g>>] \in Retry
    BY <1>2, <1>9 DEF SourcesOK, SourcesTyped
  <2>2. left \in Nat /\ left <= RetryAttempts /\ RetryAttempts \in Nat
    BY <2>1, RetryFields, AttemptsNat
  <2>3. r \in Retry /\ r.armed
    <3>1. left - 1 \in 0 .. RetryAttempts
      BY <1>11, <2>2
    <3> HIDE DEF left
    <3> QED BY <3>1 DEF Retry
  <2> HIDE DEF r
  <2>4. Sourced(b, o, u.connected) /\ Beside(u, b, p, g) /\ b.source = u.source
    BY <1>2, <1>9, <2>3, AgainSources DEF Unasked
  <2> HIDE DEF b
  <2> QED BY <1>9, <1>11, <2>4
<1> HIDE DEF a, b, left
<1>12. Sourced(t, o, w.connected)
  BY <1>1, <1>10, <1>11
<1> QED BY <1>12 DEF t

(***************************************************************************)
(* A transfer with a connected peer that ends gives its slot back (used),  *)
(***************************************************************************)
Read(v0, w, b) ==
  /\ DOMAIN w = DOMAIN v0 /\ w.blobs = v0.blobs \ {b}
  /\ \A f \in {"connected", "transfers", "queued", "source", "again", "queries"} : w[f] = v0[f]

(***************************************************************************)
(* So the sources stay in order,                                           *)
(***************************************************************************)
LEMMA EndedSources ==
  ASSUME NEW v0, NEW o, SourcesOK(v0, o), NEW b \in v0.blobs, NEW w, Read(v0, w, b)
  PROVE  Sourced(Ended(w, b[1]), o, v0.connected)
<1> DEFINE p == b[1]
           a == Ended(w, p)
<1>1. SourcesTyped(v0, o) /\ CountsOK(v0, o)
  BY DEF SourcesOK, SourcesTyped
<1>2. /\ DOMAIN w = DOMAIN v0 /\ w.connected = v0.connected /\ w.transfers = v0.transfers
      /\ w.queued = v0.queued /\ w.blobs = v0.blobs \ {b} /\ w.source = v0.source
      /\ w.again = v0.again /\ w.queries = v0.queries
  BY DEF Read
<1>3. Counted(a, o, v0.connected)
  BY <1>1, <1>2, EndedCounts
<1>4. Fields \union PullFields \subseteq DOMAIN w
  BY <1>1, <1>2 DEF SourcesTyped, CountsOK
<1>5. /\ DOMAIN a = DOMAIN w /\ a.source = w.source /\ a.again = w.again
      /\ a.queries = w.queries /\ a.queued = w.queued /\ a.blobs = w.blobs
  BY <1>4 DEF Ended, Fields, PullFields
<1> HIDE DEF a
<1>6. ASSUME NEW r \in Peers, NEW i \in DOMAIN a.queued[r]
      PROVE  Fetches(v0, r, a.queued[r][i][1])
  BY <1>2, <1>5 DEF SourcesOK, QueuesOK
<1>7. \A x \in a.blobs : x[1] \in v0.connected => Fetches(v0, x[1], x[2][1])
  BY <1>2, <1>5 DEF SourcesOK, ReadsOK
<1>8. Sourced(a, o, v0.connected)
  BY <1>2, <1>3, <1>5, <1>6, <1>7, QueuesChanged
<1> QED BY <1>8 DEF a

(***************************************************************************)
(* which starts what waited or lets go of it,                              *)
(***************************************************************************)
LEMMA UsedSources ==
  ASSUME NEW v0, NEW o, SourcesOK(v0, o), NEW b \in v0.blobs, b[1] \in v0.connected,
         NEW w, Read(v0, w, b)
  PROVE  Sourced(Used(w, b[1]), o, v0.connected)
<1> DEFINE p == b[1]
           a == Ended(w, p)
           c == Pump(a, p)
           u == Used(w, p)
<1>1. p \in Peers
  BY DEF SourcesOK, SourcesTyped, CountsOK
<1>2. u = ResolveStalled(c, p)
  BY DEF Used, Ended
<1>3. Sourced(a, o, v0.connected)
  BY EndedSources
<1>4. SourcesOK(a, o) /\ a.connected = v0.connected /\ p \in a.connected
  BY <1>3 DEF Sourced
<1> HIDE DEF a, p
<1>5. Sourced(c, o, a.connected)
  BY <1>4, PumpSources
<1>6. SourcesOK(c, o) /\ c.connected = v0.connected
  BY <1>4, <1>5 DEF Sourced
<1> HIDE DEF c
<1>7. Sourced(u, o, v0.connected)
  BY <1>1, <1>2, <1>6, ResolveSources
<1> QED BY <1>7 DEF u, p

(***************************************************************************)
(* and then asks the peer for the next pages (continue_pull), unless one   *)
(* it is asked for is open already.                                        *)
(***************************************************************************)
LEMMA FreedSources ==
  ASSUME NEW v0, NEW o, SourcesOK(v0, o), NEW b \in v0.blobs, b[1] \in v0.connected,
         NEW w, Read(v0, w, b), ~Twice(w, b[1])
  PROVE  Sourced(Freed(w, b[1]), o, v0.connected)
<1> DEFINE p == b[1]
           u == Used(w, p)
           t == Freed(w, p)
           n == NextPages(u, p, InOrder(Groups))
<1>0. t = ContinuePull(u, p)
  BY DEF Freed
<1>1. \/ t = u
      \/ t = n /\ ~(u.transfers[p] > 0) /\ u.queued[p] = <<>>
  <2> HIDE DEF u, t, p
  <2> QED BY <1>0 DEF ContinuePull
<1>2. /\ u.transfers[p] = 0 /\ u.queued[p] = <<>>
      => \A g \in Groups : u.source[g] = p /\ p \in MembersOf[g] => Unasked(u, p, g)
  BY DEF Twice, Unasked
<1>3. Sourced(u, o, v0.connected)
  BY UsedSources
<1> HIDE DEF u, t
<1>4. SourcesOK(u, o) /\ u.connected = v0.connected /\ p \in u.connected
  BY <1>3 DEF Sourced
<1>5. CountsOK(u, o) /\ p \in Peers /\ u.transfers[p] \in Nat
  BY <1>4 DEF SourcesOK, SourcesTyped, CountsOK
<1> HIDE DEF p
<1>6. ASSUME ~(u.transfers[p] > 0), u.queued[p] = <<>> PROVE Sourced(n, o, v0.connected)
  <2>1. u.transfers[p] = 0
    BY <1>5, <1>6
  <2>2. \A x \in u.blobs : x[1] # p
    BY <1>4, <1>5, <2>1, NothingReads
  <2>3. DOMAIN u.queued[p] = {}
    BY <1>6
  <2>4. \A g \in Groups : u.source[g] = p /\ p \in MembersOf[g] => Unasked(u, p, g)
    BY <1>2, <1>6, <2>1
  <2> QED BY <1>4, <2>2, <2>3, <2>4, NextPagesSources
<1> HIDE DEF n
<1>7. Sourced(t, o, v0.connected)
  BY <1>1, <1>3, <1>6
<1> QED BY <1>7 DEF t, p

-----------------------------------------------------------------------------
(***************************************************************************)
(* A connection that becomes ready has no question or read under way.      *)
(***************************************************************************)
LEMMA VerifiedSources ==
  ASSUME NEW w, NEW o, SourcesOK(w, o), NEW p \in o, p \in Peers
  PROVE  SourcesOK(Verified(w, p), o \ {p})
<1> DEFINE b == [w EXCEPT !.dialing = w.dialing \ {p},
                !.connected = w.connected \union {p},
                !.online = w.online \union {p},
                !.resting = w.resting \ {p}, !.attempts[p] = 0]
           u == Verified(w, p)
           oo == o \ {p}
<1>1. u = Ask(b, With(p, "chain"))
  BY DEF Verified
<1>2. SourcesTyped(w, o) /\ CountsOK(w, o)
  BY DEF SourcesOK, SourcesTyped
<1>3. /\ DOMAIN b = DOMAIN w /\ b.connected = w.connected \union {p}
      /\ b.transfers = w.transfers /\ b.queued = w.queued /\ b.blobs = w.blobs
      /\ b.source = w.source /\ b.again = w.again /\ b.queries = w.queries
  BY <1>2 DEF SourcesTyped, CountsOK, Fields, PullFields
<1>4. SamePulls(b, u)
  <2>1. PICK which : which = With(p, "chain")
    OBVIOUS
  <2>2. Fields \union PullFields \subseteq DOMAIN b
    BY <1>2, <1>3 DEF SourcesTyped, CountsOK
  <2> HIDE DEF b
  <2>3. SamePulls(b, Ask(b, which))
    BY <2>2, AskPulls
  <2> HIDE DEF u
  <2> QED BY <1>1, <2>1, <2>3
<1>5. CountsOK(u, oo)
  BY <1>2, VerifiedCounts
<1> HIDE DEF b, u
<1>6. /\ DOMAIN u = DOMAIN w /\ u.connected = w.connected \union {p}
      /\ u.queued = w.queued /\ u.blobs = w.blobs
      /\ u.source = w.source /\ u.again = w.again /\ u.queries = w.queries
  BY <1>3, <1>4 DEF SamePulls, SameLoads, PullFields
<1>7. \A q \in w.queries : q[1] # p
  BY DEF SourcesOK, QueriesOK
<1>8. \A x \in w.blobs : x[1] # p
  BY <1>2 DEF CountsOK, Of
<1>9. SourcesTyped(u, oo)
  BY <1>2, <1>5, <1>6 DEF SourcesTyped
<1>10. QueriesOK(u, oo)
  BY <1>6, <1>7 DEF SourcesOK, QueriesOK
<1>11. ArmedOK(u)
  BY <1>6 DEF SourcesOK, ArmedOK
<1>12. ASSUME NEW r, NEW g, Fetches(w, r, g) PROVE Fetches(u, r, g)
  BY <1>6, <1>12 DEF Fetches, Unasked
<1>13. QueuesOK(u)
  BY <1>6, <1>12 DEF SourcesOK, QueuesOK
<1>14. ReadsOK(u)
  BY <1>6, <1>8, <1>12 DEF SourcesOK, ReadsOK
<1>15. SourcesOK(u, oo)
  BY <1>9, <1>10, <1>11, <1>13, <1>14 DEF SourcesOK
<1> QED BY <1>15 DEF u

(***************************************************************************)
(* What was known with a peer that goes is forgotten, and no group keeps   *)
(* it as its source.                                                       *)
(***************************************************************************)
GoneFrom(w, u, p) ==
  /\ DOMAIN u = DOMAIN w /\ u.connected = w.connected \ {p}
  /\ u.blobs = w.blobs /\ u.queries = w.queries /\ u.missing = w.missing
  /\ u.reads = w.reads
  /\ u.again = [x \in Peers \X Groups |-> IF x[1] = p THEN Quiet ELSE w.again[x]]
  /\ u.denied = {x \in w.denied : x[1] # p}
  /\ u.queued = [w.queued EXCEPT ![p] = <<>>]
  /\ u.transfers = [w.transfers EXCEPT ![p] = 0]
  /\ u.source = [g \in Groups |-> IF w.source[g] = p THEN Nobody ELSE w.source[g]]

(***************************************************************************)
(* That is what its going leaves of the pulls.                             *)
(***************************************************************************)
LEMMA GoneFields ==
  ASSUME NEW w, NEW o, SourcesTyped(w, o), NEW p \in Peers
  PROVE  GoneFrom(w, Gone(w, p), p)
<1> DEFINE u == Gone(w, p)
<1>1. Fields \union PullFields \subseteq DOMAIN w
  BY DEF SourcesTyped, CountsOK
<1>2. /\ DOMAIN u = DOMAIN w /\ u.connected = w.connected \ {p}
      /\ u.blobs = w.blobs /\ u.queries = w.queries /\ u.missing = w.missing
      /\ u.reads = w.reads
  <2>1. DOMAIN u = DOMAIN w /\ u.connected = w.connected \ {p}
    BY <1>1 DEF Gone, Fields, PullFields
  <2>2. u.blobs = w.blobs /\ u.queries = w.queries
    BY <1>1 DEF Gone, Fields, PullFields
  <2>3. u.missing = w.missing /\ u.reads = w.reads
    BY <1>1 DEF Gone, Fields, PullFields
  <2> QED BY <2>1, <2>2, <2>3
<1>3. /\ u.again = [x \in Peers \X Groups |-> IF x[1] = p THEN Quiet ELSE w.again[x]]
      /\ u.denied = {x \in w.denied : x[1] # p}
  BY <1>1 DEF Gone, Fields, PullFields
<1>4. /\ u.queued = [w.queued EXCEPT ![p] = <<>>]
      /\ u.transfers = [w.transfers EXCEPT ![p] = 0]
  BY <1>1 DEF Gone, Fields, PullFields
<1>5. u.source = [g \in Groups |-> IF w.source[g] = p THEN Nobody ELSE w.source[g]]
  BY <1>1 DEF Gone, Fields, PullFields
<1> HIDE DEF u
<1>6. GoneFrom(w, u, p)
  BY <1>2, <1>3, <1>4, <1>5 DEF GoneFrom
<1> QED BY <1>6 DEF u

(***************************************************************************)
(* So the sources stay in order.                                           *)
(***************************************************************************)
LEMMA GoneSources ==
  ASSUME NEW w, NEW o, SourcesOK(w, o), NEW p \in Peers
  PROVE  SourcesOK(Gone(w, p), o)
<1> DEFINE u == Gone(w, p)
<1>1. SourcesTyped(w, o) /\ CountsOK(w, o)
  BY DEF SourcesOK, SourcesTyped
<1>2. GoneFrom(w, u, p)
  BY <1>1, GoneFields
<1>3. CountsOK(u, o)
  BY <1>1, GoneCounts
<1> HIDE DEF u
<1>4. /\ u.source \in [Groups -> Peers \union {Nobody}]
      /\ \A g \in Groups : u.source[g] = IF w.source[g] = p THEN Nobody ELSE w.source[g]
  BY <1>1, <1>2 DEF GoneFrom, SourcesTyped
<1>5. \A r \in Peers, g \in Groups :
        u.again[<<r, g>>] = IF r = p THEN Quiet ELSE w.again[<<r, g>>]
  BY <1>2 DEF GoneFrom
<1>6. u.again \in [Peers \X Groups -> Retry]
  BY <1>1, <1>2, QuietRetry DEF GoneFrom, SourcesTyped
<1>7. SourcesTyped(u, o)
  BY <1>1, <1>2, <1>3, <1>4, <1>6 DEF GoneFrom, SourcesTyped
<1>8. ASSUME NEW r \in Peers \ {p}, NEW g, Fetches(w, r, g) PROVE Fetches(u, r, g)
  <2>1. g \in Groups /\ w.source[g] = r /\ Unasked(w, r, g)
    BY <1>8 DEF Fetches
  <2>2. u.source[g] = r /\ u.again[<<r, g>>] = w.again[<<r, g>>] /\ u.queries = w.queries
    BY <1>2, <1>4, <1>5, <2>1 DEF GoneFrom
  <2> QED BY <2>1, <2>2 DEF Fetches, Unasked
<1>9. u.queued[p] = <<>> /\ \A r \in Peers \ {p} : u.queued[r] = w.queued[r]
  BY <1>1, <1>2 DEF GoneFrom, CountsOK
<1>10. QueriesOK(u, o)
  <2> SUFFICES ASSUME NEW q \in w.queries
               PROVE  /\ q[1] \in Peers \ o /\ q[2] \in Groups
                      /\ q[1] \in w.connected \ {p} =>
                           /\ u.source[q[2]] = q[1] /\ ~u.again[<<q[1], q[2]>>].armed
                           /\ \A r \in w.queries : r[1] = q[1] /\ r[2] = q[2] => r = q
    BY <1>2 DEF QueriesOK, GoneFrom
  <2>1. /\ q[1] \in Peers \ o /\ q[2] \in Groups
        /\ q[1] \in w.connected =>
             /\ w.source[q[2]] = q[1] /\ ~w.again[<<q[1], q[2]>>].armed
             /\ \A r \in w.queries : r[1] = q[1] /\ r[2] = q[2] => r = q
    BY DEF SourcesOK, QueriesOK
  <2> QED BY <1>4, <1>5, <2>1
<1>11. ArmedOK(u)
  <2> SUFFICES ASSUME NEW r \in Peers, NEW g \in Groups, u.again[<<r, g>>].armed
               PROVE  r \in u.connected /\ u.source[g] = r
    BY DEF ArmedOK
  <2>1. r # p /\ u.again[<<r, g>>] = w.again[<<r, g>>]
    BY <1>5, QuietRetry
  <2>2. r \in w.connected /\ w.source[g] = r
    BY <2>1 DEF SourcesOK, ArmedOK
  <2> QED BY <1>2, <1>4, <2>1, <2>2 DEF GoneFrom
<1>12. QueuesOK(u)
  <2> SUFFICES ASSUME NEW r \in Peers, NEW i \in DOMAIN u.queued[r]
               PROVE  Fetches(u, r, u.queued[r][i][1])
    BY DEF QueuesOK
  <2>1. r # p /\ u.queued[r] = w.queued[r]
    BY <1>9
  <2> QED BY <1>8, <2>1 DEF SourcesOK, QueuesOK
<1>13. ReadsOK(u)
  <2> SUFFICES ASSUME NEW b \in u.blobs, b[1] \in u.connected
               PROVE  Fetches(u, b[1], b[2][1])
    BY DEF ReadsOK
  <2>1. b \in w.blobs /\ b[1] \in w.connected /\ b[1] \in Peers \ {p}
    BY <1>1, <1>2 DEF GoneFrom, SourcesTyped
  <2>2. Fetches(w, b[1], b[2][1])
    BY <2>1 DEF SourcesOK, ReadsOK
  <2> QED BY <1>8, <2>1, <2>2
<1>14. SourcesOK(u, o)
  BY <1>7, <1>10, <1>11, <1>12, <1>13 DEF SourcesOK
<1> QED BY <1>14 DEF u

-----------------------------------------------------------------------------
(***************************************************************************)
(* What a finite set is listed as is its elements.                         *)
(***************************************************************************)
LEMMA SetToSeqElements ==
  ASSUME NEW S, IsFiniteSet(S)
  PROVE  \A i \in 1 .. Len(SetToSeq(S)) : SetToSeq(S)[i] \in S
<1>1. ExistsBijection(1 .. Cardinality(S), S) /\ Cardinality(S) \in Nat
  BY FS_NatBijection, FS_CardinalityType
<1>2. PICK f \in [1 .. Cardinality(S) -> S] : IsInjective(f)
  BY <1>1 DEF ExistsBijection, Bijection, Injection, IsInjective
<1>3. SetToSeq(S) \in [1 .. Cardinality(S) -> S]
  BY <1>2 DEF SetToSeq
<1> QED BY <1>1, <1>3

(***************************************************************************)
(* Asking again leaves the sources in order (retries).                     *)
(***************************************************************************)
LEMMA RetriesSources ==
  ASSUME NEW w, NEW o, SourcesOK(w, o), NEW armed, NEW queries \in SUBSET (Peers \X Groups)
  PROVE  Sourced(Retries(w, armed, queries), o, w.connected)
<1> DEFINE again == {p \in armed \intersect w.connected :
                       w.started[p] = "none" /\ w.retry[p].armed}
           put == [w EXCEPT !.retry = [p \in Peers |->
                     IF p \in again THEN [w.retry[p] EXCEPT !.armed = FALSE]
                     ELSE w.retry[p]]]
           a == Ask(put, [p \in again |-> w.retry[p].of])
           u == Retries(w, armed, queries)
           seq == SetToSeq(queries)
<1>1. u = Requeries(a, seq)
  BY DEF Retries
<1>2. SamePulls(w, put)
  BY DEF SourcesOK, SourcesTyped, CountsOK, SamePulls, SameLoads, Fields, PullFields
<1> HIDE DEF put
<1>3. SamePulls(put, a)
  <2> PICK which : which = [p \in again |-> w.retry[p].of]
    OBVIOUS
  <2> HIDE DEF again
  <2> QED BY <1>2, AskPulls DEF SamePulls, SameLoads
<1> HIDE DEF a, u, seq
<1>4. Sourced(a, o, w.connected)
  <2>1. SamePulls(w, a)
    BY <1>2, <1>3, PullsTransitive
  <2> QED BY <2>1, SourcesSame
<1>5. IsFiniteSet(queries)
  <2>1. IsFiniteSet(Peers \X Groups)
    BY FS_Product, SupervisorAssumption DEF SupervisorAssumption
  <2> QED BY <2>1, FS_Subset
<1>6. Len(seq) \in Nat /\ \A i \in 1 .. Len(seq) : seq[i] \in Peers \X Groups
  BY <1>5, SetToSeqLength, SetToSeqElements DEF seq
<1>7. SourcesOK(a, o) /\ a.connected = w.connected
  BY <1>4 DEF Sourced
<1>8. Sourced(u, o, w.connected)
  BY <1>1, <1>6, <1>7, RequeriesSources
<1> QED BY <1>8 DEF u

(***************************************************************************)
(* Sources in order stay so when other connections are opening, unless     *)
(* something is under way with one of them.                                *)
(***************************************************************************)
LEMMA OpeningSources ==
  ASSUME NEW w, NEW o, SourcesOK(w, o), NEW opening,
         \A p \in opening : /\ p \notin w.connected /\ Of(w.blobs, p) = {}
                            /\ \A q \in w.queries : q[1] # p
  PROVE  SourcesOK(w, opening)
<1>1. CountsOK(w, opening)
  BY OpeningChanged DEF SourcesOK, SourcesTyped
<1>2. QueriesOK(w, opening)
  BY DEF SourcesOK, QueriesOK
<1> QED BY <1>1, <1>2 DEF SourcesOK, SourcesTyped

(***************************************************************************)
(* An event that leaves the sources in order keeps them so;                *)
(***************************************************************************)
Pulling == SourcesOK(v, Opening(link))

(***************************************************************************)
(* What the requests are handed out of stays in order with them;           *)
(***************************************************************************)
LEMMA HappeningSources ==
  ASSUME NEW w, NEW calm, NEW news, HappensWith(w, calm, news), SourcesOK(w, Opening(link'))
  PROVE  Pulling'
<1>1. v' = Dispatch(w)
  BY DEF HappensWith
<1>2. SamePulls(w, v')
  BY <1>1, DispatchPulls DEF SourcesOK, SourcesTyped, CountsOK
<1>3. Sourced(v', Opening(link'), w.connected)
  BY <1>2, SourcesSame
<1> QED BY <1>3 DEF Pulling, Sourced, Opening

(***************************************************************************)
(* so does one that leaves the pulls and the connections alone,            *)
(***************************************************************************)
LEMMA StillSources ==
  ASSUME Pulling, NEW w, NEW calm, NEW news, HappensWith(w, calm, news), SamePulls(v, w),
         UNCHANGED link
  PROVE  Pulling'
<1>1. SourcesOK(w, Opening(link'))
  BY SourcesSame DEF Pulling, Sourced
<1> QED BY <1>1, HappeningSources

(***************************************************************************)
(* one that opens or closes a connection on which nothing runs,            *)
(***************************************************************************)
LEMMA LinkSources ==
  ASSUME Pulling, CallInv, NEW w, NEW calm, NEW news, HappensWith(w, calm, news),
         SamePulls(v, w), NEW p \in Peers, NEW l \in {"none", "open"},
         link' = [link EXCEPT ![p] = l],
         l = "open" => NothingWith(v, p) /\ p \notin v.connected
  PROVE  Pulling'
<1>1. /\ SourcesOK(w, Opening(link)) /\ w.blobs = v.blobs /\ w.connected = v.connected
      /\ w.queries = v.queries
  BY SourcesSame DEF Pulling, Sourced, SamePulls, SameLoads, PullFields
<1>2. ASSUME NEW q \in Opening(link')
      PROVE  /\ q \notin w.connected /\ Of(w.blobs, q) = {}
             /\ \A x \in w.queries : x[1] # q
  <2>1. CASE q = p
    <3>1. l = "open"
      BY <2>1 DEF CallInv, Opening
    <3> QED BY <1>1, <2>1, <3>1 DEF NothingWith, FilesBusy, Of
  <2>2. CASE q # p
    <3>1. q \in Opening(link)
      BY <2>2 DEF CallInv, Opening
    <3> QED BY <1>1, <3>1 DEF SourcesOK, SourcesTyped, CountsOK, QueriesOK
  <2> QED BY <2>1, <2>2
<1>3. SourcesOK(w, Opening(link'))
  BY <1>1, <1>2, OpeningSources
<1> QED BY <1>3, HappeningSources

(***************************************************************************)
(* and one in which a connection goes.                                     *)
(***************************************************************************)
LEMMA GoneStill ==
  ASSUME Pulling, CallInv, NEW w, SamePulls(v, w), NEW p \in Peers, NEW calm, NEW news,
         HappensWith(Gone(w, p), calm, news), link' = [link EXCEPT ![p] = "none"]
  PROVE  Pulling'
<1>1. SourcesOK(w, Opening(link))
  BY SourcesSame DEF Pulling, Sourced
<1>2. PICK u : u = Gone(w, p)
  OBVIOUS
<1>3. SourcesOK(u, Opening(link))
  BY <1>1, <1>2, GoneSources
<1>4. ASSUME NEW q \in Opening(link') PROVE q \in Opening(link)
  BY DEF Opening, CallInv
<1>5. SourcesOK(u, Opening(link'))
  BY <1>3, <1>4 DEF SourcesOK, SourcesTyped, CountsOK, QueriesOK
<1> QED BY <1>2, <1>5, HappeningSources

(***************************************************************************)
(* A tick: dials, transfers that there is room for now, sources and        *)
(* questions.                                                              *)
(***************************************************************************)
LEMMA TickSources ==
  ASSUME Pulling, NEW t \in Timers, Tick(t)
  PROVE  Pulling'
<1>1. PICK order \in Orders :
        HappensWith(Ticked(t, order).v, {p \in v.connected : NothingWith(v, p)},
                    Ticked(t, order).news)
  BY DEF Tick
<1> DEFINE armed   == {p \in Peers : v.retry[p].armed}
           queries == {x \in Peers \X Groups : v.again[x].armed}
           is(k) == IF t[1] = k THEN {t[2]} ELSE {}
           a == [v EXCEPT !.space = disk]
           u == [a EXCEPT !.dialed  = IF t[1] = "window" THEN 0 ELSE a.dialed,
                     !.resting = a.resting \ is("rest"),
                     !.waiting = a.waiting \ is("wait"),
                     !.due     = a.due \union is("heartbeat"),
                     !.closing = a.closing \ is("close")]
           out == ArmRetry(u, is("round"))
           begun == Arms(out, InOrder(Groups))
           dialed == QueueDials(begun, order)
           calls == PumpQueues(dialed, order)
           pulled == ContentPulls(calls)
           tried == Retries(pulled, armed, queries)
           w == Ticked(t, order).v
           o == Opening(link)
<1>2. w = Closes(tried)
  BY DEF Ticked, RunOut
<1>3. Fields \union PullFields \subseteq DOMAIN v
  BY DEF Pulling, SourcesOK, SourcesTyped, CountsOK
<1>4. SamePulls(v, u) /\ Fields \union PullFields \subseteq DOMAIN u
  <2>1. SamePulls(v, a) /\ Fields \union PullFields \subseteq DOMAIN a
    BY <1>3 DEF SamePulls, SameLoads, Fields, PullFields
  <2> HIDE DEF a, is
  <2>2. SamePulls(v, u)
    BY <2>1 DEF SamePulls, SameLoads, Fields, PullFields
  <2> HIDE DEF u
  <2> QED BY <1>3, <2>2 DEF SamePulls, SameLoads
<1> HIDE DEF u
<1>5. SamePulls(u, out) /\ Fields \union PullFields \subseteq DOMAIN out
  <2> PICK ps : ps = is("round")
    OBVIOUS
  <2> HIDE DEF is
  <2>1. SamePulls(u, out)
    BY <1>4, ArmRetryPulls
  <2> HIDE DEF out
  <2> QED BY <1>4, <2>1 DEF SamePulls, SameLoads
<1> HIDE DEF out
<1>6. IsFiniteSet(Groups) /\ IsFiniteSet(Peers) /\ Groups \in SUBSET Nat
  BY SupervisorAssumption DEF SupervisorAssumption
<1>7. Len(InOrder(Groups)) \in Nat
      /\ \A i \in 1 .. Len(InOrder(Groups)) : InOrder(Groups)[i] \in Groups
  BY <1>6, InOrderLists
<1>8. SamePulls(out, begun) /\ Fields \union PullFields \subseteq DOMAIN begun
  <2>1. SamePulls(out, begun)
    BY <1>5, <1>7, ArmsPulls
  <2> HIDE DEF begun
  <2> QED BY <1>5, <2>1 DEF SamePulls, SameLoads
<1> HIDE DEF begun
<1>9. SamePulls(begun, dialed)
  BY <1>8, QueueDialsPulls
<1> HIDE DEF dialed, o
<1>10. Sourced(dialed, o, v.connected)
  <2>1. SamePulls(v, dialed)
    BY <1>4, <1>5, <1>8, <1>9, PullsTransitive
  <2> QED BY <2>1, SourcesSame DEF Pulling, o
<1>11. Sourced(calls, o, v.connected)
  <2>1. Len(order) \in Nat /\ \A i \in 1 .. Len(order) : order[i] \in Peers
    BY <1>6, FS_CardinalityType DEF Orders
  <2> QED BY <1>10, <2>1, PumpQueuesSources DEF Sourced
<1> HIDE DEF calls
<1>12. Sourced(pulled, o, v.connected)
  <2>1. pulled = calls \/ pulled = Pulls(calls, InOrder(Groups))
    BY DEF ContentPulls
  <2>2. PICK groups : groups = InOrder(Groups)
    OBVIOUS
  <2> QED BY <1>7, <1>11, <2>1, <2>2, PullsSources DEF Sourced
<1> HIDE DEF pulled
<1>13. Sourced(tried, o, v.connected)
  <2>1. queries \in SUBSET (Peers \X Groups)
    OBVIOUS
  <2> HIDE DEF armed, queries
  <2> QED BY <1>12, <2>1, RetriesSources DEF Sourced
<1> HIDE DEF tried, w
<1>14. Sourced(w, o, v.connected)
  <2>1. SamePulls(tried, w)
    BY <1>2, <1>13, ClosesPulls DEF Sourced, SourcesOK, SourcesTyped, CountsOK
  <2> QED BY <1>13, <2>1, SourcesSame DEF Sourced
<1>15. UNCHANGED link
  BY DEF Tick, Elsewhere
<1>16. HappensWith(w, {p \in v.connected : NothingWith(v, p)}, Ticked(t, order).news)
  BY <1>1 DEF w
<1>17. SourcesOK(w, Opening(link'))
  BY <1>14, <1>15 DEF Sourced, o
<1> QED BY <1>16, <1>17, HappeningSources

(***************************************************************************)
(* The record has all fields the pulls speak of.                           *)
(***************************************************************************)
LEMMA PullingFields == Pulling => Fields \union PullFields \subseteq DOMAIN v
  BY DEF Pulling, SourcesOK, SourcesTyped, CountsOK

-----------------------------------------------------------------------------
(***************************************************************************)
(* Presence, dials and connections keep the sources in order,              *)
(***************************************************************************)
LEMMA NetworkSources ==
  ASSUME Pulling, CallInv, Network
  PROVE  Pulling'
<1> USE PullingFields
<1>1. ASSUME NEW asked, NEW up, PresenceAnswered(asked, up) PROVE Pulling'
  <2> DEFINE w == [v EXCEPT !.online = (v.online \ asked) \union up,
                     !.pending = v.pending \union (up \intersect Strangers)]
             u == IF up \subseteq v.online THEN w ELSE Reconsider(w, Groups)
  <2>1. HappensWith(u, quiet, {}) /\ UNCHANGED link
    BY <1>1 DEF PresenceAnswered, Happens, Elsewhere
  <2>2. SamePulls(v, w) /\ Fields \union PullFields \subseteq DOMAIN w
    BY DEF SamePulls, SameLoads, Fields, PullFields
  <2> HIDE DEF w
  <2>3. SamePulls(v, u)
    <3>1. SamePulls(w, Reconsider(w, Groups))
      BY <2>2, ReconsiderPulls
    <3> QED BY <2>2, <3>1 DEF SamePulls, SameLoads
  <2> HIDE DEF u
  <2> QED BY <2>1, <2>3, StillSources
<1>2. ASSUME NEW p \in Peers, Connects(p) PROVE Pulling'
  <2> DEFINE w == [v EXCEPT !.dials = v.dials \ {p}]
  <2>1. /\ HappensWith(w, quiet, {}) /\ link[p] = "none" /\ link' = [link EXCEPT ![p] = "open"]
        /\ NothingWith(v, p)
    BY <1>2 DEF Connects, Happens
  <2>2. SamePulls(v, w)
    BY DEF SamePulls, SameLoads, Fields, PullFields
  <2>3. p \notin v.connected
    BY <2>1 DEF CallInv
  <2> HIDE DEF w
  <2> QED BY <2>1, <2>2, <2>3, LinkSources
<1>3. ASSUME NEW p \in Peers, PeerConnects(p) PROVE Pulling'
  <2>1. /\ HappensWith(v, quiet, {}) /\ link[p] = "none" /\ link' = [link EXCEPT ![p] = "open"]
        /\ NothingWith(v, p)
    BY <1>3 DEF PeerConnects, Happens
  <2>2. SamePulls(v, v)
    BY DEF SamePulls, SameLoads
  <2>3. p \notin v.connected
    BY <2>1 DEF CallInv
  <2> QED BY <2>1, <2>2, <2>3, LinkSources
<1>4. ASSUME NEW p \in Peers, DialConnects(p) PROVE Pulling'
  <2>1. CASE link[p] = "none"
    BY <1>2, <1>4, <2>1 DEF DialConnects
  <2>2. CASE link[p] # "none"
    <3> DEFINE w == [v EXCEPT !.dials = v.dials \ {p}]
    <3>1. HappensWith(w, quiet, {}) /\ UNCHANGED link
      BY <1>4, <2>2 DEF DialConnects, Happens, Elsewhere
    <3>2. SamePulls(v, w)
      BY DEF SamePulls, SameLoads, Fields, PullFields
    <3> HIDE DEF w
    <3> QED BY <3>1, <3>2, StillSources
  <2> QED BY <2>1, <2>2
<1>5. ASSUME NEW p \in Peers, DialFails(p) PROVE Pulling'
  <2> DEFINE w == [v EXCEPT !.dials = v.dials \ {p}]
             u == DialFailed(w, p)
  <2>1. HappensWith(u, quiet, {}) /\ UNCHANGED link
    BY <1>5 DEF DialFails, Happens, Elsewhere
  <2>2. SamePulls(v, w) /\ Fields \union PullFields \subseteq DOMAIN w
    BY DEF SamePulls, SameLoads, Fields, PullFields
  <2> HIDE DEF w
  <2>3. SamePulls(v, u)
    BY <2>2 DEF DialFailed, SamePulls, SameLoads, Fields, PullFields
  <2> HIDE DEF u
  <2> QED BY <2>1, <2>3, StillSources
<1>6. ASSUME NEW p \in Peers, DialUnaddressed(p) PROVE Pulling'
  <2> DEFINE w == [v EXCEPT !.dials = v.dials \ {p}]
  <2>1. HappensWith(w, quiet, {}) /\ UNCHANGED link
    BY <1>6 DEF DialUnaddressed, Happens
  <2>2. SamePulls(v, w)
    BY DEF SamePulls, SameLoads, Fields, PullFields
  <2> HIDE DEF w
  <2> QED BY <2>1, <2>2, StillSources
<1>7. ASSUME NEW p \in Peers, BecomesReady(p) PROVE Pulling'
  <2>1. HappensWith(Verified(v, p), quiet, {}) /\ link[p] = "open" /\ link' = [link EXCEPT ![p] = "ready"]
    BY <1>7 DEF BecomesReady, Happens
  <2>2. PICK o : o = Opening(link)
    OBVIOUS
  <2>3. p \in o /\ Opening(link') = o \ {p}
    BY <2>1, <2>2 DEF Opening, CallInv
  <2>4. SourcesOK(Verified(v, p), o \ {p})
    BY <2>2, <2>3, VerifiedSources DEF Pulling
  <2> QED BY <2>1, <2>3, <2>4, HappeningSources
<1>8. ASSUME NEW p \in Peers, ClosesUnready(p) PROVE Pulling'
  <2>1. HappensWith(v, quiet, {}) /\ link' = [link EXCEPT ![p] = "none"]
    BY <1>8 DEF ClosesUnready, Happens
  <2>2. SamePulls(v, v)
    BY DEF SamePulls, SameLoads
  <2> QED BY <2>1, <2>2, LinkSources
<1>9. ASSUME NEW p \in Peers, Drops(p) PROVE Pulling'
  <2>1. HappensWith(Gone(v, p), quiet, {}) /\ link' = [link EXCEPT ![p] = "none"]
    BY <1>9 DEF Drops, Happens
  <2>2. SamePulls(v, v)
    BY DEF SamePulls, SameLoads
  <2> QED BY <2>1, <2>2, GoneStill
<1>10. QED
  BY <1>1, <1>3, <1>4, <1>5, <1>6, <1>7, <1>8, <1>9 DEF Network, IdleCloses, ConnectionLost

(***************************************************************************)
(* answers to rounds, refusals, and what a peer asks of us,                *)
(***************************************************************************)
LEMMA RoundsSources ==
  ASSUME Pulling, CallInv, Rounds
  PROVE  Pulling'
<1> USE PullingFields
<1>1. ASSUME NEW p \in Peers, NEW off \in Offering, RoundAnswered(p, off) PROVE Pulling'
  <2> DEFINE w == [v EXCEPT !.rounds = v.rounds \ {<<p, off>>}]
             s == StartRound(w, With(p, "none"))
             a == [s EXCEPT !.retry[p] = Quiet]
             u == Asked(w, p, off)
             read == IF off = "chain" \/ p \in Strangers THEN {}
                     ELSE {<<p, g>> : g \in {h \in Groups : p \in MembersOf[h]}}
             x == [u EXCEPT !.reads = u.reads \union read]
  <2>1. v' = Dispatch(x) /\ UNCHANGED link
    BY <1>1 DEF RoundAnswered, Elsewhere
  <2>2. \/ u = [a EXCEPT !.pending = a.pending \ {p}]
        \/ u = Ask(a, With(p, "catalogue")) \/ u = a
    BY DEF Asked
  <2>3. SamePulls(v, w) /\ Fields \union PullFields \subseteq DOMAIN w
    BY DEF SamePulls, SameLoads, Fields, PullFields
  <2> HIDE DEF w
  <2>4. SamePulls(v, s) /\ Fields \union PullFields \subseteq DOMAIN s
    <3>1. SamePulls(w, s)
      BY <2>3, StartRoundPulls
    <3> QED BY <2>3, <3>1 DEF SamePulls, SameLoads
  <2> HIDE DEF s
  <2>5. SamePulls(v, a) /\ Fields \union PullFields \subseteq DOMAIN a
    BY <2>4 DEF SamePulls, SameLoads, Fields, PullFields
  <2> HIDE DEF a, u, read
  <2>6. SamePulls(v, u)
    <3>1. SamePulls(a, Ask(a, With(p, "catalogue")))
      BY <2>5, AskPulls
    <3> QED BY <2>2, <2>5, <3>1 DEF SamePulls, SameLoads, Fields, PullFields
  <2>7. SameLoads(v, x) /\ x.source = v.source /\ x.again = v.again /\ x.queries = v.queries
    BY <2>6 DEF SamePulls, SameLoads, Fields, PullFields
  <2> HIDE DEF x
  <2>8. Sourced(x, Opening(link), v.connected)
    BY <2>7, SourcesLike DEF Pulling
  <2>9. Sourced(v', Opening(link), v.connected)
    <3>1. SamePulls(x, v')
      BY <2>1, <2>8, DispatchPulls DEF Sourced, SourcesOK, SourcesTyped, CountsOK
    <3> QED BY <2>8, <3>1, SourcesSame DEF Sourced
  <2> QED BY <2>1, <2>9 DEF Pulling, Sourced, Opening
<1>2. ASSUME NEW w, SameLoads(v, w), w.source = v.source, w.again = v.again,
             w.queries = v.queries, NEW p \in Peers, Happens(ArmRetry(w, {p})), UNCHANGED link
      PROVE  Pulling'
  <2>1. PICK u : u = ArmRetry(w, {p})
    OBVIOUS
  <2>2. SourcesOK(w, Opening(link'))
    BY <1>2, SourcesLike DEF Pulling, Sourced
  <2>3. SamePulls(w, u)
    BY <2>1, <2>2, ArmRetryPulls DEF SourcesOK, SourcesTyped, CountsOK
  <2>4. SourcesOK(u, Opening(link'))
    BY <2>2, <2>3, SourcesSame DEF Sourced
  <2> QED BY <1>2, <2>1, <2>4, HappeningSources DEF Happens
<1>3. ASSUME NEW p \in Peers, NEW off \in Offering, RoundFails(p, off) PROVE Pulling'
  <2> DEFINE w == [v EXCEPT !.rounds = v.rounds \ {<<p, off>>}]
  <2>1. Happens(ArmRetry(w, {p})) /\ UNCHANGED link
    BY <1>3 DEF RoundFails, Elsewhere
  <2>2. SameLoads(v, w) /\ w.source = v.source /\ w.again = v.again /\ w.queries = v.queries
    BY DEF SameLoads, Fields, PullFields
  <2> HIDE DEF w
  <2> QED BY <1>2, <2>1, <2>2
<1>4. ASSUME NEW p \in Peers, NEW g \in Groups, ReadFails(p, g) PROVE Pulling'
  <2> DEFINE w == [v EXCEPT !.reads = v.reads \ {<<p, g>>}]
  <2>1. Happens(ArmRetry(w, {p})) /\ UNCHANGED link
    BY <1>4 DEF ReadFails, Elsewhere
  <2>2. SameLoads(v, w) /\ w.source = v.source /\ w.again = v.again /\ w.queries = v.queries
    BY DEF SameLoads, Fields, PullFields
  <2> HIDE DEF w
  <2> QED BY <1>2, <2>1, <2>2
<1>5. ASSUME NEW p \in Peers, NEW g \in Groups, GroupSettles(p, g) PROVE Pulling'
  <2> DEFINE s == Synced(v, p, g)
             w == [s EXCEPT !.reads = v.reads \ {<<p, g>>},
                            !.reconciled = v.reconciled \union {<<p, g>>}]
             u == OpenPull(w, p, g)
  <2>1. HappensWith(u, quiet, {}) /\ UNCHANGED link
    BY <1>5 DEF GroupSettles, Happens, Elsewhere
  <2>2. SamePulls(v, s)
    <3> DEFINE left == v.outstanding \ {<<p, g>>}
               t == [v EXCEPT !.outstanding = left]
               e == StartRound(v, With(p, "none"))
    <3>1. s \in {v, e, t}
      BY DEF Synced
    <3>2. SamePulls(v, t) /\ SamePulls(v, v)
      BY DEF SamePulls, SameLoads, Fields, PullFields
    <3> HIDE DEF t
    <3>3. SamePulls(v, e)
      BY StartRoundPulls
    <3> HIDE DEF e, s
    <3> QED BY <3>1, <3>2, <3>3
  <2> HIDE DEF s
  <2>3. SameLoads(v, w) /\ w.source = v.source /\ w.again = v.again /\ w.queries = v.queries
    BY <2>2 DEF SamePulls, SameLoads, Fields, PullFields
  <2> HIDE DEF w
  <2>4. Sourced(w, Opening(link), v.connected) /\ p \in v.connected
    BY <1>5, <2>3, SourcesLike DEF Pulling, GroupSettles, CallInv
  <2>5. Sourced(u, Opening(link), v.connected)
    <3>1. SourcesOK(w, Opening(link)) /\ p \in w.connected /\ w.connected = v.connected
      BY <2>4 DEF Sourced
    <3>2. PICK y : y = OpenPull(w, p, g)
      OBVIOUS
    <3>3. Sourced(y, Opening(link), w.connected)
      BY <3>1, <3>2, OpenPullSources
    <3> QED BY <3>1, <3>2, <3>3
  <2> HIDE DEF u
  <2> QED BY <2>1, <2>5, HappeningSources DEF Sourced
<1>6. ASSUME NEW p \in Peers, CloseAgreed(p) PROVE Pulling'
  <2> DEFINE w == [v EXCEPT !.closes = v.closes \ {p}, !.closing = v.closing \ {p}]
  <2>1. \/ HappensWith(w, quiet, {}) /\ UNCHANGED link
        \/ HappensWith(Gone(w, p), quiet, {}) /\ link' = [link EXCEPT ![p] = "none"]
    BY <1>6 DEF CloseAgreed, Happens
  <2>2. SamePulls(v, w)
    BY DEF SamePulls, SameLoads, Fields, PullFields
  <2> HIDE DEF w
  <2> QED BY <2>1, <2>2, StillSources, GoneStill
<1>7. ASSUME NEW p \in Peers, CloseRefused(p) PROVE Pulling'
  <2> DEFINE w == [v EXCEPT !.closes = v.closes \ {p}]
  <2>1. HappensWith(w, quiet, {}) /\ UNCHANGED link
    BY <1>7 DEF CloseRefused, Happens, Elsewhere
  <2>2. SamePulls(v, w)
    BY DEF SamePulls, SameLoads, Fields, PullFields
  <2> HIDE DEF w
  <2> QED BY <2>1, <2>2, StillSources
<1> QED BY <1>1, <1>3, <1>4, <1>5, <1>6, <1>7 DEF Rounds

(***************************************************************************)
(* and what the commands and the other nodes change behind the supervisor. *)
(***************************************************************************)
LEMMA UserSources ==
  ASSUME Pulling, CallInv, User
  PROVE  Pulling'
<1> USE PullingFields
<1>1. ASSUME NEW w, SamePulls(v, w), Happens(w), UNCHANGED link PROVE Pulling'
  BY <1>1, StillSources DEF Happens
<1>6. ASSUME NEW w, SameLoads(v, w), w.source = v.source, w.again = v.again,
             w.queries = v.queries, Happens(w), UNCHANGED link
      PROVE  Pulling'
  <2>1. SourcesOK(w, Opening(link'))
    BY <1>6, SourcesLike DEF Pulling, Sourced
  <2> QED BY <1>6, <2>1, HappeningSources DEF Happens
<1>2. ASSUME NEW g \in Groups, NewsMade(g) PROVE Pulling'
  <2> DEFINE w == [v EXCEPT !.news = v.news \union {g}]
  <2>1. SamePulls(v, w)
    BY DEF SamePulls, SameLoads, Fields, PullFields
  <2>2. Happens(w) /\ UNCHANGED link
    BY <1>2 DEF NewsMade, Elsewhere
  <2> HIDE DEF w
  <2> QED BY <1>1, <2>1, <2>2
<1>3. ASSUME NEW f \in Files, FileWanted(f) PROVE Pulling'
  <2> DEFINE w == [v EXCEPT !.missing = v.missing \union {f},
                        !.wanted = v.wanted \union {f[1]}]
  <2>1. SameLoads(v, w) /\ w.source = v.source /\ w.again = v.again /\ w.queries = v.queries
    BY DEF SameLoads, Fields, PullFields
  <2>2. Happens(w) /\ UNCHANGED link
    BY <1>3 DEF FileWanted, Elsewhere
  <2> HIDE DEF w
  <2> QED BY <1>6, <2>1, <2>2
<1>4. ASSUME NEW f \in Files, FileSettled(f) PROVE Pulling'
  <2> DEFINE w == [v EXCEPT !.missing = v.missing \ {f}]
  <2>1. SameLoads(v, w) /\ w.source = v.source /\ w.again = v.again /\ w.queries = v.queries
    BY DEF SameLoads, Fields, PullFields
  <2>2. Happens(w) /\ UNCHANGED link
    BY <1>4 DEF FileSettled
  <2> HIDE DEF w
  <2> QED BY <1>6, <2>1, <2>2
<1>5. ASSUME NEW d \in Spaces, DiskChanges(d) PROVE Pulling'
  <2>1. SamePulls(v, v)
    BY DEF SamePulls, SameLoads
  <2> QED BY <1>1, <1>5, <2>1 DEF DiskChanges
<1> QED BY <1>2, <1>3, <1>4, <1>5 DEF User

(***************************************************************************)
(* Of a group a question about which is open nothing else is under way     *)
(* with the peer: so it is when the question has been answered.            *)
(***************************************************************************)
LEMMA QueryTaken ==
  ASSUME NEW w, NEW o, SourcesOK(w, o), NEW q \in w.queries, q[1] \in w.connected
  PROVE  LET u == [w EXCEPT !.queries = w.queries \ {q}]
         IN  /\ Sourced(u, o, w.connected) /\ q[2] \in Groups /\ u.source[q[2]] = q[1]
             /\ Unasked(u, q[1], q[2]) /\ Unread(u, q[1], q[2]) /\ Unqueued(u, q[1], q[2])
<1> DEFINE u == [w EXCEPT !.queries = w.queries \ {q}]
<1>1. SourcesTyped(w, o) /\ q[1] \in Peers /\ q[2] \in Groups
  BY DEF SourcesOK, SourcesTyped, QueriesOK
<1>2. /\ DOMAIN u = DOMAIN w /\ u.queries = w.queries \ {q}
      /\ \A f \in {"connected", "transfers", "blobs", "queued", "source", "again"} : u[f] = w[f]
  BY <1>1 DEF SourcesTyped, CountsOK, Fields, PullFields
<1> HIDE DEF u
<1>3. Counted(u, o, w.connected)
  BY <1>1, <1>2, CountsSame DEF SourcesTyped, SameLoads
<1>4. SourcesTyped(u, o)
  BY <1>1, <1>2, <1>3 DEF SourcesTyped, Counted
<1>5. QueriesOK(u, o)
  BY <1>2 DEF SourcesOK, QueriesOK
<1>6. ArmedOK(u)
  BY <1>2 DEF SourcesOK, ArmedOK
<1>7. ASSUME NEW r, NEW g, Fetches(w, r, g) PROVE Fetches(u, r, g)
  BY <1>2, <1>7 DEF Fetches, Unasked
<1>8. QueuesOK(u)
  BY <1>2, <1>7 DEF SourcesOK, QueuesOK
<1>9. ReadsOK(u)
  BY <1>2, <1>7 DEF SourcesOK, ReadsOK
<1>10. Sourced(u, o, w.connected)
  BY <1>2, <1>4, <1>5, <1>6, <1>8, <1>9 DEF SourcesOK, Sourced
<1>11. /\ w.source[q[2]] = q[1] /\ ~w.again[<<q[1], q[2]>>].armed
       /\ \A r \in w.queries : r[1] = q[1] /\ r[2] = q[2] => r = q
  BY DEF SourcesOK, QueriesOK
<1>12. u.source[q[2]] = q[1] /\ Unasked(u, q[1], q[2])
  BY <1>2, <1>11 DEF Unasked
<1>13. ~Fetches(w, q[1], q[2])
  BY DEF Fetches, Unasked
<1>14. Unread(u, q[1], q[2])
  BY <1>2, <1>13 DEF SourcesOK, ReadsOK, Unread
<1>15. Unqueued(u, q[1], q[2])
  BY <1>1, <1>2, <1>13 DEF SourcesOK, QueuesOK, Unqueued
<1> QED BY <1>1, <1>10, <1>12, <1>14, <1>15 DEF u

(***************************************************************************)
(* So lists of what peers hold and transfers that end keep the sources in  *)
(* order, as long as none comes after its peer had gone, and no peer is    *)
(* asked for a group a question about which is open.                       *)
(***************************************************************************)
LEMMA ContentSources ==
  ASSUME Pulling, CallInv, Content, spoiled' \intersect {"stray", "twice"} = {}
  PROVE  Pulling'
<1> USE PullingFields
<1>1. ASSUME NEW q \in v.queries, HoldingsRefused(q) PROVE Pulling'
  <2> DEFINE w == [v EXCEPT !.queries = v.queries \ {q}]
             u == Refused(w, q[1], q[2])
  <2>1. HappensWith(u, quiet, {}) /\ UNCHANGED link /\ link[q[1]] = "ready"
    BY <1>1 DEF HoldingsRefused, Happens
  <2>2. SourcesOK(v, Opening(link)) /\ q[1] \in Peers
    BY DEF Pulling, SourcesOK, QueriesOK
  <2>3. q[1] \in v.connected
    BY <2>1, <2>2 DEF CallInv
  <2>4. PICK x : x = v
    OBVIOUS
  <2>5. PICK y : y = w
    OBVIOUS
  <2>6. y = [x EXCEPT !.queries = x.queries \ {q}]
    BY <2>4, <2>5
  <2> HIDE DEF w
  <2>7. /\ Sourced(y, Opening(link), x.connected) /\ q[2] \in Groups /\ y.source[q[2]] = q[1]
        /\ Unasked(y, q[1], q[2]) /\ Unread(y, q[1], q[2]) /\ Unqueued(y, q[1], q[2])
    BY <2>2, <2>3, <2>4, <2>6, QueryTaken
  <2>8. SourcesOK(y, Opening(link)) /\ q[1] \in y.connected
    BY <2>3, <2>4, <2>7 DEF Sourced
  <2>9. PICK z : z = Refused(y, q[1], q[2])
    OBVIOUS
  <2>10. Sourced(z, Opening(link), y.connected)
    BY <2>7, <2>8, <2>9, RefusedSources
  <2> QED BY <2>1, <2>5, <2>9, <2>10, HappeningSources DEF Sourced
<1>2. ASSUME NEW q \in v.queries, NEW held \in SUBSET Paths, HoldingsAnswered(q, held)
      PROVE Pulling'
  <2> DEFINE w == [v EXCEPT !.queries = v.queries \ {q}]
             u == Held(w, q[1], q[2], q[3], held)
  <2>1. HappensWith(u, quiet, {}) /\ UNCHANGED link /\ q[1] \in v.connected
    BY <1>2 DEF HoldingsAnswered, Happens, Elsewhere
  <2>2. SourcesOK(v, Opening(link))
    BY DEF Pulling
  <2>4. PICK x : x = v
    OBVIOUS
  <2>5. PICK y : y = w
    OBVIOUS
  <2>6. y = [x EXCEPT !.queries = x.queries \ {q}]
    BY <2>4, <2>5
  <2> HIDE DEF w
  <2>7. /\ Sourced(y, Opening(link), x.connected) /\ q[2] \in Groups /\ y.source[q[2]] = q[1]
        /\ Unasked(y, q[1], q[2]) /\ Unread(y, q[1], q[2]) /\ Unqueued(y, q[1], q[2])
    BY <2>1, <2>2, <2>4, <2>6, QueryTaken
  <2>8. SourcesOK(y, Opening(link)) /\ q[1] \in y.connected
    BY <2>1, <2>4, <2>7 DEF Sourced
  <2>9. PICK z, paths : z = Held(y, q[1], q[2], paths, held) /\ paths = q[3]
    OBVIOUS
  <2>10. Sourced(z, Opening(link), y.connected)
    BY <2>7, <2>8, <2>9, HeldSources
  <2> QED BY <2>1, <2>5, <2>9, <2>10, HappeningSources DEF Sourced
<1>3. ASSUME NEW b \in v.blobs, NEW w, TransferEnds(w, b[1]), Read(v, w, b)
      PROVE  Pulling'
  <2>1. HappensWith(Freed(w, b[1]), quiet, {}) /\ UNCHANGED link
    BY <1>3 DEF TransferEnds, Happens
  <2>2. link[b[1]] = "ready" /\ ~Twice(w, b[1])
    BY <1>3 DEF TransferEnds
  <2>3. SourcesOK(v, Opening(link)) /\ b[1] \in Peers
    BY DEF Pulling, SourcesOK, SourcesTyped, CountsOK
  <2>4. b[1] \in v.connected
    BY <2>2, <2>3 DEF CallInv
  <2>5. PICK x : x = v
    OBVIOUS
  <2>6. PICK u : u = Freed(w, b[1])
    OBVIOUS
  <2>7. Sourced(u, Opening(link), x.connected)
    BY <1>3, <2>2, <2>3, <2>4, <2>5, <2>6, FreedSources
  <2> QED BY <2>1, <2>6, <2>7, HappeningSources DEF Sourced
<1>4. ASSUME NEW b \in v.blobs, BlobDone(b) PROVE Pulling'
  <2> DEFINE w == [v EXCEPT !.blobs = v.blobs \ {b}, !.missing = v.missing \ {b[2]}]
  <2>1. TransferEnds(w, b[1])
    BY <1>4 DEF BlobDone
  <2>2. Read(v, w, b)
    BY DEF Read, Fields, PullFields
  <2> HIDE DEF w
  <2> QED BY <1>3, <2>1, <2>2
<1>5. ASSUME NEW b \in v.blobs, NEW terminal, BlobFails(b, terminal) PROVE Pulling'
  <2> DEFINE w == [v EXCEPT !.blobs = v.blobs \ {b},
                     !.denied = IF terminal THEN v.denied \union {<<b[1], b[2]>>}
                                ELSE v.denied]
  <2>1. TransferEnds(w, b[1])
    BY <1>5 DEF BlobFails
  <2>2. Read(v, w, b)
    BY DEF Read, Fields, PullFields
  <2> HIDE DEF w
  <2> QED BY <1>3, <2>1, <2>2
<1> QED BY <1>1, <1>2, <1>4, <1>5 DEF Content

-----------------------------------------------------------------------------
(***************************************************************************)
(* Nothing is sourced in the beginning.                                    *)
(***************************************************************************)
LEMMA SourcesStart == Init => Pulling
<1> SUFFICES ASSUME Init PROVE Pulling
  OBVIOUS
<1>1. CountsOK(v, Opening(link))
  BY LoadsStart DEF LoadInv
<1>2. /\ PullFields \subseteq DOMAIN v /\ v.connected = {} /\ v.blobs = {} /\ v.queries = {}
      /\ v.queued = [p \in Peers |-> <<>>] /\ v.source = [g \in Groups |-> Nobody]
      /\ v.again = [x \in Peers \X Groups |-> Quiet]
  BY DEF Init, PullFields
<1>3. SourcesTyped(v, Opening(link))
  BY <1>1, <1>2, QuietRetry DEF SourcesTyped
<1>4. QueriesOK(v, Opening(link)) /\ ArmedOK(v)
  BY <1>2, QuietRetry DEF QueriesOK, ArmedOK
<1>5. QueuesOK(v) /\ ReadsOK(v)
  BY <1>2 DEF QueuesOK, ReadsOK
<1> QED BY <1>3, <1>4, <1>5 DEF Pulling, SourcesOK

(***************************************************************************)
(* The invariant of the pulls: the sources are in order, as long as no     *)
(* answer came after its peer had gone and no peer was asked for a group   *)
(* while a question about it was open.                                     *)
(***************************************************************************)
PullInv == spoiled \intersect {"stray", "twice"} = {} => Pulling

(***************************************************************************)
(* What spoils the sources stays noted.                                    *)
(***************************************************************************)
LEMMA SpoiledStays == [Next]_vars => spoiled \subseteq spoiled'
<1> SUFFICES ASSUME [Next]_vars PROVE spoiled \subseteq spoiled'
  OBVIOUS
<1>1. CASE UNCHANGED vars
  BY <1>1 DEF vars
<1>2. ASSUME NEW t \in Timers, Tick(t) PROVE spoiled \subseteq spoiled'
  BY <1>2 DEF Tick, Elsewhere
<1>3. CASE Network
  BY <1>3 DEF Network, PresenceAnswered, PeerConnects, DialConnects, Connects, DialFails,
              DialUnaddressed, BecomesReady, ClosesUnready, IdleCloses, ConnectionLost,
              Drops, Elsewhere
<1>4. CASE Rounds
  BY <1>4 DEF Rounds, RoundAnswered, RoundFails, GroupSettles, ReadFails, CloseAgreed,
              CloseRefused, Elsewhere
<1>5. CASE Content
  BY <1>5 DEF Content, HoldingsRefused, HoldingsAnswered, BlobDone, BlobFails,
              TransferEnds, Elsewhere
<1>6. CASE User
  BY <1>6 DEF User, NewsMade, FileWanted, FileSettled, DiskChanges, Elsewhere
<1> QED BY <1>1, <1>2, <1>3, <1>4, <1>5, <1>6 DEF Next

(***************************************************************************)
(* Every step keeps the invariant.                                         *)
(***************************************************************************)
LEMMA PullsKeep ==
  ASSUME PullInv, CallInv, [Next]_vars
  PROVE  PullInv'
<1> SUFFICES ASSUME spoiled' \intersect {"stray", "twice"} = {} PROVE Pulling'
  BY DEF PullInv
<1>1. Pulling
  BY SpoiledStays DEF PullInv
<1>2. CASE UNCHANGED vars
  BY <1>1, <1>2 DEF Pulling, Opening, vars
<1>3. ASSUME NEW t \in Timers, Tick(t) PROVE Pulling'
  BY <1>1, <1>3, TickSources
<1> QED BY <1>1, <1>2, <1>3, NetworkSources, RoundsSources, ContentSources, UserSources
        DEF Next

(***************************************************************************)
(* No group is pulled from two peers at once: a connected peer is asked    *)
(* for what it holds, and its bytes are read, only for a group whose       *)
(* source it is, whatever the order in which lists arrive, transfers end,  *)
(* questions are put again and connections break, unless a peer was asked  *)
(* for a group while a question about it was open (Supervisor::open_pull,  *)
(* on_holdings, continue_pull, release_source, resolve_stalled,            *)
(* PeerEvent::Gone).                                                       *)
(***************************************************************************)
THEOREM SourceStaysOne == Spec => []OneSource
<1>1. PullInv /\ CallInv /\ [Next]_vars => PullInv'
  BY PullsKeep
<1>2. PullInv => OneSource
  BY DEF PullInv, Pulling, SourcesOK, QueriesOK, ReadsOK, Fetches, OneSource
<1>3. Init => PullInv
  BY SourcesStart DEF PullInv
<1> QED BY <1>1, <1>2, <1>3, CallsInvariant, PTL DEF Spec

-----------------------------------------------------------------------------
(***************************************************************************)
(* Something moves the pull of g from p: a transfer runs with p, or a file *)
(* of g is queued there, or a question about g is open or to be put again. *)
(***************************************************************************)
Busy(w, p, g) == w.transfers[p] > 0 \/ ~Unqueued(w, p, g) \/ ~Unasked(w, p, g)

(***************************************************************************)
(* Of every source, but for the groups G of p, something moves the pull.   *)
(***************************************************************************)
DrivenBut(w, p, G) ==
  \A h \in Groups : w.source[h] # Nobody /\ ~(w.source[h] = p /\ h \in G)
                    => Busy(w, w.source[h], h)

(***************************************************************************)
(* What is queued at a connected peer can be had from it, and is queued    *)
(* once and not being read; what it is asked for is missing.               *)
(***************************************************************************)
Getting(w) ==
  /\ \A p \in w.connected : OnceQueued(w, p)
  /\ \A p \in w.connected : \A i \in DOMAIN w.queued[p] : Obtainable(w, p, w.queued[p][i])
  /\ \A q \in w.queries : q[1] \in w.connected => \A x \in q[3] : <<q[2], x>> \in w.missing

(***************************************************************************)
(* A source is a connected member of its group; so is a peer whose log of  *)
(* a group is read a member.                                               *)
(***************************************************************************)
Belongs(w) ==
  /\ \A x \in w.reads : x[1] \in MembersOf[x[2]]
  /\ \A h \in Groups : w.source[h] # Nobody
                       => w.source[h] \in w.connected /\ w.source[h] \in MembersOf[h]

Driving(w, o, p, G) ==
  SourcesOK(w, o) /\ DrivenBut(w, p, G) /\ Getting(w) /\ Belongs(w)

(***************************************************************************)
(* So they are, and the connections are those given.                       *)
(***************************************************************************)
Driven(w, o, p, G, connected) == Driving(w, o, p, G) /\ w.connected = connected

(***************************************************************************)
(* What leaves the pulls alone keeps them driven.                          *)
(***************************************************************************)
LEMMA DrivenSame ==
  ASSUME NEW w, NEW u, NEW o, NEW p, NEW G, Driving(w, o, p, G), SamePulls(w, u)
  PROVE  Driven(u, o, p, G, w.connected)
<1>1. /\ SourcesOK(u, o) /\ u.connected = w.connected /\ u.transfers = w.transfers
      /\ u.blobs = w.blobs /\ u.queued = w.queued /\ u.source = w.source
      /\ u.again = w.again /\ u.queries = w.queries /\ u.missing = w.missing
      /\ u.denied = w.denied /\ u.reads = w.reads
  BY SourcesSame DEF Driving, Sourced, SamePulls, SameLoads, PullFields
<1>2. DrivenBut(u, p, G)
  BY <1>1 DEF Driving, DrivenBut, Busy, Unqueued, Unasked
<1>3. Getting(u)
  BY <1>1 DEF Driving, Getting, OnceQueued, Obtainable
<1>4. Belongs(u)
  BY <1>1 DEF Driving, Belongs
<1> QED BY <1>1, <1>2, <1>3, <1>4 DEF Driving, Driven

(***************************************************************************)
(* A change to what is under way with p about g keeps them driven, if g is *)
(* then driven or has no source, and the files of other groups stay queued.*)
(***************************************************************************)
LEMMA BesideDrives ==
  ASSUME NEW w, NEW u, NEW o, NEW p \in w.connected, NEW G, Driving(w, o, p, G), NEW g \in Groups,
         Sourced(u, o, w.connected), Beside(w, u, p, g), OnceQueued(u, p),
         \A h \in Groups \ {g} : ~Unqueued(w, p, h) => ~Unqueued(u, p, h),
         \A q \in u.queries : q[1] = p /\ q[2] = g => \A x \in q[3] : <<g, x>> \in w.missing,
         u.source[g] = Nobody \/ (u.source[g] = p /\ p \in MembersOf[g])
  PROVE  /\ u.source[g] = p => Busy(u, p, g)
         => Driven(u, o, p, G \ {g}, w.connected)
<1> SUFFICES ASSUME u.source[g] = p => Busy(u, p, g)
             PROVE  Driven(u, o, p, G \ {g}, w.connected)
  OBVIOUS
<1>1. /\ SourcesOK(w, o) /\ SourcesOK(u, o) /\ u.connected = w.connected
      /\ p \in Peers /\ w.connected \subseteq Peers
      /\ w.source \in [Groups -> Peers \union {Nobody}]
  BY DEF Driving, Sourced, SourcesOK, SourcesTyped
<1>2. /\ u.transfers = w.transfers /\ u.blobs = w.blobs /\ u.missing = w.missing
      /\ u.denied = w.denied /\ u.reads = w.reads
      /\ \A h \in Groups \ {g} : u.source[h] = w.source[h]
      /\ \A r \in Peers \ {p} : u.queued[r] = w.queued[r]
      /\ \A q : ~(q[1] = p /\ q[2] = g) => (q \in u.queries <=> q \in w.queries)
  BY DEF Beside
<1>3. ASSUME NEW h \in Groups \ {g}, w.source[h] # Nobody, Busy(w, w.source[h], h)
      PROVE  Busy(u, u.source[h], h)
  <2>1. PICK r \in Peers : r = w.source[h] /\ r = u.source[h]
    BY <1>1, <1>2, <1>3
  <2>2. PICK x : x = <<r, h>>
    OBVIOUS
  <2>3. x \in (Peers \X Groups) \ {<<p, g>>}
    BY <2>2
  <2>4. u.again[<<r, h>>] = w.again[<<r, h>>]
    BY <2>2, <2>3 DEF Beside
  <2>5. ~Unqueued(w, r, h) => ~Unqueued(u, r, h)
    <3>1. CASE r = p
      BY <3>1
    <3>2. CASE r # p
      BY <1>2, <3>2 DEF Unqueued
    <3> QED BY <3>1, <3>2
  <2>6. ~Unasked(w, r, h) => ~Unasked(u, r, h)
    <3>1. ASSUME NEW q \in w.queries, q[1] = r, q[2] = h PROVE q \in u.queries
      BY <1>2, <3>1
    <3> QED BY <2>4, <3>1 DEF Unasked
  <2> QED BY <1>2, <1>3, <2>1, <2>5, <2>6 DEF Busy
<1>4. DrivenBut(u, p, G \ {g})
  <2> SUFFICES ASSUME NEW h \in Groups, u.source[h] # Nobody, ~(u.source[h] = p /\ h \in G \ {g})
               PROVE  Busy(u, u.source[h], h)
    BY DEF DrivenBut
  <2>1. CASE h = g
    BY <2>1
  <2>2. CASE h # g
    <3>1. w.source[h] = u.source[h]
      BY <1>2, <2>2
    <3>2. Busy(w, w.source[h], h)
      BY <2>2, <3>1 DEF Driving, DrivenBut
    <3> QED BY <1>3, <2>2, <3>1, <3>2
  <2> QED BY <2>1, <2>2
<1>5. ASSUME NEW r \in w.connected PROVE OnceQueued(u, r)
  <2>1. CASE r = p
    BY <2>1
  <2>2. CASE r # p
    <3>1. u.queued[r] = w.queued[r]
      BY <1>1, <1>2, <2>2
    <3>2. OnceQueued(w, r)
      BY DEF Driving, Getting
    <3> QED BY <1>2, <3>1, <3>2 DEF OnceQueued
  <2> QED BY <2>1, <2>2
<1>6. ASSUME NEW r \in w.connected, NEW i \in DOMAIN u.queued[r]
      PROVE  Obtainable(u, r, u.queued[r][i])
  <2>1. \E j \in DOMAIN w.queued[r] : u.queued[r][i] = w.queued[r][j]
    <3>1. CASE r = p
      BY <3>1 DEF Beside
    <3>2. CASE r # p
      BY <1>1, <1>2, <3>2
    <3> QED BY <3>1, <3>2
  <2>2. Obtainable(w, r, u.queued[r][i])
    BY <2>1 DEF Driving, Getting
  <2> QED BY <1>2, <2>2 DEF Obtainable
<1>7. ASSUME NEW q \in u.queries, q[1] \in w.connected, NEW x \in q[3]
      PROVE  <<q[2], x>> \in u.missing
  <2>1. CASE q[1] = p /\ q[2] = g
    BY <1>2, <2>1
  <2>2. CASE ~(q[1] = p /\ q[2] = g)
    <3>1. q \in w.queries
      BY <1>2, <2>2
    <3> QED BY <1>2, <1>7, <3>1 DEF Driving, Getting
  <2> QED BY <2>1, <2>2
<1>8. Getting(u)
  BY <1>1, <1>5, <1>6, <1>7 DEF Getting
<1>9. Belongs(u)
  <2> SUFFICES ASSUME NEW h \in Groups, u.source[h] # Nobody
               PROVE  u.source[h] \in w.connected /\ u.source[h] \in MembersOf[h]
    BY <1>1, <1>2 DEF Driving, Belongs
  <2>1. CASE h = g
    BY <2>1
  <2>2. CASE h # g
    BY <1>2, <2>2 DEF Driving, Belongs
  <2> QED BY <2>1, <2>2
<1> QED BY <1>1, <1>4, <1>8, <1>9 DEF Driving, Driven

(***************************************************************************)
(* Giving a source up keeps the others driven (spend_peer).                *)
(***************************************************************************)
LEMMA SpendPeerDrives ==
  ASSUME NEW w, NEW o, NEW p \in w.connected, NEW G, Driving(w, o, p, G), NEW g \in Groups,
         w.source[g] = p, Unasked(w, p, g), Unread(w, p, g)
  PROVE  Driven(SpendPeer(w, p, g), o, p, G \ {g}, w.connected)
<1> DEFINE u == SpendPeer(w, p, g)
<1>1. SourcesOK(w, o) /\ SourcesTyped(w, o) /\ p \in Peers
  BY DEF Driving, SourcesOK, SourcesTyped
<1>2. Sourced(u, o, w.connected) /\ Beside(w, u, p, g)
  BY <1>1, SpendPeerSources
<1>3. PICK left, kept :
           /\ DOMAIN u = DOMAIN w
           /\ \A f \in {"connected", "transfers", "blobs", "missing", "denied", "reads",
                        "again", "queries"} : u[f] = w[f]
           /\ u.source = [w.source EXCEPT ![g] = IF w.source[g] = p THEN Nobody
                                                 ELSE w.source[g]]
           /\ u.queued = [w.queued EXCEPT ![p] = left]
           /\ Leaves(w.queued[p], g, left, kept)
  BY <1>1, SpendPeerFields, ZenonT(60)
<1> HIDE DEF u
<1>4. u.queued[p] = left /\ u.source[g] = Nobody
  BY <1>1, <1>3 DEF SourcesTyped, CountsOK
<1>5. OnceQueued(u, p)
  <2>0. OnceQueued(w, p)
    BY DEF Driving, Getting
  <2>1. ASSUME NEW i \in DOMAIN left, NEW j \in DOMAIN left, left[i] = left[j] PROVE i = j
    <3>1. /\ kept[i] \in DOMAIN w.queued[p] /\ kept[j] \in DOMAIN w.queued[p]
          /\ left[i] = w.queued[p][kept[i]] /\ left[j] = w.queued[p][kept[j]]
      BY <1>3 DEF Leaves
    <3>2. kept[i] = kept[j]
      BY <2>0, <2>1, <3>1 DEF OnceQueued
    <3> QED BY <1>3, <3>2 DEF Leaves
  <2>2. ASSUME NEW b \in w.blobs, b[1] = p, NEW i \in DOMAIN left PROVE left[i] # b[2]
    BY <1>3, <2>0, <2>2 DEF Leaves, OnceQueued
  <2> QED BY <1>3, <1>4, <2>0, <2>1, <2>2 DEF OnceQueued
<1>6. ASSUME NEW h \in Groups \ {g}, ~Unqueued(w, p, h) PROVE ~Unqueued(u, p, h)
  <2>1. PICK k \in DOMAIN w.queued[p] : w.queued[p][k][1] = h
    BY <1>6 DEF Unqueued
  <2>2. PICK i \in DOMAIN left : kept[i] = k /\ left[i] = w.queued[p][kept[i]]
    BY <1>3, <2>1 DEF Leaves
  <2> QED BY <1>4, <2>1, <2>2 DEF Unqueued
<1>7. \A q \in u.queries : ~(q[1] = p /\ q[2] = g)
  BY <1>3 DEF Unasked
<1>8. u.source[g] # p
  BY <1>1, <1>4, NobodyElse
<1>9. Driven(u, o, p, G \ {g}, w.connected)
  BY <1>2, <1>4, <1>5, <1>6, <1>7, <1>8, BesideDrives
<1> QED BY <1>9 DEF u

(***************************************************************************)
(* So does asking a source what it holds (ask_holdings): for what is       *)
(* missing, or it is given up.                                             *)
(***************************************************************************)
Asks(w, u, p, g) ==
  \/ u = SpendPeer(w, p, g)
  \/ \E last : \E paths \in SUBSET MissingOf(w, g) :
       u = [w EXCEPT !.asked[<<p, g>>] = last,
                     !.queries = OneMore(w.queries, <<p, g, paths>>)]

(***************************************************************************)
(* for what is missing, or it is given up (the cases);                     *)
(***************************************************************************)
LEMMA AskHoldingsCases ==
  ASSUME NEW w, NEW p, NEW g
  PROVE  Asks(w, AskHoldings(w, p, g), p, g)
<1> DEFINE rest == {x \in MissingOf(w, g) : x > w.asked[<<p, g>>]}
           page(k) == {x \in rest :
                         (Cardinality({y \in rest : y < x}) \div PageSize) = k}
           wanted(k) == {x \in page(k) : <<p, <<g, x>>>> \notin w.denied}
           asked == {k \in 0 .. Cardinality(rest) : wanted(k) # {}}
           k == CHOOSE i \in asked : \A j \in asked : i <= j
           last == CHOOSE x \in page(k) : \A y \in page(k) : y <= x
           u == AskHoldings(w, p, g)
<1>1. u = IF asked = {} THEN SpendPeer(w, p, g)
          ELSE [w EXCEPT !.asked[<<p, g>>] = last,
                         !.queries = OneMore(w.queries, <<p, g, wanted(k)>>)]
  BY DEF AskHoldings
<1>2. wanted(k) \in SUBSET MissingOf(w, g)
  OBVIOUS
<1> HIDE DEF rest, page, wanted, asked, k, last, u
<1>3. Asks(w, u, p, g)
  BY <1>1, <1>2 DEF Asks
<1> QED BY <1>3 DEF u

(***************************************************************************)
(* in either case the others stay driven, and it is.                       *)
(***************************************************************************)
LEMMA AskHoldingsDrives ==
  ASSUME NEW w, NEW o, NEW p \in w.connected, NEW G, Driving(w, o, p, G), NEW g \in Groups,
         w.source[g] = p, Unasked(w, p, g), Unread(w, p, g), Unqueued(w, p, g)
  PROVE  Driven(AskHoldings(w, p, g), o, p, G \ {g}, w.connected)
<1>0. PICK u : u = AskHoldings(w, p, g)
  OBVIOUS
<1>1. SourcesOK(w, o) /\ SourcesTyped(w, o) /\ p \in Peers
  BY DEF Driving, SourcesOK, SourcesTyped
<1>2. Sourced(u, o, w.connected) /\ Beside(w, u, p, g)
  BY <1>0, <1>1, AskHoldingsSources
<1>3. CASE u = SpendPeer(w, p, g)
  <2>1. Driven(SpendPeer(w, p, g), o, p, G \ {g}, w.connected)
    BY SpendPeerDrives
  <2> QED BY <1>0, <1>3, <2>1
<1>4. CASE \E last : \E paths \in SUBSET MissingOf(w, g) :
             u = [w EXCEPT !.asked[<<p, g>>] = last,
                           !.queries = OneMore(w.queries, <<p, g, paths>>)]
  <2>0. PICK last :
          \E paths \in SUBSET MissingOf(w, g) :
             u = [w EXCEPT !.asked[<<p, g>>] = last,
                           !.queries = OneMore(w.queries, <<p, g, paths>>)]
    BY <1>4
  <2>1. PICK paths \in SUBSET MissingOf(w, g) :
          u = [w EXCEPT !.asked[<<p, g>>] = last,
                        !.queries = OneMore(w.queries, <<p, g, paths>>)]
    BY <2>0
  <2>2. PICK q : /\ OneMore(w.queries, <<p, g, paths>>) = w.queries \union {q}
                 /\ q[1] = p /\ q[2] = g /\ q[3] = paths
    BY QueryPut
  <2>3. /\ u.queries = w.queries \union {q} /\ u.source = w.source /\ u.queued = w.queued
        /\ u.blobs = w.blobs
    BY <1>1, <2>1, <2>2 DEF SourcesTyped, CountsOK, Fields, PullFields
  <2>4. OnceQueued(u, p)
    BY <2>3 DEF Driving, Getting, OnceQueued
  <2>5. \A h \in Groups \ {g} : ~Unqueued(w, p, h) => ~Unqueued(u, p, h)
    BY <2>3 DEF Unqueued
  <2>6. ASSUME NEW r \in u.queries, r[1] = p, r[2] = g, NEW x \in r[3]
        PROVE  <<g, x>> \in w.missing
    <3>1. r = q
      BY <2>3, <2>6 DEF Unasked
    <3>2. x \in MissingOf(w, g)
      BY <2>2, <2>6, <3>1
    <3> QED BY <3>2 DEF MissingOf
  <2>7. u.source[g] = p /\ p \in MembersOf[g]
    BY <1>1, <2>3, NobodyElse DEF Driving, Belongs
  <2>8. Busy(u, p, g)
    BY <2>2, <2>3 DEF Busy, Unasked
  <2> QED BY <1>0, <1>2, <2>4, <2>5, <2>6, <2>7, <2>8, BesideDrives
<1>5. \/ u = SpendPeer(w, p, g)
      \/ \E last : \E paths \in SUBSET MissingOf(w, g) :
           u = [w EXCEPT !.asked[<<p, g>>] = last,
                         !.queries = OneMore(w.queries, <<p, g, paths>>)]
  <2>1. Asks(w, u, p, g)
    BY <1>0, AskHoldingsCases
  <2> QED BY <2>1 DEF Asks
<1> QED BY <1>3, <1>4, <1>5

-----------------------------------------------------------------------------
(***************************************************************************)
(* A group that is claimed for a connected member is driven once that      *)
(* member is asked about it (open_pull).                                   *)
(***************************************************************************)
LEMMA ClaimDrives ==
  ASSUME NEW w, NEW o, NEW p \in w.connected, NEW G, Driving(w, o, p, G), NEW g \in Groups,
         p \in MembersOf[g], w.source[g] = Nobody,
         NEW a, a = [w EXCEPT !.source[g] = p]
  PROVE  Driven(a, o, p, G \union {g}, w.connected)
<1>1. /\ SourcesOK(w, o) /\ SourcesTyped(w, o)
      /\ w.source \in [Groups -> Peers \union {Nobody}]
  BY DEF Driving, SourcesOK, SourcesTyped
<1>2. Sourced(a, o, w.connected)
  BY <1>1, ClaimSources
<1>3. /\ \A f \in {"transfers", "blobs", "missing", "denied", "reads",
                   "again", "queries", "queued"} : a[f] = w[f]
      /\ a.source = [w.source EXCEPT ![g] = p]
  BY <1>1 DEF SourcesTyped, CountsOK, Fields, PullFields
<1>4. \A h \in Groups : a.source[h] = IF h = g THEN p ELSE w.source[h]
  BY <1>1, <1>3
<1>5. DrivenBut(a, p, G \union {g})
  BY <1>3, <1>4 DEF Driving, DrivenBut, Busy, Unqueued, Unasked
<1>6. Getting(a)
  BY <1>2, <1>3 DEF Driving, Getting, OnceQueued, Obtainable, Sourced
<1>7. Belongs(a)
  BY <1>2, <1>3, <1>4 DEF Driving, Belongs, Sourced
<1> QED BY <1>2, <1>5, <1>6, <1>7 DEF Driving, Driven, Sourced

(***************************************************************************)
(* So a pull that is opened is driven.                                     *)
(***************************************************************************)
LEMMA OpenPullDrives ==
  ASSUME NEW w, NEW o, NEW p \in w.connected, NEW G, Driving(w, o, p, G), NEW g \in Groups,
         p \in MembersOf[g]
  PROVE  Driven(OpenPull(w, p, g), o, p, G, w.connected)
<1> DEFINE a == [w EXCEPT !.source[g] = p]
           u == OpenPull(w, p, g)
<1>1. u = w \/ (w.source[g] = Nobody /\ u = AskHoldings(a, p, g))
  BY DEF OpenPull
<1>2. CASE u = w
  BY <1>2 DEF Driven
<1>3. CASE w.source[g] = Nobody /\ u = AskHoldings(a, p, g)
  <2>1. /\ Sourced(a, o, w.connected) /\ a.source[g] = p
        /\ Unasked(a, p, g) /\ Unread(a, p, g) /\ Unqueued(a, p, g)
    BY <1>3, ClaimSources DEF Driving
  <2>2. Driven(a, o, p, G \union {g}, w.connected)
    BY <1>3, ClaimDrives
  <2> HIDE DEF a, u
  <2>3. Driving(a, o, p, G \union {g}) /\ a.connected = w.connected /\ p \in a.connected
    BY <2>2 DEF Driven
  <2>4. Driven(AskHoldings(a, p, g), o, p, (G \union {g}) \ {g}, a.connected)
    BY <2>1, <2>3, AskHoldingsDrives
  <2>5. Driven(u, o, p, G, w.connected)
    BY <1>3, <2>3, <2>4 DEF Driven, Driving, DrivenBut
  <2> QED BY <2>5 DEF u
<1> HIDE DEF a
<1> QED BY <1>1, <1>2, <1>3

(***************************************************************************)
(* So does turning a page, under the conditions in which a page is turned, *)
(***************************************************************************)
LEMMA NextPageDrives ==
  ASSUME NEW w, NEW o, NEW p \in w.connected, NEW G, Driving(w, o, p, G), NEW g \in Groups,
         w.source[g] = p => Unasked(w, p, g), Unread(w, p, g), Unqueued(w, p, g)
  PROVE  Driven(NextPage(w, p, g), o, p, G \ {g}, w.connected)
<1>1. PICK u : u = NextPage(w, p, g)
  OBVIOUS
<1>2. \/ u = w /\ p \notin MembersOf[g]
      \/ w.source[g] = p /\ u = AskHoldings(w, p, g)
      \/ p \in MembersOf[g] /\ w.source[g] # p /\ u = OpenPull(w, p, g)
  BY <1>1 DEF NextPage
<1>3. CASE u = w /\ p \notin MembersOf[g]
  <2>1. w.source[g] # p
    BY <1>3, NobodyElse DEF Driving, Belongs, SourcesOK, SourcesTyped
  <2>2. DrivenBut(w, p, G \ {g})
    BY <2>1 DEF Driving, DrivenBut
  <2> QED BY <1>1, <1>3, <2>2 DEF Driving, Driven
<1>4. CASE w.source[g] = p /\ u = AskHoldings(w, p, g)
  BY <1>1, <1>4, AskHoldingsDrives
<1>5. CASE p \in MembersOf[g] /\ w.source[g] # p /\ u = OpenPull(w, p, g)
  <2>1. DrivenBut(w, p, G \ {g})
    BY <1>5 DEF Driving, DrivenBut
  <2>2. Driving(w, o, p, G \ {g})
    BY <2>1 DEF Driving
  <2> QED BY <1>1, <1>5, <2>2, OpenPullDrives
<1> QED BY <1>2, <1>3, <1>4, <1>5

(***************************************************************************)
(* and turning those of all groups: none is then left behind.              *)
(***************************************************************************)
LEMMA NextPagesDrives ==
  ASSUME NEW w, NEW o, NEW p \in w.connected, Driving(w, o, p, Groups),
         DOMAIN w.queued[p] = {}, \A b \in w.blobs : b[1] # p,
         \A g \in Groups : w.source[g] = p /\ p \in MembersOf[g] => Unasked(w, p, g)
  PROVE  Driven(NextPages(w, p, InOrder(Groups)), o, p, {}, w.connected)
<1> DEFINE seq == InOrder(Groups)
           n == Cardinality(Groups)
<1>1. /\ n \in Nat /\ Len(seq) = n
      /\ \A i \in 1 .. n : seq[i] \in Groups
      /\ \A i, j \in 1 .. n : seq[i] = seq[j] => i = j
      /\ \A g \in Groups : \E i \in 1 .. n : seq[i] = g
  <2>1. Groups \in SUBSET Nat /\ IsFiniteSet(Groups)
    BY SupervisorAssumption DEF SupervisorAssumption
  <2> QED BY <2>1, InOrderLists
<1> HIDE DEF seq, n
<1>0. Len(seq) \in Nat
  BY <1>1
<1>2. PICK run : /\ run[0] = w
                 /\ \A i \in 1 .. Len(seq) : run[i] = NextPage(run[i - 1], p, seq[i])
                 /\ NextPages(w, p, seq) = run[Len(seq)]
  BY <1>0, NextPagesRun
<1> DEFINE Left(i) == {seq[j] : j \in i + 1 .. n}
           Good(x, i) ==
             /\ Driven(x, o, p, Left(i), w.connected)
             /\ DOMAIN x.queued[p] = {} /\ \A b \in x.blobs : b[1] # p
             /\ \A j \in i + 1 .. n : x.source[seq[j]] = p /\ p \in MembersOf[seq[j]]
                                        => Unasked(x, p, seq[j])
           T == {i \in 0 .. n : Good(run[i], i)}
<1>3. 0 \in T
  <2>1. Groups \subseteq Left(0) /\ Left(0) \subseteq Groups
    BY <1>1
  <2>2. Left(0) = Groups
    BY <2>1
  <2>3. Good(w, 0)
    <3> HIDE DEF Left
    <3> QED BY <1>1, <2>2 DEF Driven
  <2> HIDE DEF Good
  <2> QED BY <1>1, <1>2, <2>3
<1>4. ASSUME NEW i \in 1 .. n, i - 1 \in T PROVE i \in T
  <2> DEFINE x == run[i - 1]
             g == seq[i]
             y == NextPage(x, p, g)
  <2>1. Good(x, i - 1)
    BY <1>4
  <2>2. i \in (i - 1) + 1 .. n /\ g \in Groups /\ run[i] = y
    BY <1>1, <1>2
  <2>3. /\ Driving(x, o, p, Left(i - 1)) /\ x.connected = w.connected /\ p \in x.connected
        /\ Unread(x, p, g) /\ Unqueued(x, p, g)
        /\ x.source[g] = p /\ p \in MembersOf[g] => Unasked(x, p, g)
    <3> HIDE DEF Left
    <3> QED BY <2>1, <2>2 DEF Driven, Unread, Unqueued
  <2>4. /\ SourcesOK(x, o) /\ p \in Peers
        /\ x.source[g] = p => Unasked(x, p, g)
    BY <2>2, <2>3, NobodyElse DEF Driving, Belongs, SourcesOK, SourcesTyped
  <2>5. Driven(y, o, p, Left(i - 1) \ {g}, x.connected) /\ Beside(x, y, p, g)
    <3> HIDE DEF x, g, Left
    <3>1. Driven(y, o, p, Left(i - 1) \ {g}, x.connected)
      BY <2>2, <2>3, <2>4, NextPageDrives
    <3>2. LET z == NextPage(x, p, g) IN Sourced(z, o, x.connected) /\ Beside(x, z, p, g)
      BY <2>2, <2>3, <2>4, NextPageSources
    <3> QED BY <3>1, <3>2
  <2> HIDE DEF y, x
  <2>6. DOMAIN y.queued[p] = {} /\ \A b \in y.blobs : b[1] # p
    BY <2>1, <2>5 DEF Beside
  <2>7. ASSUME NEW j \in i + 1 .. n, y.source[seq[j]] = p, p \in MembersOf[seq[j]]
        PROVE  Unasked(y, p, seq[j])
    <3>1. j \in 1 .. n /\ j # i /\ j \in (i - 1) + 1 .. n
      BY <1>1
    <3>2. seq[j] # g /\ seq[j] \in Groups
      BY <1>1, <3>1
    <3>3. x.source[seq[j]] = p
      BY <2>5, <2>7, <3>2 DEF Beside
    <3>4. Unasked(x, p, seq[j])
      BY <2>1, <2>7, <3>1, <3>3
    <3> HIDE DEF g
    <3> QED BY <2>4, <2>5, <3>2, <3>4 DEF Beside, Unasked
  <2>8. Driven(y, o, p, Left(i), w.connected)
    <3>1. ASSUME NEW h \in Left(i - 1) \ {g} PROVE h \in Left(i)
      <4>1. PICK j \in (i - 1) + 1 .. n : h = seq[j]
        BY <3>1
      <4>2. j # i
        BY <3>1, <4>1
      <4>3. j \in i + 1 .. n
        BY <1>1, <4>1, <4>2
      <4> QED BY <4>1, <4>3
    <3> HIDE DEF Left
    <3> QED BY <2>3, <2>5, <3>1 DEF Driven, Driving, DrivenBut
  <2>9. Good(y, i)
    <3> HIDE DEF Left
    <3> QED BY <2>6, <2>7, <2>8
  <2> HIDE DEF Good
  <2> QED BY <2>2, <2>9
<1> HIDE DEF T, Good
<1>5. n \in T
  <2>1. 0 .. n \subseteq T
    BY <1>1, <1>3, <1>4, UpTo
  <2> QED BY <1>1, <2>1
<1>6. Good(run[n], n)
  BY <1>5 DEF T
<1>7. Driven(run[n], o, p, {}, w.connected)
  <2>1. Left(n) = {}
    <3>1. n + 1 .. n = {}
      BY <1>1
    <3> QED BY <3>1
  <2> HIDE DEF Left
  <2> QED BY <1>6, <2>1 DEF Good
<1> QED BY <1>1, <1>2, <1>7 DEF seq

(***************************************************************************)
(* When no group is left behind it does not matter whose were.             *)
(***************************************************************************)
LEMMA DrivenAll ==
  ASSUME NEW w, NEW o, NEW p, NEW r, Driving(w, o, p, {})
  PROVE  Driving(w, o, r, {})
  BY DEF Driving, DrivenBut

(***************************************************************************)
(* Giving a group a source keeps all of them driven (content_pulls),       *)
(***************************************************************************)
LEMMA PullForDrives ==
  ASSUME NEW w, NEW o, Driving(w, o, Nobody, {}), NEW g \in Groups
  PROVE  Driven(PullFor(w, g), o, Nobody, {}, w.connected)
<1> DEFINE usable == {p \in MembersOf[g] : p \in w.connected /\ <<p, g>> \notin w.spent}
           ready == {p \in usable : <<p, g>> \in w.reconciled}
<1>0. /\ SourcesOK(w, o) /\ SourcesTyped(w, o) /\ Fields \union PullFields \subseteq DOMAIN w
  BY DEF Driving, SourcesOK, SourcesTyped, CountsOK
<1>1. \/ PullFor(w, g) = w
      \/ w.source[g] = Nobody /\ PullFor(w, g) = ExhaustGroup(w, g)
      \/ ready # {} /\ PullFor(w, g) = OpenPull(w, InOrder(ready)[1], g)
      \/ \E p, turn : PullFor(w, g) = Dial([w EXCEPT !.turn[g] = turn], p)
  BY DEF PullFor
<1>2. CASE PullFor(w, g) = w
  BY <1>2 DEF Driven
<1>3. CASE w.source[g] = Nobody /\ PullFor(w, g) = ExhaustGroup(w, g)
  <2>1. SamePulls(w, ExhaustGroup(w, g))
    <3>1. [w.source EXCEPT ![g] = Nobody] = w.source
      BY <1>0, <1>3 DEF SourcesTyped
    <3> QED BY <1>0, <3>1 DEF ExhaustGroup, SamePulls, SameLoads, Fields, PullFields
  <2> QED BY <1>3, <2>1, DrivenSame
<1>4. CASE ready # {} /\ PullFor(w, g) = OpenPull(w, InOrder(ready)[1], g)
  <2> DEFINE p == InOrder(ready)[1]
  <2>1. ready \in SUBSET Peers /\ ready \in SUBSET w.connected /\ ready \in SUBSET MembersOf[g]
    BY <1>0 DEF SourcesTyped
  <2>2. ready \in SUBSET Nat /\ IsFiniteSet(ready)
    BY <2>1, FS_Subset, SupervisorAssumption DEF SupervisorAssumption
  <2> HIDE DEF ready
  <2>3. Cardinality(ready) \in Nat /\ Cardinality(ready) # 0
    BY <1>4, <2>2, FS_CardinalityType, FS_EmptySet
  <2>4. 1 \in 1 .. Cardinality(ready)
    BY <2>3
  <2>5. p \in w.connected /\ p \in MembersOf[g]
    BY <2>1, <2>2, <2>4, InOrderLists
  <2> HIDE DEF p
  <2>6. Driving(w, o, p, {})
    BY DrivenAll
  <2>7. Driven(OpenPull(w, p, g), o, p, {}, w.connected)
    BY <2>5, <2>6, OpenPullDrives
  <2>8. Driven(OpenPull(w, p, g), o, Nobody, {}, w.connected)
    BY <2>7, DrivenAll DEF Driven
  <2> QED BY <1>4, <2>8 DEF p
<1>5. CASE \E p, turn : PullFor(w, g) = Dial([w EXCEPT !.turn[g] = turn], p)
  <2>1. PICK p, turn : PullFor(w, g) = Dial([w EXCEPT !.turn[g] = turn], p)
    BY <1>5
  <2> DEFINE a == [w EXCEPT !.turn[g] = turn]
  <2>2. SamePulls(w, a) /\ Fields \union PullFields \subseteq DOMAIN a
    BY <1>0 DEF SamePulls, SameLoads, Fields, PullFields
  <2> HIDE DEF a
  <2>3. SamePulls(w, Dial(a, p))
    BY <2>2, DialPulls, PullsTransitive
  <2>4. Driven(Dial(a, p), o, Nobody, {}, w.connected)
    BY <2>3, DrivenSame
  <2> QED BY <2>1, <2>4 DEF a
<1> QED BY <1>1, <1>2, <1>3, <1>4, <1>5

(***************************************************************************)
(* and so does giving each one in turn.                                    *)
(***************************************************************************)
LEMMA PullsDrives ==
  ASSUME NEW w, NEW o, Driving(w, o, Nobody, {}), NEW seq, Len(seq) \in Nat,
         \A i \in 1 .. Len(seq) : seq[i] \in Groups
  PROVE  Driven(Pulls(w, seq), o, Nobody, {}, w.connected)
<1>1. PICK run : /\ run[0] = w
                 /\ \A i \in 1 .. Len(seq) : run[i] = PullFor(run[i - 1], seq[i])
                 /\ Pulls(w, seq) = run[Len(seq)]
  BY PullsRun
<1> DEFINE T == {i \in 0 .. Len(seq) : Driven(run[i], o, Nobody, {}, w.connected)}
<1>2. 0 \in T
  BY <1>1 DEF Driven
<1>3. ASSUME NEW i \in 1 .. Len(seq), i - 1 \in T PROVE i \in T
  <2>1. Driving(run[i - 1], o, Nobody, {}) /\ run[i - 1].connected = w.connected
    BY <1>3 DEF Driven
  <2>2. Driven(run[i], o, Nobody, {}, run[i - 1].connected)
    BY <1>1, <2>1, PullForDrives
  <2> QED BY <2>1, <2>2
<1> HIDE DEF T
<1>4. Len(seq) \in T
  <2>1. 0 .. Len(seq) \subseteq T
    BY <1>2, <1>3, UpTo
  <2> QED BY <2>1
<1> QED BY <1>1, <1>4 DEF T

(***************************************************************************)
(* What is noted about a question to be put again concerns its group alone.*)
(***************************************************************************)
LEMMA AgainDrives ==
  ASSUME NEW w, NEW o, NEW p \in w.connected, NEW G, Driving(w, o, p, G), NEW g \in Groups,
         NEW r \in Retry, NEW a, a = [w EXCEPT !.again[<<p, g>>] = r],
         Sourced(a, o, w.connected)
  PROVE  Driven(a, o, p, G \union {g}, w.connected)
<1>1. SourcesTyped(w, o) /\ p \in Peers /\ w.source \in [Groups -> Peers \union {Nobody}]
  BY DEF Driving, SourcesOK, SourcesTyped
<1>2. /\ \A f \in {"connected", "transfers", "blobs", "queued", "missing", "denied", "reads",
                   "source", "queries"} : a[f] = w[f]
      /\ \A x \in (Peers \X Groups) \ {<<p, g>>} : a.again[x] = w.again[x]
  BY <1>1, AgainFields
<1>3. DrivenBut(a, p, G \union {g})
  <2> SUFFICES ASSUME NEW h \in Groups, w.source[h] # Nobody,
                      ~(w.source[h] = p /\ h \in G \union {g})
               PROVE  Busy(a, w.source[h], h)
    BY <1>2 DEF DrivenBut
  <2>1. PICK x : x = <<w.source[h], h>>
    OBVIOUS
  <2>2. x \in (Peers \X Groups) \ {<<p, g>>}
    BY <1>1, <2>1
  <2>3. a.again[<<w.source[h], h>>] = w.again[<<w.source[h], h>>]
    BY <1>2, <2>1, <2>2
  <2>4. Busy(w, w.source[h], h)
    BY DEF Driving, DrivenBut
  <2> QED BY <1>2, <2>3, <2>4 DEF Busy, Unqueued, Unasked
<1>4. Getting(a)
  BY <1>2 DEF Driving, Getting, OnceQueued, Obtainable
<1>5. Belongs(a)
  BY <1>2 DEF Driving, Belongs
<1> QED BY <1>3, <1>4, <1>5 DEF Driving, Driven, Sourced

(***************************************************************************)
(* Putting a question again keeps all groups driven,                       *)
(***************************************************************************)
LEMMA RequeryDrives ==
  ASSUME NEW w, NEW o, Driving(w, o, Nobody, {}), NEW x \in Peers \X Groups
  PROVE  Driven(Requery(w, x), o, Nobody, {}, w.connected)
<1>0. SourcesOK(w, o)
  BY DEF Driving
<1>1. PICK u : u = Requery(w, x)
  OBVIOUS
<1>2. PICK a : \E p \in Peers, g \in Groups : Requeried(w, u, a, p, g)
  BY <1>0, <1>1, RequeryCases DEF SourcesOK
<1>3. PICK p \in Peers, g \in Groups : Requeried(w, u, a, p, g)
  BY <1>2
<1>4. CASE u = w
  BY <1>1, <1>4 DEF Driven
<1>5. CASE u # w
  <2>1. PICK r \in Retry :
          /\ p \in w.connected /\ w.again[<<p, g>>].armed /\ ~r.armed
          /\ a = [w EXCEPT !.again[<<p, g>>] = r] /\ u = AskHoldings(a, p, g)
    BY <1>3, <1>5 DEF Requeried
  <2>2. /\ Sourced(a, o, w.connected) /\ p \in a.connected /\ a.source[g] = p
        /\ Unasked(a, p, g) /\ Unread(a, p, g) /\ Unqueued(a, p, g)
    BY <1>0, <2>1, ArmedAlone
  <2>3. Driving(w, o, p, {})
    BY DrivenAll
  <2>4. Driven(a, o, p, {} \union {g}, w.connected)
    BY <2>1, <2>2, <2>3, AgainDrives
  <2>5. Driving(a, o, p, {g}) /\ a.connected = w.connected
    BY <2>4 DEF Driven, Driving, DrivenBut
  <2>6. Driven(u, o, p, {g} \ {g}, a.connected)
    BY <2>1, <2>2, <2>5, AskHoldingsDrives
  <2>7. Driving(u, o, p, {}) /\ u.connected = w.connected
    BY <2>5, <2>6 DEF Driven, Driving, DrivenBut
  <2> QED BY <1>1, <2>7, DrivenAll DEF Driven
<1> QED BY <1>4, <1>5

(***************************************************************************)
(* and so does putting several again.                                      *)
(***************************************************************************)
LEMMA RequeriesDrives ==
  ASSUME NEW w, NEW o, Driving(w, o, Nobody, {}), NEW seq, Len(seq) \in Nat,
         \A i \in 1 .. Len(seq) : seq[i] \in Peers \X Groups
  PROVE  Driven(Requeries(w, seq), o, Nobody, {}, w.connected)
<1>1. PICK run : /\ run[0] = w
                 /\ \A i \in 1 .. Len(seq) : run[i] = Requery(run[i - 1], seq[i])
                 /\ Requeries(w, seq) = run[Len(seq)]
  BY RequeriesRun
<1> DEFINE T == {i \in 0 .. Len(seq) : Driven(run[i], o, Nobody, {}, w.connected)}
<1>2. 0 \in T
  BY <1>1 DEF Driven
<1>3. ASSUME NEW i \in 1 .. Len(seq), i - 1 \in T PROVE i \in T
  <2>1. Driving(run[i - 1], o, Nobody, {}) /\ run[i - 1].connected = w.connected
    BY <1>3 DEF Driven
  <2>2. Driven(run[i], o, Nobody, {}, run[i - 1].connected)
    BY <1>1, <2>1, RequeryDrives
  <2> QED BY <2>1, <2>2
<1> HIDE DEF T
<1>4. Len(seq) \in T
  <2>1. 0 .. Len(seq) \subseteq T
    BY <1>2, <1>3, UpTo
  <2> QED BY <2>1
<1> QED BY <1>1, <1>4 DEF T

(***************************************************************************)
(* and so does all that is asked again (retries).                          *)
(***************************************************************************)
LEMMA RetriesDrives ==
  ASSUME NEW w, NEW o, Driving(w, o, Nobody, {}), NEW armed,
         NEW queries \in SUBSET (Peers \X Groups)
  PROVE  Driven(Retries(w, armed, queries), o, Nobody, {}, w.connected)
<1> DEFINE again == {p \in armed \intersect w.connected :
                       w.started[p] = "none" /\ w.retry[p].armed}
           put == [w EXCEPT !.retry = [p \in Peers |->
                     IF p \in again THEN [w.retry[p] EXCEPT !.armed = FALSE]
                     ELSE w.retry[p]]]
           a == Ask(put, [p \in again |-> w.retry[p].of])
           u == Retries(w, armed, queries)
           seq == SetToSeq(queries)
<1>1. u = Requeries(a, seq)
  BY DEF Retries
<1>2. SamePulls(w, put)
  BY DEF Driving, SourcesOK, SourcesTyped, CountsOK, SamePulls, SameLoads, Fields, PullFields
<1> HIDE DEF put
<1>3. SamePulls(put, a)
  <2> PICK which : which = [p \in again |-> w.retry[p].of]
    OBVIOUS
  <2> HIDE DEF again
  <2> QED BY <1>2, AskPulls DEF SamePulls, SameLoads
<1> HIDE DEF a, u, seq
<1>4. Driven(a, o, Nobody, {}, w.connected)
  <2>1. SamePulls(w, a)
    BY <1>2, <1>3, PullsTransitive
  <2> QED BY <2>1, DrivenSame
<1>5. IsFiniteSet(queries)
  <2>1. IsFiniteSet(Peers \X Groups)
    BY FS_Product, SupervisorAssumption DEF SupervisorAssumption
  <2> QED BY <2>1, FS_Subset
<1>6. Len(seq) \in Nat /\ \A i \in 1 .. Len(seq) : seq[i] \in Peers \X Groups
  BY <1>5, SetToSeqLength, SetToSeqElements DEF seq
<1>7. Driving(a, o, Nobody, {}) /\ a.connected = w.connected
  BY <1>4 DEF Driven
<1>8. Driven(u, o, Nobody, {}, w.connected)
  BY <1>1, <1>6, <1>7, RequeriesDrives
<1> QED BY <1>8 DEF u

-----------------------------------------------------------------------------
(***************************************************************************)
(* Starting what is queued keeps groups driven (pump): what is not started *)
(* stays queued, since all that is queued can be had.                      *)
(***************************************************************************)
LEMMA PumpDrives ==
  ASSUME NEW w, NEW o, NEW p \in w.connected, NEW G, Driving(w, o, p, G),
         NEW u, u = Pump(w, p)
  PROVE  Driven(u, o, p, G, w.connected) /\ Pumped(w, u, p)
<1>1. /\ SourcesOK(w, o) /\ p \in Peers /\ CountsOK(w, o) /\ w.connected \subseteq Peers
      /\ Fields \union PullFields \subseteq DOMAIN w
      /\ w.source \in [Groups -> Peers \union {Nobody}]
  BY DEF Driving, SourcesOK, SourcesTyped, CountsOK
<1>2. Pumped(w, u, p) /\ Sourced(u, o, w.connected)
  BY <1>1, PumpTakes, PumpSources
<1>3. /\ u.source = w.source /\ u.again = w.again /\ u.queries = w.queries
      /\ u.missing = w.missing /\ u.denied = w.denied /\ u.reads = w.reads
      /\ \A r \in Peers \ {p} : u.queued[r] = w.queued[r] /\ u.transfers[r] = w.transfers[r]
      /\ u.transfers[p] >= w.transfers[p]
  BY <1>2 DEF Pumped
<1>4. u.transfers[p] \in Nat /\ w.transfers[p] \in Nat
  BY <1>1, <1>2 DEF Sourced, SourcesOK, SourcesTyped, CountsOK
<1>5. \A k \in DOMAIN w.queued[p] : Obtainable(w, p, w.queued[p][k])
  BY DEF Driving, Getting
<1>6. ASSUME NEW h \in Groups, Busy(w, p, h) PROVE Busy(u, p, h)
  <2>1. CASE u.transfers[p] > 0
    BY <2>1 DEF Busy
  <2>2. CASE u.transfers[p] = 0
    <3>1. \A k \in DOMAIN w.queued[p] : \E j \in DOMAIN u.queued[p] :
            u.queued[p][j] = w.queued[p][k]
      BY <1>2, <1>5, <2>2 DEF Pumped
    <3>2. ~Unqueued(w, p, h) => ~Unqueued(u, p, h)
      BY <3>1 DEF Unqueued
    <3>3. ~Unasked(w, p, h) => ~Unasked(u, p, h)
      BY <1>3 DEF Unasked
    <3>4. ~(w.transfers[p] > 0)
      BY <1>3, <1>4, <2>2
    <3> QED BY <1>6, <3>2, <3>3, <3>4 DEF Busy
  <2> QED BY <1>4, <2>1, <2>2
<1>7. ASSUME NEW r \in Peers \ {p}, NEW h \in Groups, Busy(w, r, h) PROVE Busy(u, r, h)
  BY <1>3, <1>7 DEF Busy, Unqueued, Unasked
<1>8. DrivenBut(u, p, G)
  <2> SUFFICES ASSUME NEW h \in Groups, w.source[h] # Nobody, ~(w.source[h] = p /\ h \in G)
               PROVE  Busy(u, w.source[h], h)
    BY <1>3 DEF DrivenBut
  <2>1. Busy(w, w.source[h], h) /\ w.source[h] \in Peers
    BY <1>1 DEF Driving, DrivenBut
  <2> QED BY <1>6, <1>7, <2>1
<1>9. ASSUME NEW r \in w.connected PROVE OnceQueued(u, r)
  <2>1. OnceQueued(w, r)
    BY DEF Driving, Getting
  <2>2. CASE r = p
    BY <1>2, <2>1, <2>2 DEF Pumped
  <2>3. CASE r # p
    <3>1. u.queued[r] = w.queued[r]
      BY <1>1, <1>3, <2>3
    <3>2. \A b \in u.blobs : b[1] = r => b \in w.blobs
      BY <1>2, <2>3 DEF Pumped
    <3> QED BY <2>1, <3>1, <3>2 DEF OnceQueued, OnceRead
  <2> QED BY <2>2, <2>3
<1>10. ASSUME NEW r \in w.connected, NEW i \in DOMAIN u.queued[r]
       PROVE  Obtainable(u, r, u.queued[r][i])
  <2>1. \E j \in DOMAIN w.queued[r] : u.queued[r][i] = w.queued[r][j]
    <3>1. CASE r = p
      BY <1>2, <3>1 DEF Pumped
    <3>2. CASE r # p
      BY <1>1, <1>3, <3>2
    <3> QED BY <3>1, <3>2
  <2>2. Obtainable(w, r, u.queued[r][i])
    BY <2>1 DEF Driving, Getting
  <2> QED BY <1>3, <2>2 DEF Obtainable
<1>11. u.connected = w.connected
  BY <1>2 DEF Sourced
<1>12. Getting(u)
  <2>1. \A q \in u.queries : q[1] \in u.connected => \A x \in q[3] : <<q[2], x>> \in u.missing
    BY <1>3, <1>11 DEF Driving, Getting
  <2> QED BY <1>9, <1>10, <1>11, <2>1 DEF Getting
<1>13. Belongs(u)
  BY <1>3, <1>11 DEF Driving, Belongs
<1> QED BY <1>2, <1>8, <1>12, <1>13 DEF Driving, Driven, Sourced

(***************************************************************************)
(* So does letting go of a queue (resolve_stalled): of its groups the peer *)
(* is no source any more.                                                  *)
(***************************************************************************)
LEMMA ResolveDrives ==
  ASSUME NEW w, NEW o, NEW p \in Peers, NEW G, Driving(w, o, p, G),
         NEW u, u = ResolveStalled(w, p)
  PROVE  Driven(u, o, p, G, w.connected)
<1>1. /\ SourcesOK(w, o) /\ SourcesTyped(w, o) /\ w.connected \subseteq Peers
      /\ w.source \in [Groups -> Peers \union {Nobody}]
  BY DEF Driving, SourcesOK, SourcesTyped
<1>2. CASE u = w
  BY <1>2 DEF Driven
<1>3. CASE u # w
  <2>1. Resolved(w, u, p)
    BY <1>1, <1>3, ResolveFields
  <2>2. Sourced(u, o, w.connected)
    BY <1>1, ResolveSources
  <2>3. /\ w.transfers[p] = 0 /\ u.connected = w.connected
        /\ \A f \in {"transfers", "blobs", "missing", "denied", "reads", "again",
                     "queries"} : u[f] = w[f]
        /\ u.queued[p] = <<>> /\ \A r \in Peers \ {p} : u.queued[r] = w.queued[r]
        /\ \A h \in Groups :
             u.source[h] = IF ~Unqueued(w, p, h) /\ w.source[h] = p THEN Nobody
                           ELSE w.source[h]
    BY <2>1 DEF Resolved
  <2>4. DrivenBut(u, p, G)
    <3> SUFFICES ASSUME NEW h \in Groups, u.source[h] # Nobody, ~(u.source[h] = p /\ h \in G)
                 PROVE  Busy(u, u.source[h], h)
      BY DEF DrivenBut
    <3>1. /\ u.source[h] = w.source[h] /\ w.source[h] \in Peers
          /\ w.source[h] = p => Unqueued(w, p, h)
      BY <1>1, <2>3
    <3>2. Busy(w, w.source[h], h)
      BY <3>1 DEF Driving, DrivenBut
    <3>3. CASE w.source[h] = p
      <4>1. ~Unasked(w, p, h)
        BY <2>3, <3>1, <3>2, <3>3 DEF Busy
      <4>2. ~Unasked(u, p, h)
        BY <2>3, <4>1 DEF Unasked
      <4> QED BY <3>1, <3>3, <4>2 DEF Busy
    <3>4. CASE w.source[h] # p
      BY <2>3, <3>1, <3>2, <3>4 DEF Busy, Unqueued, Unasked
    <3> QED BY <3>3, <3>4
  <2>5. ASSUME NEW r \in w.connected
        PROVE  /\ OnceQueued(u, r)
               /\ \A i \in DOMAIN u.queued[r] : Obtainable(u, r, u.queued[r][i])
    <3>1. OnceQueued(w, r) /\ \A i \in DOMAIN w.queued[r] : Obtainable(w, r, w.queued[r][i])
      BY DEF Driving, Getting
    <3>2. DOMAIN u.queued[r] = {} \/ u.queued[r] = w.queued[r]
      BY <1>1, <2>3
    <3> QED BY <2>3, <3>1, <3>2 DEF OnceQueued, Obtainable
  <2>6. Getting(u)
    BY <2>3, <2>5 DEF Driving, Getting
  <2>7. Belongs(u)
    BY <2>3 DEF Driving, Belongs
  <2> QED BY <2>2, <2>4, <2>6, <2>7 DEF Driving, Driven, Sourced
<1> QED BY <1>2, <1>3

(***************************************************************************)
(* So do both for one peer and for all of them (pump_queues).              *)
(***************************************************************************)
LEMMA PumpQueueDrives ==
  ASSUME NEW w, NEW o, Driving(w, o, Nobody, {}), NEW p \in Peers
  PROVE  Driven(PumpQueue(w, p), o, Nobody, {}, w.connected)
<1>1. PICK u : u = Pump(w, p)
  OBVIOUS
<1>2. \/ PumpQueue(w, p) = w
      \/ w.queued[p] # <<>> /\ PumpQueue(w, p) = ResolveStalled(u, p)
  BY <1>1 DEF PumpQueue
<1>3. CASE PumpQueue(w, p) = w
  BY <1>3 DEF Driven
<1>4. CASE w.queued[p] # <<>> /\ PumpQueue(w, p) = ResolveStalled(u, p)
  <2>1. p \in w.connected
    BY <1>4 DEF Driving, SourcesOK, SourcesTyped, CountsOK
  <2>2. Driven(u, o, p, {}, w.connected)
    BY <1>1, <2>1, DrivenAll, PumpDrives
  <2>3. PICK t : t = ResolveStalled(u, p)
    OBVIOUS
  <2>4. Driven(t, o, p, {}, w.connected)
    BY <2>2, <2>3, ResolveDrives DEF Driven
  <2> QED BY <1>4, <2>3, <2>4, DrivenAll DEF Driven
<1> QED BY <1>2, <1>3, <1>4

(***************************************************************************)
(* and all of them in turn.                                                *)
(***************************************************************************)
LEMMA PumpQueuesDrives ==
  ASSUME NEW w, NEW o, Driving(w, o, Nobody, {}), NEW seq, Len(seq) \in Nat,
         \A i \in 1 .. Len(seq) : seq[i] \in Peers
  PROVE  Driven(PumpQueues(w, seq), o, Nobody, {}, w.connected)
<1>1. PICK run : /\ run[0] = w
                 /\ \A i \in 1 .. Len(seq) : run[i] = PumpQueue(run[i - 1], seq[i])
                 /\ PumpQueues(w, seq) = run[Len(seq)]
  BY PumpQueuesRun
<1> DEFINE T == {i \in 0 .. Len(seq) : Driven(run[i], o, Nobody, {}, w.connected)}
<1>2. 0 \in T
  BY <1>1 DEF Driven
<1>3. ASSUME NEW i \in 1 .. Len(seq), i - 1 \in T PROVE i \in T
  <2>1. Driving(run[i - 1], o, Nobody, {}) /\ run[i - 1].connected = w.connected
    BY <1>3 DEF Driven
  <2>2. Driven(run[i], o, Nobody, {}, run[i - 1].connected)
    BY <1>1, <2>1, PumpQueueDrives
  <2> QED BY <2>1, <2>2
<1> HIDE DEF T
<1>4. Len(seq) \in T
  <2>1. 0 .. Len(seq) \subseteq T
    BY <1>2, <1>3, UpTo
  <2> QED BY <2>1
<1> QED BY <1>1, <1>4 DEF T
-----------------------------------------------------------------------------
(***************************************************************************)
(* What is needed beside the sources being in order: every one of them is  *)
(* driven.                                                                 *)
(***************************************************************************)
Moving(w) == DrivenBut(w, Nobody, {}) /\ Getting(w) /\ Belongs(w)

(***************************************************************************)
(* What leaves the pulls alone keeps them so.                              *)
(***************************************************************************)
LEMMA MovingSame ==
  ASSUME NEW w, NEW u, Moving(w), SamePulls(w, u)
  PROVE  Moving(u)
<1>1. /\ u.connected = w.connected /\ u.transfers = w.transfers
      /\ u.blobs = w.blobs /\ u.queued = w.queued /\ u.source = w.source
      /\ u.again = w.again /\ u.queries = w.queries /\ u.missing = w.missing
      /\ u.denied = w.denied /\ u.reads = w.reads
  BY DEF SamePulls, SameLoads, PullFields
<1>2. DrivenBut(u, Nobody, {})
  BY <1>1 DEF Moving, DrivenBut, Busy, Unqueued, Unasked
<1>3. Getting(u)
  BY <1>1 DEF Moving, Getting, OnceQueued, Obtainable
<1>4. Belongs(u)
  BY <1>1 DEF Moving, Belongs
<1> QED BY <1>2, <1>3, <1>4 DEF Moving

(***************************************************************************)
(* They stay driven when other catalogues of members are read, and when    *)
(* files go missing or are found of which none is queued or asked for.     *)
(***************************************************************************)
Milder(w, u) ==
  /\ SameLoads(w, u) /\ u.source = w.source /\ u.again = w.again
  /\ u.queries = w.queries /\ u.denied = w.denied
  /\ \A x \in u.reads : x \in w.reads \/ x[1] \in MembersOf[x[2]]
  /\ \A p \in w.connected : \A i \in DOMAIN w.queued[p] :
       w.queued[p][i] \in w.missing => w.queued[p][i] \in u.missing
  /\ \A q \in w.queries : \A x \in q[3] :
       <<q[2], x>> \in w.missing => <<q[2], x>> \in u.missing

(***************************************************************************)
(* Such a change keeps them driven.                                        *)
(***************************************************************************)
LEMMA MovingMilder ==
  ASSUME NEW w, NEW u, Moving(w), Milder(w, u)
  PROVE  Moving(u)
<1>1. /\ u.connected = w.connected /\ u.transfers = w.transfers
      /\ u.blobs = w.blobs /\ u.queued = w.queued /\ u.source = w.source
      /\ u.again = w.again /\ u.queries = w.queries /\ u.denied = w.denied
  BY DEF Milder, SameLoads
<1>2. DrivenBut(u, Nobody, {})
  BY <1>1 DEF Moving, DrivenBut, Busy, Unqueued, Unasked
<1>3. Getting(u)
  BY <1>1 DEF Moving, Milder, Getting, OnceQueued, Obtainable
<1>4. Belongs(u)
  BY <1>1 DEF Moving, Milder, Belongs
<1> QED BY <1>2, <1>3, <1>4 DEF Moving

(***************************************************************************)
(* An event that leaves them driven keeps them so,                         *)
(***************************************************************************)
LEMMA HappeningMoves ==
  ASSUME NEW w, NEW calm, NEW news, HappensWith(w, calm, news), Moving(w),
         Fields \union PullFields \subseteq DOMAIN w
  PROVE  Moving(v')
<1>1. SamePulls(w, v')
  BY DispatchPulls DEF HappensWith
<1> QED BY <1>1, MovingSame

(***************************************************************************)
(* also when they are driven in the sense of one handler,                  *)
(***************************************************************************)
LEMMA HappeningDriven ==
  ASSUME NEW w, NEW calm, NEW news, HappensWith(w, calm, news), NEW o, NEW p, NEW c,
         Driven(w, o, p, {}, c)
  PROVE  Moving(v')
<1>1. Moving(w) /\ Fields \union PullFields \subseteq DOMAIN w
  BY DEF Driven, Driving, Moving, DrivenBut, SourcesOK, SourcesTyped, CountsOK
<1> QED BY <1>1, HappeningMoves

(***************************************************************************)
(* as one does that leaves the pulls alone,                                *)
(***************************************************************************)
LEMMA StillMoves ==
  ASSUME Moving(v), NEW w, NEW calm, NEW news, HappensWith(w, calm, news), SamePulls(v, w)
  PROVE  Moving(v')
<1>1. Moving(w) /\ Fields \union PullFields \subseteq DOMAIN w
  BY MovingSame DEF SamePulls, SameLoads
<1> QED BY <1>1, HappeningMoves

(***************************************************************************)
(* or changes them only as above,                                          *)
(***************************************************************************)
LEMMA MilderMoves ==
  ASSUME Moving(v), NEW w, NEW calm, NEW news, HappensWith(w, calm, news), Milder(v, w),
         Fields \union PullFields \subseteq DOMAIN v
  PROVE  Moving(v')
<1>1. Moving(w) /\ Fields \union PullFields \subseteq DOMAIN w
  BY MovingMilder DEF Milder, SameLoads
<1> QED BY <1>1, HappeningMoves

(***************************************************************************)
(* one that makes a connection ready,                                      *)
(***************************************************************************)
LEMMA VerifiedMoves ==
  ASSUME NEW w, NEW o, SourcesOK(w, o), Moving(w), NEW p \in o, p \in Peers
  PROVE  Moving(Verified(w, p))
<1> DEFINE b == [w EXCEPT !.dialing = w.dialing \ {p},
                !.connected = w.connected \union {p},
                !.online = w.online \union {p},
                !.resting = w.resting \ {p}, !.attempts[p] = 0]
           u == Verified(w, p)
<1>1. u = Ask(b, With(p, "chain"))
  BY DEF Verified
<1>2. SourcesTyped(w, o) /\ CountsOK(w, o)
  BY DEF SourcesOK, SourcesTyped
<1>3. /\ DOMAIN b = DOMAIN w /\ b.connected = w.connected \union {p}
      /\ \A f \in {"transfers", "blobs", "queued", "missing", "denied", "reads", "source",
                   "again", "queries"} : b[f] = w[f]
  BY <1>2 DEF SourcesTyped, CountsOK, Fields, PullFields
<1>4. p \notin w.connected /\ Of(w.blobs, p) = {} /\ DOMAIN w.queued[p] = {}
  BY <1>2 DEF CountsOK
<1>5. \A q \in w.queries : q[1] # p
  BY DEF SourcesOK, QueriesOK
<1> HIDE DEF b, u
<1>6. Moving(b)
  <2>1. DrivenBut(b, Nobody, {})
    BY <1>3 DEF Moving, DrivenBut, Busy, Unqueued, Unasked
  <2>2. \A x \in w.blobs : x[1] # p
    BY <1>4 DEF Of
  <2>3. Getting(b)
    <3>1. ASSUME NEW r \in b.connected
          PROVE  /\ OnceQueued(b, r)
                 /\ \A i \in DOMAIN b.queued[r] : Obtainable(b, r, b.queued[r][i])
      <4>1. CASE r = p
        BY <1>3, <1>4, <2>2, <4>1 DEF OnceQueued, OnceRead
      <4>2. CASE r # p
        <5>1. r \in w.connected
          BY <1>3, <4>2
        <5> QED BY <1>3, <5>1 DEF Moving, Getting, OnceQueued, Obtainable
      <4> QED BY <4>1, <4>2
    <3>2. \A q \in b.queries : q[1] \in b.connected => \A x \in q[3] : <<q[2], x>> \in b.missing
      BY <1>3, <1>5 DEF Moving, Getting
    <3> QED BY <3>1, <3>2 DEF Getting
  <2>4. Belongs(b)
    BY <1>3 DEF Moving, Belongs
  <2> QED BY <2>1, <2>3, <2>4 DEF Moving
<1>7. SamePulls(b, u)
  <2>1. PICK which : which = With(p, "chain")
    OBVIOUS
  <2>2. Fields \union PullFields \subseteq DOMAIN b
    BY <1>2, <1>3 DEF SourcesTyped, CountsOK
  <2>3. SamePulls(b, Ask(b, which))
    BY <2>2, AskPulls
  <2> QED BY <1>1, <2>1, <2>3
<1>8. Moving(u)
  BY <1>6, <1>7, MovingSame
<1> QED BY <1>8 DEF u

(***************************************************************************)
(* and one in which a connection goes: its peer is the source of no group. *)
(***************************************************************************)
LEMMA GoneMoves ==
  ASSUME NEW w, NEW o, SourcesOK(w, o), Moving(w), NEW p \in Peers
  PROVE  Moving(Gone(w, p))
<1> DEFINE u == Gone(w, p)
<1>1. SourcesTyped(w, o) /\ CountsOK(w, o) /\ w.source \in [Groups -> Peers \union {Nobody}]
  BY DEF SourcesOK, SourcesTyped
<1>2. GoneFrom(w, u, p)
  BY <1>1, GoneFields
<1> HIDE DEF u
<1>3. /\ u.connected = w.connected \ {p} /\ w.connected \subseteq Peers
      /\ u.blobs = w.blobs /\ u.queries = w.queries /\ u.missing = w.missing
      /\ u.reads = w.reads
  BY <1>1, <1>2 DEF GoneFrom, SourcesTyped
<1>4. \A r \in Peers \ {p} : u.queued[r] = w.queued[r] /\ u.transfers[r] = w.transfers[r]
  BY <1>1, <1>2 DEF GoneFrom, CountsOK
<1>5. ASSUME NEW r \in Peers \ {p}, NEW h \in Groups PROVE u.again[<<r, h>>] = w.again[<<r, h>>]
  BY <1>2 DEF GoneFrom
<1>6. \A h \in Groups : u.source[h] = IF w.source[h] = p THEN Nobody ELSE w.source[h]
  BY <1>2 DEF GoneFrom
<1>7. DrivenBut(u, Nobody, {})
  <2> SUFFICES ASSUME NEW h \in Groups, u.source[h] # Nobody PROVE Busy(u, u.source[h], h)
    BY DEF DrivenBut
  <2>1. PICK r \in Peers \ {p} : r = u.source[h] /\ r = w.source[h]
    BY <1>1, <1>6
  <2>2. Busy(w, r, h)
    BY <2>1 DEF Moving, DrivenBut
  <2>3. Busy(u, r, h)
    BY <1>3, <1>4, <1>5, <2>2 DEF Busy, Unqueued, Unasked
  <2> QED BY <2>1, <2>3
<1>8. ASSUME NEW r \in u.connected
      PROVE  /\ OnceQueued(u, r)
             /\ \A i \in DOMAIN u.queued[r] : Obtainable(u, r, u.queued[r][i])
  <2>1. r \in w.connected /\ u.queued[r] = w.queued[r]
    BY <1>3, <1>4
  <2>2. u.denied \subseteq w.denied
    BY <1>2 DEF GoneFrom
  <2> QED BY <1>3, <2>1, <2>2 DEF Moving, Getting, OnceQueued, Obtainable
<1>9. Getting(u)
  BY <1>3, <1>8 DEF Moving, Getting
<1>10. Belongs(u)
  <2> SUFFICES ASSUME NEW h \in Groups, u.source[h] # Nobody
               PROVE  u.source[h] \in u.connected /\ u.source[h] \in MembersOf[h]
    BY <1>3 DEF Moving, Belongs
  <2>1. u.source[h] = w.source[h] /\ w.source[h] # p
    BY <1>6
  <2> QED BY <1>3, <2>1 DEF Moving, Belongs
<1>11. Moving(u)
  BY <1>7, <1>9, <1>10 DEF Moving
<1> QED BY <1>11 DEF u
(***************************************************************************)
(* A tick keeps the sources driven: dials, transfers that there is room    *)
(* for now, sources and questions.                                         *)
(***************************************************************************)
LEMMA TickMoves ==
  ASSUME Pulling, Moving(v), NEW t \in Timers, Tick(t)
  PROVE  Moving(v')
<1>1. PICK order \in Orders :
        HappensWith(Ticked(t, order).v, {p \in v.connected : NothingWith(v, p)},
                    Ticked(t, order).news)
  BY DEF Tick
<1> DEFINE armed   == {p \in Peers : v.retry[p].armed}
           queries == {x \in Peers \X Groups : v.again[x].armed}
           is(k) == IF t[1] = k THEN {t[2]} ELSE {}
           a == [v EXCEPT !.space = disk]
           u == [a EXCEPT !.dialed  = IF t[1] = "window" THEN 0 ELSE a.dialed,
                     !.resting = a.resting \ is("rest"),
                     !.waiting = a.waiting \ is("wait"),
                     !.due     = a.due \union is("heartbeat"),
                     !.closing = a.closing \ is("close")]
           out == ArmRetry(u, is("round"))
           begun == Arms(out, InOrder(Groups))
           dialed == QueueDials(begun, order)
           calls == PumpQueues(dialed, order)
           pulled == ContentPulls(calls)
           tried == Retries(pulled, armed, queries)
           w == Ticked(t, order).v
           o == Opening(link)
<1>2. w = Closes(tried)
  BY DEF Ticked, RunOut
<1>3. Fields \union PullFields \subseteq DOMAIN v
  BY DEF Pulling, SourcesOK, SourcesTyped, CountsOK
<1>4. SamePulls(v, u) /\ Fields \union PullFields \subseteq DOMAIN u
  <2>1. SamePulls(v, a) /\ Fields \union PullFields \subseteq DOMAIN a
    BY <1>3 DEF SamePulls, SameLoads, Fields, PullFields
  <2> HIDE DEF a, is
  <2>2. SamePulls(v, u)
    BY <2>1 DEF SamePulls, SameLoads, Fields, PullFields
  <2> HIDE DEF u
  <2> QED BY <1>3, <2>2 DEF SamePulls, SameLoads
<1> HIDE DEF u
<1>5. SamePulls(u, out) /\ Fields \union PullFields \subseteq DOMAIN out
  <2> PICK ps : ps = is("round")
    OBVIOUS
  <2> HIDE DEF is
  <2>1. SamePulls(u, out)
    BY <1>4, ArmRetryPulls
  <2> HIDE DEF out
  <2> QED BY <1>4, <2>1 DEF SamePulls, SameLoads
<1> HIDE DEF out
<1>6. IsFiniteSet(Groups) /\ IsFiniteSet(Peers) /\ Groups \in SUBSET Nat
  BY SupervisorAssumption DEF SupervisorAssumption
<1>7. Len(InOrder(Groups)) \in Nat
      /\ \A i \in 1 .. Len(InOrder(Groups)) : InOrder(Groups)[i] \in Groups
  BY <1>6, InOrderLists
<1>8. SamePulls(out, begun) /\ Fields \union PullFields \subseteq DOMAIN begun
  <2>1. SamePulls(out, begun)
    BY <1>5, <1>7, ArmsPulls
  <2> HIDE DEF begun
  <2> QED BY <1>5, <2>1 DEF SamePulls, SameLoads
<1> HIDE DEF begun
<1>9. SamePulls(begun, dialed)
  BY <1>8, QueueDialsPulls
<1> HIDE DEF dialed, o
<1>10. Driven(dialed, o, Nobody, {}, v.connected)
  <2>1. SamePulls(v, dialed)
    BY <1>4, <1>5, <1>8, <1>9, PullsTransitive
  <2>2. Driving(v, o, Nobody, {})
    BY DEF Driving, Moving, Pulling, o
  <2> QED BY <2>1, <2>2, DrivenSame
<1>11. Driven(calls, o, Nobody, {}, v.connected)
  <2>1. Len(order) \in Nat /\ \A i \in 1 .. Len(order) : order[i] \in Peers
    BY <1>6, FS_CardinalityType DEF Orders
  <2> QED BY <1>10, <2>1, PumpQueuesDrives DEF Driven
<1> HIDE DEF calls
<1>12. Driven(pulled, o, Nobody, {}, v.connected)
  <2>1. pulled = calls \/ pulled = Pulls(calls, InOrder(Groups))
    BY DEF ContentPulls
  <2>2. PICK groups : groups = InOrder(Groups)
    OBVIOUS
  <2> QED BY <1>7, <1>11, <2>1, <2>2, PullsDrives DEF Driven
<1> HIDE DEF pulled
<1>13. Driven(tried, o, Nobody, {}, v.connected)
  <2>1. queries \in SUBSET (Peers \X Groups)
    OBVIOUS
  <2> HIDE DEF armed, queries
  <2> QED BY <1>12, <2>1, RetriesDrives DEF Driven
<1> HIDE DEF tried, w
<1>14. Driven(w, o, Nobody, {}, v.connected)
  <2>1. SamePulls(tried, w)
    BY <1>2, <1>13, ClosesPulls DEF Driven, Driving, SourcesOK, SourcesTyped, CountsOK
  <2> QED BY <1>13, <2>1, DrivenSame DEF Driven
<1>15. HappensWith(w, {p \in v.connected : NothingWith(v, p)}, Ticked(t, order).news)
  BY <1>1 DEF w
<1> QED BY <1>14, <1>15, HappeningDriven

-----------------------------------------------------------------------------
(***************************************************************************)
(* So does the end of a connection,                                        *)
(***************************************************************************)
LEMMA GoneMoved ==
  ASSUME Pulling, Moving(v), NEW w, SamePulls(v, w), NEW p \in Peers, NEW calm, NEW news,
         HappensWith(Gone(w, p), calm, news)
  PROVE  Moving(v')
<1>1. SourcesOK(w, Opening(link)) /\ Moving(w)
  BY SourcesSame, MovingSame DEF Pulling, Sourced
<1>2. PICK u : u = Gone(w, p)
  OBVIOUS
<1>3. SourcesOK(u, Opening(link)) /\ Moving(u)
  BY <1>1, <1>2, GoneSources, GoneMoves
<1>4. Fields \union PullFields \subseteq DOMAIN u
  BY <1>3 DEF SourcesOK, SourcesTyped, CountsOK
<1> QED BY <1>2, <1>3, <1>4, HappeningMoves

(***************************************************************************)
(* and so do presence, dials and connections,                              *)
(***************************************************************************)
LEMMA NetworkMoves ==
  ASSUME Pulling, Moving(v), Network
  PROVE  Moving(v')
<1> USE PullingFields
<1>1. ASSUME NEW asked, NEW up, PresenceAnswered(asked, up) PROVE Moving(v')
  <2> DEFINE w == [v EXCEPT !.online = (v.online \ asked) \union up,
                     !.pending = v.pending \union (up \intersect Strangers)]
             u == IF up \subseteq v.online THEN w ELSE Reconsider(w, Groups)
  <2>1. HappensWith(u, quiet, {})
    BY <1>1 DEF PresenceAnswered, Happens, Elsewhere
  <2>2. SamePulls(v, w) /\ Fields \union PullFields \subseteq DOMAIN w
    BY DEF SamePulls, SameLoads, Fields, PullFields
  <2> HIDE DEF w
  <2>3. SamePulls(v, u)
    <3>1. SamePulls(w, Reconsider(w, Groups))
      BY <2>2, ReconsiderPulls
    <3> QED BY <2>2, <3>1 DEF SamePulls, SameLoads
  <2> HIDE DEF u
  <2> QED BY <2>1, <2>3, StillMoves
<1>2. ASSUME NEW p \in Peers, Connects(p) PROVE Moving(v')
  <2> DEFINE w == [v EXCEPT !.dials = v.dials \ {p}]
  <2>1. HappensWith(w, quiet, {})
    BY <1>2 DEF Connects, Happens
  <2>2. SamePulls(v, w)
    BY DEF SamePulls, SameLoads, Fields, PullFields
  <2> HIDE DEF w
  <2> QED BY <2>1, <2>2, StillMoves
<1>3. ASSUME NEW p \in Peers, PeerConnects(p) PROVE Moving(v')
  BY <1>3, PullsReflexive, StillMoves DEF PeerConnects, Happens
<1>4. ASSUME NEW p \in Peers, DialConnects(p) PROVE Moving(v')
  <2>1. CASE link[p] = "none"
    BY <1>2, <1>4, <2>1 DEF DialConnects
  <2>2. CASE link[p] # "none"
    <3> DEFINE w == [v EXCEPT !.dials = v.dials \ {p}]
    <3>1. HappensWith(w, quiet, {})
      BY <1>4, <2>2 DEF DialConnects, Happens, Elsewhere
    <3>2. SamePulls(v, w)
      BY DEF SamePulls, SameLoads, Fields, PullFields
    <3> HIDE DEF w
    <3> QED BY <3>1, <3>2, StillMoves
  <2> QED BY <2>1, <2>2
<1>5. ASSUME NEW p \in Peers, DialFails(p) PROVE Moving(v')
  <2> DEFINE w == [v EXCEPT !.dials = v.dials \ {p}]
             u == DialFailed(w, p)
  <2>1. HappensWith(u, quiet, {})
    BY <1>5 DEF DialFails, Happens, Elsewhere
  <2>2. SamePulls(v, w) /\ Fields \union PullFields \subseteq DOMAIN w
    BY DEF SamePulls, SameLoads, Fields, PullFields
  <2> HIDE DEF w
  <2>3. SamePulls(v, u)
    BY <2>2 DEF DialFailed, SamePulls, SameLoads, Fields, PullFields
  <2> HIDE DEF u
  <2> QED BY <2>1, <2>3, StillMoves
<1>6. ASSUME NEW p \in Peers, DialUnaddressed(p) PROVE Moving(v')
  <2> DEFINE w == [v EXCEPT !.dials = v.dials \ {p}]
  <2>1. HappensWith(w, quiet, {})
    BY <1>6 DEF DialUnaddressed, Happens
  <2>2. SamePulls(v, w)
    BY DEF SamePulls, SameLoads, Fields, PullFields
  <2> HIDE DEF w
  <2> QED BY <2>1, <2>2, StillMoves
<1>7. ASSUME NEW p \in Peers, BecomesReady(p) PROVE Moving(v')
  <2>1. HappensWith(Verified(v, p), quiet, {}) /\ link[p] = "open"
    BY <1>7 DEF BecomesReady, Happens
  <2>2. PICK o : o = Opening(link)
    OBVIOUS
  <2>3. p \in o /\ SourcesOK(v, o)
    BY <2>1, <2>2 DEF Opening, Pulling
  <2>4. Moving(Verified(v, p)) /\ SourcesOK(Verified(v, p), o \ {p})
    BY <2>3, VerifiedMoves, VerifiedSources
  <2>5. Fields \union PullFields \subseteq DOMAIN Verified(v, p)
    BY <2>4 DEF SourcesOK, SourcesTyped, CountsOK
  <2> QED BY <2>1, <2>4, <2>5, HappeningMoves
<1>8. ASSUME NEW p \in Peers, ClosesUnready(p) PROVE Moving(v')
  BY <1>8, PullsReflexive, StillMoves DEF ClosesUnready, Happens
<1>9. ASSUME NEW p \in Peers, Drops(p) PROVE Moving(v')
  BY <1>9, PullsReflexive, GoneMoved DEF Drops, Happens
<1> QED
  BY <1>1, <1>3, <1>4, <1>5, <1>6, <1>7, <1>8, <1>9 DEF Network, IdleCloses, ConnectionLost

(***************************************************************************)
(* and so do answers to rounds, refusals, and what a peer asks of us,      *)
(***************************************************************************)
LEMMA RoundsMove ==
  ASSUME Pulling, Moving(v), CallInv, Rounds
  PROVE  Moving(v')
<1> USE PullingFields
<1>1. ASSUME NEW p \in Peers, NEW off \in Offering, RoundAnswered(p, off) PROVE Moving(v')
  <2> DEFINE w == [v EXCEPT !.rounds = v.rounds \ {<<p, off>>}]
             s == StartRound(w, With(p, "none"))
             a == [s EXCEPT !.retry[p] = Quiet]
             u == Asked(w, p, off)
             read == IF off = "chain" \/ p \in Strangers THEN {}
                     ELSE {<<p, g>> : g \in {h \in Groups : p \in MembersOf[h]}}
             x == [u EXCEPT !.reads = u.reads \union read]
  <2>1. v' = Dispatch(x)
    BY <1>1 DEF RoundAnswered, Elsewhere
  <2>2. \/ u = [a EXCEPT !.pending = a.pending \ {p}]
        \/ u = Ask(a, With(p, "catalogue")) \/ u = a
    BY DEF Asked
  <2>3. SamePulls(v, w) /\ Fields \union PullFields \subseteq DOMAIN w
    BY DEF SamePulls, SameLoads, Fields, PullFields
  <2> HIDE DEF w
  <2>4. SamePulls(v, s) /\ Fields \union PullFields \subseteq DOMAIN s
    <3>1. SamePulls(w, s)
      BY <2>3, StartRoundPulls
    <3> QED BY <2>3, <3>1 DEF SamePulls, SameLoads
  <2> HIDE DEF s
  <2>5. SamePulls(v, a) /\ Fields \union PullFields \subseteq DOMAIN a
    BY <2>4 DEF SamePulls, SameLoads, Fields, PullFields
  <2> HIDE DEF a, u, read
  <2>6. SamePulls(v, u)
    <3>1. SamePulls(a, Ask(a, With(p, "catalogue")))
      BY <2>5, AskPulls
    <3> QED BY <2>2, <2>5, <3>1 DEF SamePulls, SameLoads, Fields, PullFields
  <2>7. \A y \in read : y[1] \in MembersOf[y[2]]
    BY DEF read
  <2>8. Milder(v, x)
    BY <2>6, <2>7 DEF Milder, SamePulls, SameLoads, Fields, PullFields
  <2> HIDE DEF x
  <2>9. Moving(x) /\ Fields \union PullFields \subseteq DOMAIN x
    BY <2>8, MovingMilder DEF Milder, SameLoads
  <2> QED BY <2>1, <2>9, DispatchPulls, MovingSame
<1>2. ASSUME NEW w, Milder(v, w), NEW p \in Peers, Happens(ArmRetry(w, {p}))
      PROVE  Moving(v')
  <2>1. PICK u : u = ArmRetry(w, {p})
    OBVIOUS
  <2>2. Moving(w) /\ Fields \union PullFields \subseteq DOMAIN w
    BY <1>2, MovingMilder DEF Milder, SameLoads
  <2>3. SamePulls(w, u)
    BY <2>1, <2>2, ArmRetryPulls
  <2>4. Moving(u) /\ Fields \union PullFields \subseteq DOMAIN u
    BY <2>2, <2>3, MovingSame DEF SamePulls, SameLoads
  <2> QED BY <1>2, <2>1, <2>4, HappeningMoves DEF Happens
<1>3. ASSUME NEW p \in Peers, NEW off \in Offering, RoundFails(p, off) PROVE Moving(v')
  <2> DEFINE w == [v EXCEPT !.rounds = v.rounds \ {<<p, off>>}]
  <2>1. Happens(ArmRetry(w, {p}))
    BY <1>3 DEF RoundFails, Elsewhere
  <2>2. Milder(v, w)
    BY DEF Milder, SameLoads, Fields, PullFields
  <2> HIDE DEF w
  <2> QED BY <1>2, <2>1, <2>2
<1>4. ASSUME NEW p \in Peers, NEW g \in Groups, ReadFails(p, g) PROVE Moving(v')
  <2> DEFINE w == [v EXCEPT !.reads = v.reads \ {<<p, g>>}]
  <2>1. Happens(ArmRetry(w, {p}))
    BY <1>4 DEF ReadFails, Elsewhere
  <2>2. Milder(v, w)
    BY DEF Milder, SameLoads, Fields, PullFields
  <2> HIDE DEF w
  <2> QED BY <1>2, <2>1, <2>2
<1>5. ASSUME NEW p \in Peers, NEW g \in Groups, GroupSettles(p, g) PROVE Moving(v')
  <2> DEFINE s == Synced(v, p, g)
             w == [s EXCEPT !.reads = v.reads \ {<<p, g>>},
                            !.reconciled = v.reconciled \union {<<p, g>>}]
             u == OpenPull(w, p, g)
  <2>1. HappensWith(u, quiet, {})
    BY <1>5 DEF GroupSettles, Happens, Elsewhere
  <2>2. SamePulls(v, s)
    <3> DEFINE left == v.outstanding \ {<<p, g>>}
               t == [v EXCEPT !.outstanding = left]
               e == StartRound(v, With(p, "none"))
    <3>1. s \in {v, e, t}
      BY DEF Synced
    <3>2. SamePulls(v, t) /\ SamePulls(v, v)
      BY DEF SamePulls, SameLoads, Fields, PullFields
    <3> HIDE DEF t
    <3>3. SamePulls(v, e)
      BY StartRoundPulls
    <3> HIDE DEF e, s
    <3> QED BY <3>1, <3>2, <3>3
  <2> HIDE DEF s
  <2>3. Milder(v, w)
    BY <2>2 DEF Milder, SamePulls, SameLoads, Fields, PullFields
  <2> HIDE DEF w
  <2>4. Sourced(w, Opening(link), v.connected) /\ p \in v.connected
    BY <1>5, <2>3, SourcesLike DEF Pulling, GroupSettles, CallInv, Milder
  <2>5. p \in MembersOf[g]
    BY <1>5 DEF GroupSettles, Moving, Belongs
  <2>6. Driven(u, Opening(link), p, {}, v.connected)
    <3>1. Driving(w, Opening(link), p, {}) /\ p \in w.connected /\ w.connected = v.connected
      BY <2>3, <2>4, MovingMilder DEF Sourced, Driving, Moving, DrivenBut
    <3>2. Driven(OpenPull(w, p, g), Opening(link), p, {}, w.connected)
      BY <2>5, <3>1, OpenPullDrives
    <3> QED BY <3>1, <3>2
  <2> HIDE DEF u
  <2> QED BY <2>1, <2>6, HappeningDriven
<1>6. ASSUME NEW p \in Peers, CloseAgreed(p) PROVE Moving(v')
  <2> DEFINE w == [v EXCEPT !.closes = v.closes \ {p}, !.closing = v.closing \ {p}]
  <2>1. HappensWith(w, quiet, {}) \/ HappensWith(Gone(w, p), quiet, {})
    BY <1>6 DEF CloseAgreed, Happens
  <2>2. SamePulls(v, w)
    BY DEF SamePulls, SameLoads, Fields, PullFields
  <2> HIDE DEF w
  <2> QED BY <2>1, <2>2, StillMoves, GoneMoved
<1>7. ASSUME NEW p \in Peers, CloseRefused(p) PROVE Moving(v')
  <2> DEFINE w == [v EXCEPT !.closes = v.closes \ {p}]
  <2>1. HappensWith(w, quiet, {})
    BY <1>7 DEF CloseRefused, Happens, Elsewhere
  <2>2. SamePulls(v, w)
    BY DEF SamePulls, SameLoads, Fields, PullFields
  <2> HIDE DEF w
  <2> QED BY <2>1, <2>2, StillMoves
<1> QED BY <1>1, <1>3, <1>4, <1>5, <1>6, <1>7 DEF Rounds

(***************************************************************************)
(* and the user's commands and the other nodes', unless they settle a file *)
(* that was asked for or queued.                                           *)
(***************************************************************************)
LEMMA UserMoves ==
  ASSUME Pulling, Moving(v), User, "vanished" \notin spoiled'
  PROVE  Moving(v')
<1> USE PullingFields
<1>1. ASSUME NEW g \in Groups, NewsMade(g) PROVE Moving(v')
  <2> DEFINE w == [v EXCEPT !.news = v.news \union {g}]
  <2>1. SamePulls(v, w)
    BY DEF SamePulls, SameLoads, Fields, PullFields
  <2>2. Happens(w)
    BY <1>1 DEF NewsMade
  <2> HIDE DEF w
  <2> QED BY <2>1, <2>2, StillMoves DEF Happens
<1>2. ASSUME NEW f \in Files, FileWanted(f) PROVE Moving(v')
  <2> DEFINE w == [v EXCEPT !.missing = v.missing \union {f},
                        !.wanted = v.wanted \union {f[1]}]
  <2>1. Milder(v, w)
    BY DEF Milder, SameLoads, Fields, PullFields
  <2>2. Happens(w)
    BY <1>2 DEF FileWanted
  <2> HIDE DEF w
  <2> QED BY <2>1, <2>2, MilderMoves DEF Happens
<1>3. ASSUME NEW f \in Files, FileSettled(f) PROVE Moving(v')
  <2> DEFINE w == [v EXCEPT !.missing = v.missing \ {f}]
  <2>1. Happens(w) /\ ~Sought(f)
    BY <1>3 DEF FileSettled
  <2>2. \A p \in Peers : \A i \in DOMAIN v.queued[p] : v.queued[p][i] # f
    BY <2>1 DEF Sought
  <2>3. \A q \in v.queries : \A x \in q[3] : <<q[2], x>> # f
    BY <2>1 DEF Sought
  <2>4. v.connected \subseteq Peers
    BY DEF Pulling, SourcesOK, SourcesTyped
  <2>5. Milder(v, w)
    BY <2>2, <2>3, <2>4 DEF Milder, SameLoads, Fields, PullFields
  <2> HIDE DEF w
  <2> QED BY <2>1, <2>5, MilderMoves DEF Happens
<1>4. ASSUME NEW d \in Spaces, DiskChanges(d) PROVE Moving(v')
  BY <1>4, PullsReflexive, StillMoves DEF DiskChanges, Happens
<1> QED BY <1>1, <1>2, <1>3, <1>4 DEF User
-----------------------------------------------------------------------------
(***************************************************************************)
(* A transfer that ends settles at most its own file: nothing else stops   *)
(* being missing, or is known not to be had from its peer.                 *)
(***************************************************************************)
Settles(v0, w, b) ==
  /\ Read(v0, w, b) /\ w.reads = v0.reads
  /\ \A f \in v0.missing : f # b[2] => f \in w.missing
  /\ \A x \in w.denied : x \in v0.denied \/ x = <<b[1], b[2]>>

(***************************************************************************)
(* Nothing else of its file is queued, at any peer, or asked for; so what  *)
(* is driven stays so, but for the groups of its peer.                     *)
(***************************************************************************)
LEMMA EndedDrives ==
  ASSUME NEW v0, NEW o, SourcesOK(v0, o), Moving(v0), NEW b \in v0.blobs,
         NEW p \in v0.connected, p = b[1], NEW w, Settles(v0, w, b),
         NEW a, a = Ended(w, p)
  PROVE  Driven(a, o, p, Groups, v0.connected)
<1>1. /\ SourcesTyped(v0, o) /\ CountsOK(v0, o) /\ Read(v0, w, b) /\ v0.connected \subseteq Peers
      /\ v0.source \in [Groups -> Peers \union {Nobody}]
  BY DEF SourcesOK, SourcesTyped, Settles
<1>2. Sourced(a, o, v0.connected)
  BY <1>1, EndedSources
<1>3. /\ w.connected = v0.connected /\ w.transfers = v0.transfers
      /\ w.queued = v0.queued /\ w.blobs = v0.blobs \ {b} /\ w.source = v0.source
      /\ w.again = v0.again /\ w.queries = v0.queries
      /\ Fields \union PullFields \subseteq DOMAIN w
  BY <1>1 DEF Read, SourcesTyped, CountsOK
<1>4. /\ a.source = v0.source /\ a.again = v0.again /\ a.queries = v0.queries
      /\ a.queued = v0.queued /\ a.blobs = v0.blobs \ {b} /\ a.reads = v0.reads
      /\ a.missing = w.missing /\ a.denied = w.denied
  BY <1>3 DEF Ended, Fields, PullFields, Settles
<1>5. \A r \in Peers \ {p} : a.transfers[r] = v0.transfers[r]
  BY <1>1, <1>3 DEF Ended, Fields, PullFields, CountsOK
<1>6. Fetches(v0, p, b[2][1])
  BY DEF SourcesOK, ReadsOK
<1>7. DrivenBut(a, p, Groups)
  <2> SUFFICES ASSUME NEW h \in Groups, v0.source[h] # Nobody, v0.source[h] # p
               PROVE  Busy(a, v0.source[h], h)
    BY <1>4 DEF DrivenBut
  <2>1. Busy(v0, v0.source[h], h) /\ v0.source[h] \in Peers \ {p}
    BY <1>1 DEF Moving, DrivenBut
  <2> QED BY <1>4, <1>5, <2>1 DEF Busy, Unqueued, Unasked
<1>8. ASSUME NEW r \in v0.connected, NEW i \in DOMAIN v0.queued[r]
      PROVE  Obtainable(a, r, v0.queued[r][i])
  <2>1. Obtainable(v0, r, v0.queued[r][i])
    BY DEF Moving, Getting
  <2>2. v0.queued[r][i] # b[2]
    <3>1. CASE r = p
      BY <3>1 DEF Moving, Getting, OnceQueued
    <3>2. CASE r # p
      <4>1. Fetches(v0, r, v0.queued[r][i][1])
        BY <1>1 DEF SourcesOK, QueuesOK
      <4> QED BY <1>6, <3>2, <4>1 DEF Fetches
    <3> QED BY <3>1, <3>2
  <2>3. PICK f : f = v0.queued[r][i]
    OBVIOUS
  <2>4. f \in a.missing
    BY <1>4, <2>1, <2>2, <2>3 DEF Obtainable, Settles
  <2>5. <<r, f>> \notin a.denied
    BY <1>4, <2>1, <2>2, <2>3 DEF Obtainable, Settles
  <2> QED BY <2>3, <2>4, <2>5 DEF Obtainable
<1>9. ASSUME NEW q \in v0.queries, q[1] \in v0.connected, NEW x \in q[3]
      PROVE  <<q[2], x>> \in a.missing
  <2>1. <<q[2], x>> \in v0.missing
    BY <1>9 DEF Moving, Getting
  <2>2. <<q[2], x>> # b[2]
    <3>1. ASSUME <<q[2], x>> = b[2] PROVE FALSE
      <4>1. b[2][1] = q[2]
        BY <3>1
      <4>2. v0.source[q[2]] = q[1]
        BY <1>9 DEF SourcesOK, QueriesOK
      <4> QED BY <1>6, <4>1, <4>2 DEF Fetches, Unasked
    <3> QED BY <3>1
  <2> QED BY <1>4, <2>1, <2>2 DEF Settles
<1>10. ASSUME NEW r \in v0.connected PROVE OnceQueued(a, r)
  <2>1. OnceQueued(v0, r)
    BY DEF Moving, Getting
  <2> QED BY <1>4, <2>1 DEF OnceQueued, OnceRead
<1>11. a.connected = v0.connected
  BY <1>2 DEF Sourced
<1>12. Getting(a)
  BY <1>4, <1>8, <1>9, <1>10, <1>11 DEF Getting
<1>13. Belongs(a)
  BY <1>4, <1>11 DEF Moving, Belongs
<1> QED BY <1>2, <1>7, <1>12, <1>13 DEF Driving, Driven, Sourced

(***************************************************************************)
(* It leaves a slot free.                                                  *)
(***************************************************************************)
LEMMA EndedRoom ==
  ASSUME NEW v0, NEW o, SourcesOK(v0, o), NEW b \in v0.blobs, NEW p \in v0.connected, p = b[1],
         NEW w, Read(v0, w, b), NEW a, a = Ended(w, p)
  PROVE  IsFiniteSet(Slots(a)) /\ RunningTransfers(a) < MaxTransfers
<1>1. /\ CountsOK(v0, o) /\ p \in Peers /\ v0.transfers \in [Peers -> Nat]
      /\ Fields \subseteq DOMAIN w /\ w.transfers = v0.transfers
  BY DEF SourcesOK, SourcesTyped, CountsOK, Read
<1>2. v0.transfers[p] # 0
  <2>1. v0.transfers[p] = Cardinality(Of(v0.blobs, p)) /\ IsFiniteSet(v0.blobs)
    BY <1>1 DEF CountsOK
  <2>2. Of(v0.blobs, p) \in SUBSET v0.blobs /\ b \in Of(v0.blobs, p)
    BY DEF Of
  <2>3. IsFiniteSet(Of(v0.blobs, p))
    BY <2>1, <2>2, FS_Subset
  <2> QED BY <2>1, <2>2, <2>3, FS_EmptySet
<1>3. a.transfers = [v0.transfers EXCEPT ![p] = v0.transfers[p] - 1]
  BY <1>1, <1>2 DEF Ended, Fields
<1>4. \A r \in Peers : a.transfers[r] = IF r = p THEN v0.transfers[p] - 1 ELSE v0.transfers[r]
  BY <1>1, <1>3
<1>5. v0.transfers[p] \in Nat /\ v0.transfers[p] \in 1 .. v0.transfers[p]
      /\ v0.transfers[p] \notin 1 .. v0.transfers[p] - 1
  BY <1>1, <1>2
<1>6. <<p, v0.transfers[p]>> \in Slots(v0) /\ <<p, v0.transfers[p]>> \notin Slots(a)
  BY <1>1, <1>4, <1>5, SlotIs
<1>7. Slots(a) \in SUBSET Slots(v0)
  <2>1. ASSUME NEW e \in Slots(a) PROVE e \in Slots(v0)
    <3>1. PICK r \in Peers : e \in {r} \X (1 .. a.transfers[r])
      BY DEF Slots
    <3>2. 1 .. a.transfers[r] \subseteq 1 .. v0.transfers[r]
      BY <1>1, <1>4
    <3>3. e \in {r} \X (1 .. v0.transfers[r])
      BY <3>1, <3>2
    <3> QED BY <3>3 DEF Slots
  <2> QED BY <2>1
<1>8. IsFiniteSet(Slots(v0)) /\ Cardinality(Slots(v0)) <= MaxTransfers /\ MaxTransfers \in Nat
  BY <1>1, SupervisorAssumption DEF CountsOK, SupervisorAssumption
<1>9. /\ IsFiniteSet(Slots(a)) /\ Cardinality(Slots(a)) <= Cardinality(Slots(v0))
      /\ Cardinality(Slots(a)) # Cardinality(Slots(v0))
  BY <1>6, <1>7, <1>8, FS_Subset
<1>10. Cardinality(Slots(a)) \in Nat /\ Cardinality(Slots(v0)) \in Nat
  BY <1>8, <1>9, FS_CardinalityType
<1> QED BY <1>8, <1>9, <1>10 DEF RunningTransfers

(***************************************************************************)
(* The slot is used again: files of the peer are read, or it has nothing   *)
(* queued any more.                                                        *)
(***************************************************************************)
LEMMA UsedDrives ==
  ASSUME NEW v0, NEW o, SourcesOK(v0, o), Moving(v0), NEW b \in v0.blobs,
         NEW p \in v0.connected, p = b[1], NEW w, Settles(v0, w, b),
         NEW u, u = Used(w, p)
  PROVE  /\ Driven(u, o, p, Groups, v0.connected)
         /\ u.transfers[p] > 0 \/ u.queued[p] = <<>>
<1>1. PICK a : a = Ended(w, p)
  OBVIOUS
<1>2. PICK c : c = Pump(a, p)
  OBVIOUS
<1>3. u = ResolveStalled(c, p)
  BY <1>1, <1>2 DEF Used, Ended
<1>4. Driven(a, o, p, Groups, v0.connected)
  BY <1>1, EndedDrives
<1>5. Driving(a, o, p, Groups) /\ a.connected = v0.connected /\ p \in a.connected
  BY <1>4 DEF Driven
<1>6. Driven(c, o, p, Groups, a.connected) /\ Pumped(a, c, p)
  BY <1>2, <1>5, PumpDrives
<1>7. Driving(c, o, p, Groups) /\ c.connected = v0.connected /\ p \in Peers
  BY <1>5, <1>6 DEF Driven, Driving, SourcesOK, SourcesTyped
<1>8. Driven(u, o, p, Groups, v0.connected)
  BY <1>3, <1>7, ResolveDrives
<1>9. /\ SourcesTyped(c, o) /\ SourcesTyped(a, o)
      /\ c.transfers \in [Peers -> Nat] /\ a.transfers \in [Peers -> Nat]
  BY <1>5, <1>7 DEF Driving, SourcesOK, SourcesTyped, CountsOK
<1>10. CASE u # c
  <2>1. Resolved(c, u, p)
    BY <1>3, <1>7, <1>9, <1>10, ResolveFields
  <2> QED BY <1>8, <2>1 DEF Resolved
<1>11. CASE u = c /\ c.transfers[p] = 0
  <2>1. \A r \in Peers : c.transfers[r] = a.transfers[r]
    BY <1>6, <1>7, <1>9, <1>11 DEF Pumped
  <2>2. c.transfers = a.transfers
    BY <1>9, <2>1
  <2>3. Slots(c) = Slots(a)
    BY <2>2 DEF Slots
  <2>4. IsFiniteSet(Slots(a)) /\ RunningTransfers(a) < MaxTransfers
    BY <1>1, EndedRoom DEF Settles
  <2>5. RunningTransfers(a) \in Nat /\ MaxTransfers \in Nat
    BY <2>4, FS_CardinalityType, SupervisorAssumption DEF SupervisorAssumption, RunningTransfers
  <2>6. ~(RunningTransfers(c) >= MaxTransfers)
    BY <2>3, <2>4, <2>5 DEF RunningTransfers
  <2>7. PICK empty : empty = [c EXCEPT !.queued[p] = <<>>,
                     !.source = [g \in Groups |->
                       IF g \in {c.queued[p][i][1] : i \in DOMAIN c.queued[p]} /\ c.source[g] = p THEN Nobody
                       ELSE c.source[g]]]
    OBVIOUS
  <2>8. ResolveStalled(c, p) = empty
    BY <1>11, <2>6, <2>7 DEF ResolveStalled
  <2>9. empty.queued[p] = <<>>
    BY <1>7, <1>9, <2>7 DEF SourcesTyped, CountsOK, Fields
  <2> QED BY <1>3, <1>8, <2>8, <2>9
<1>12. CASE u = c /\ c.transfers[p] # 0
  BY <1>7, <1>8, <1>9, <1>12
<1> QED BY <1>10, <1>11, <1>12

(***************************************************************************)
(* So the groups of the peer are driven again: a transfer runs with it, or *)
(* their next pages are asked for.                                         *)
(***************************************************************************)
LEMMA FreedDrives ==
  ASSUME NEW v0, NEW o, SourcesOK(v0, o), Moving(v0), NEW b \in v0.blobs,
         NEW p \in v0.connected, p = b[1], NEW w, Settles(v0, w, b), ~Twice(w, p),
         NEW t, t = Freed(w, p)
  PROVE  Driven(t, o, p, {}, v0.connected)
<1>1. PICK u : u = Used(w, p)
  OBVIOUS
<1>2. t = ContinuePull(u, p)
  BY <1>1 DEF Freed
<1>3. /\ Driven(u, o, p, Groups, v0.connected)
      /\ u.transfers[p] > 0 \/ u.queued[p] = <<>>
  BY <1>1, UsedDrives
<1>4. /\ Driving(u, o, p, Groups) /\ u.connected = v0.connected
      /\ SourcesOK(u, o) /\ CountsOK(u, o) /\ p \in Peers /\ u.transfers[p] \in Nat
  BY <1>3 DEF Driven, Driving, SourcesOK, SourcesTyped, CountsOK
<1>5. CASE u.transfers[p] > 0
  <2>1. t = u
    BY <1>2, <1>5 DEF ContinuePull
  <2>2. DrivenBut(u, p, {})
    BY <1>4, <1>5 DEF Driving, DrivenBut, Busy
  <2> QED BY <1>3, <1>4, <2>1, <2>2 DEF Driven, Driving
<1>6. CASE ~(u.transfers[p] > 0) /\ u.queued[p] = <<>>
  <2>1. t = NextPages(u, p, InOrder(Groups))
    BY <1>2, <1>6 DEF ContinuePull
  <2>2. u.transfers[p] = 0
    BY <1>4, <1>6
  <2>3. \A x \in u.blobs : x[1] # p
    BY <1>4, <2>2, NothingReads
  <2>4. DOMAIN u.queued[p] = {}
    BY <1>6
  <2>5. \A g \in Groups : u.source[g] = p /\ p \in MembersOf[g] => Unasked(u, p, g)
    BY <1>1, <1>6, <2>2 DEF Twice, Unasked
  <2> QED BY <1>4, <2>1, <2>3, <2>4, <2>5, NextPagesDrives
<1> QED BY <1>3, <1>5, <1>6
-----------------------------------------------------------------------------
(***************************************************************************)
(* When a question has been answered it is its group alone that may have   *)
(* been left behind.                                                       *)
(***************************************************************************)
TakenAlone(w, u, o, p, g) ==
  /\ Driven(u, o, p, {g}, w.connected) /\ u.missing = w.missing
  /\ g \in Groups /\ u.source[g] = p
  /\ Unasked(u, p, g) /\ Unread(u, p, g) /\ Unqueued(u, p, g)

(***************************************************************************)
(* So it is of what the answer is about.                                   *)
(***************************************************************************)
LEMMA TakenDrives ==
  ASSUME NEW w, NEW o, SourcesOK(w, o), Moving(w), NEW q \in w.queries,
         NEW p \in w.connected, p = q[1], NEW g, g = q[2],
         NEW u, u = [w EXCEPT !.queries = w.queries \ {q}]
  PROVE  TakenAlone(w, u, o, p, g)
<1>1. /\ Sourced(u, o, w.connected) /\ q[2] \in Groups /\ u.source[q[2]] = q[1]
      /\ Unasked(u, q[1], q[2]) /\ Unread(u, q[1], q[2]) /\ Unqueued(u, q[1], q[2])
  BY QueryTaken
<1>2. /\ \A f \in {"transfers", "blobs", "queued", "missing", "denied", "reads", "source",
                   "again"} : u[f] = w[f]
      /\ u.queries = w.queries \ {q}
  BY DEF SourcesOK, SourcesTyped, CountsOK, Fields, PullFields
<1>3. u.connected = w.connected
  BY <1>1 DEF Sourced
<1>4. DrivenBut(u, p, {q[2]})
  <2> SUFFICES ASSUME NEW h \in Groups, w.source[h] # Nobody, ~(w.source[h] = p /\ h = q[2])
               PROVE  Busy(u, w.source[h], h)
    BY <1>2 DEF DrivenBut
  <2>1. Busy(w, w.source[h], h)
    BY DEF Moving, DrivenBut
  <2>2. ~Unasked(w, w.source[h], h) => ~Unasked(u, w.source[h], h)
    BY <1>2 DEF Unasked
  <2> QED BY <1>2, <2>1, <2>2 DEF Busy, Unqueued
<1>5. Getting(u)
  BY <1>2, <1>3 DEF Moving, Getting, OnceQueued, Obtainable
<1>6. Belongs(u)
  BY <1>2, <1>3 DEF Moving, Belongs
<1>7. Driven(u, o, p, {g}, w.connected)
  BY <1>1, <1>4, <1>5, <1>6 DEF Driving, Driven, Sourced
<1> QED BY <1>1, <1>2, <1>7 DEF TakenAlone

(***************************************************************************)
(* A list in which nothing is wanted asks for the next page; else it       *)
(* queues something.                                                       *)
(***************************************************************************)
LEMMA HeldSome ==
  ASSUME NEW w, NEW o, SourcesTyped(w, o), NEW p \in Peers, NEW g \in Groups, NEW paths,
         NEW held \in SUBSET Paths
  PROVE  \/ Held(w, p, g, paths, held) = AskHoldings(HeldQuiet(w, p, g), p, g)
         \/ 1 \in DOMAIN HeldFiles(HeldQuiet(w, p, g), p, g, paths, held)
<1> DEFINE u == [w EXCEPT !.again[<<p, g>>] = Quiet]
           wanted == {x \in paths \intersect held : <<p, <<g, x>>>> \notin w.denied}
           files  == [i \in 1 .. Cardinality(wanted) |-> <<g, InOrder(wanted)[i]>>]
           pumped == Pump([u EXCEPT !.queued[p] = u.queued[p] \o files], p)
           t == Held(w, p, g, paths, held)
<1>1. t = IF wanted = {} THEN AskHoldings(u, p, g)
          ELSE IF pumped.transfers # u.transfers \/ RunningTransfers(pumped) > 0
               THEN pumped
          ELSE IF pumped.queued[p] # <<>> THEN ResolveStalled(pumped, p)
          ELSE SpendPeer(pumped, p, g)
  BY DEF Held
<1>2. u = HeldQuiet(w, p, g)
  BY DEF HeldQuiet
<1>3. u.denied = w.denied
  BY QuietRetry, AgainFields
<1>4. wanted \in SUBSET Paths /\ IsFiniteSet(Paths)
  BY SupervisorAssumption DEF SupervisorAssumption
<1>5. files = HeldFiles(u, p, g, paths, held)
  <2> HIDE DEF u
  <2> QED BY <1>3 DEF HeldFiles
<1> HIDE DEF u, wanted, pumped, t
<1>6. CASE wanted = {}
  BY <1>1, <1>2, <1>6 DEF t
<1>7. CASE wanted # {}
  <2>1. Cardinality(wanted) \in Nat /\ Cardinality(wanted) # 0
    BY <1>4, <1>7, FS_Subset, FS_CardinalityType, FS_EmptySet
  <2>2. 1 \in DOMAIN files
    BY <2>1
  <2> QED BY <1>2, <1>5, <2>2
<1> QED BY <1>6, <1>7

(***************************************************************************)
(* Files of a group that is not under way with its source, when they are   *)
(* queued there, drive it.                                                 *)
(***************************************************************************)
LEMMA LongerDrives ==
  ASSUME NEW w, NEW o, NEW p \in w.connected, NEW g \in Groups, Driving(w, o, p, {g}),
         Unread(w, p, g), Unqueued(w, p, g), NEW paths, NEW files, HeldList(w, p, g, paths, files),
         \A x \in paths : <<g, x>> \in w.missing, 1 \in DOMAIN files,
         NEW m, Longer(w, m, p, files), Sourced(m, o, w.connected)
  PROVE  Driven(m, o, p, {}, w.connected)
<1>1. /\ SourcesTyped(w, o) /\ p \in Peers /\ w.connected \subseteq Peers
      /\ w.source \in [Groups -> Peers \union {Nobody}] /\ IsQueue(w.queued[p])
  BY DEF Driving, SourcesOK, SourcesTyped, CountsOK
<1>2. PICK s : s = w.queued[p]
  OBVIOUS
<1>3. PICK all : all = s \o files
  OBVIOUS
<1>4. /\ \A f \in {"connected", "transfers", "blobs", "missing", "denied", "reads", "source",
                   "again", "queries"} : m[f] = w[f]
      /\ m.queued[p] = all /\ \A r \in Peers \ {p} : m.queued[r] = w.queued[r]
  BY <1>2, <1>3 DEF Longer
<1>5. /\ IsQueue(files) /\ Len(files) \in Nat /\ DOMAIN files = 1 .. Len(files)
      /\ \A i \in DOMAIN files :
           /\ files[i][1] = g /\ files[i][2] \in paths
           /\ files[i] = <<g, files[i][2]>> /\ <<p, files[i]>> \notin w.denied
      /\ \A i, j \in DOMAIN files : files[i] = files[j] => i = j
  BY DEF HeldList
<1>6. /\ DOMAIN s = 1 .. Len(s) /\ Len(s) \in Nat
      /\ DOMAIN all = 1 .. Len(s) + Len(files)
      /\ \A k \in 1 .. Len(s) : all[k] = s[k]
      /\ \A k \in DOMAIN all : k \in 1 .. Len(s) \/ (k - Len(s) \in 1 .. Len(files)
                                                     /\ all[k] = files[k - Len(s)])
  <2>1. PICK T : s \in Seq(T)
    BY <1>1, <1>2 DEF IsQueue
  <2>2. PICK U : files \in Seq(U)
    BY <1>5 DEF IsQueue
  <2>3. s \in Seq(T \union U) /\ files \in Seq(T \union U)
    BY <2>1, <2>2
  <2> QED BY <1>3, <2>3
<1>7. ASSUME NEW k \in DOMAIN all, k \notin 1 .. Len(s)
      PROVE  all[k][1] = g /\ Obtainable(w, p, all[k])
  <2>1. PICK i \in DOMAIN files : all[k] = files[i]
    BY <1>5, <1>6, <1>7
  <2>2. files[i] \in w.missing
    <3>1. PICK x \in paths : x = files[i][2]
      BY <1>5
    <3>2. files[i] = <<g, x>>
      BY <1>5, <3>1
    <3>3. <<g, x>> \in w.missing
      OBVIOUS
    <3> QED BY <3>2, <3>3
  <2> QED BY <1>5, <2>1, <2>2 DEF Obtainable
<1>8. ASSUME NEW k \in 1 .. Len(s) PROVE all[k][1] # g
  BY <1>2, <1>6 DEF Unqueued
<1>9. OnceQueued(m, p)
  <2>0. OnceQueued(w, p)
    BY DEF Driving, Getting
  <2>1. ASSUME NEW i \in DOMAIN all, NEW j \in DOMAIN all, all[i] = all[j] PROVE i = j
    <3>1. CASE i \in 1 .. Len(s) /\ j \in 1 .. Len(s)
      BY <1>2, <1>6, <2>0, <2>1, <3>1 DEF OnceQueued
    <3>2. CASE i \notin 1 .. Len(s) /\ j \notin 1 .. Len(s)
      <4>1. i - Len(s) \in DOMAIN files /\ j - Len(s) \in DOMAIN files
        BY <1>5, <1>6, <3>2
      <4>2. files[i - Len(s)] = files[j - Len(s)]
        BY <1>6, <2>1, <3>2
      <4>3. i - Len(s) = j - Len(s)
        BY <1>5, <4>1, <4>2
      <4> QED BY <1>6, <4>3
    <3>3. CASE ~(i \in 1 .. Len(s) <=> j \in 1 .. Len(s))
      BY <1>7, <1>8, <2>1, <3>3
    <3> QED BY <3>1, <3>2, <3>3
  <2>2. ASSUME NEW b \in w.blobs, b[1] = p, NEW i \in DOMAIN all PROVE all[i] # b[2]
    <3>1. CASE i \in 1 .. Len(s)
      BY <1>2, <1>6, <2>0, <2>2, <3>1 DEF OnceQueued
    <3>2. CASE i \notin 1 .. Len(s)
      <4>1. all[i][1] = g
        BY <1>7, <3>2
      <4>2. b[2][1] # g
        BY <2>2 DEF Unread
      <4> QED BY <4>1, <4>2
    <3> QED BY <3>1, <3>2
  <2> QED BY <1>4, <2>0, <2>1, <2>2 DEF OnceQueued
<1>10. ~Unqueued(m, p, g)
  <2>1. 1 + Len(s) \in DOMAIN all /\ 1 + Len(s) \notin 1 .. Len(s)
    BY <1>5, <1>6
  <2> QED BY <1>4, <1>7, <2>1 DEF Unqueued
<1>11. ASSUME NEW h \in Groups, ~Unqueued(w, p, h) PROVE ~Unqueued(m, p, h)
  <2>1. PICK k \in DOMAIN s : s[k][1] = h
    BY <1>2, <1>11 DEF Unqueued
  <2>2. k \in DOMAIN all /\ all[k] = s[k]
    BY <1>5, <1>6
  <2> QED BY <1>4, <2>1, <2>2 DEF Unqueued
<1>12. DrivenBut(m, p, {})
  <2> SUFFICES ASSUME NEW h \in Groups, w.source[h] # Nobody PROVE Busy(m, w.source[h], h)
    BY <1>4 DEF DrivenBut
  <2>1. CASE w.source[h] = p /\ h = g
    BY <1>10, <2>1 DEF Busy
  <2>2. CASE ~(w.source[h] = p /\ h = g)
    <3>1. Busy(w, w.source[h], h) /\ w.source[h] \in Peers
      BY <1>1, <2>2 DEF Driving, DrivenBut
    <3>2. ~Unqueued(w, w.source[h], h) => ~Unqueued(m, w.source[h], h)
      <4>1. CASE w.source[h] = p
        BY <1>11, <4>1
      <4>2. CASE w.source[h] # p
        BY <1>4, <3>1, <4>2 DEF Unqueued
      <4> QED BY <4>1, <4>2
    <3> QED BY <1>4, <3>1, <3>2 DEF Busy, Unasked
  <2> QED BY <2>1, <2>2
<1>13. ASSUME NEW r \in w.connected
       PROVE  /\ OnceQueued(m, r)
              /\ \A i \in DOMAIN m.queued[r] : Obtainable(m, r, m.queued[r][i])
  <2>1. OnceQueued(w, r) /\ \A i \in DOMAIN w.queued[r] : Obtainable(w, r, w.queued[r][i])
    BY DEF Driving, Getting
  <2>2. CASE r = p
    <3>1. ASSUME NEW i \in DOMAIN all PROVE Obtainable(w, p, all[i])
      <4>1. CASE i \in 1 .. Len(s)
        BY <1>2, <1>6, <2>1, <2>2, <4>1
      <4>2. CASE i \notin 1 .. Len(s)
        BY <1>7, <4>2
      <4> QED BY <4>1, <4>2
    <3> QED BY <1>4, <1>9, <2>2, <3>1 DEF Obtainable
  <2>3. CASE r # p
    <3>1. m.queued[r] = w.queued[r]
      BY <1>1, <1>4, <2>3
    <3> QED BY <1>4, <2>1, <3>1 DEF OnceQueued, Obtainable
  <2> QED BY <2>2, <2>3
<1>14. Getting(m)
  BY <1>4, <1>13 DEF Driving, Getting
<1>15. Belongs(m)
  BY <1>4 DEF Driving, Belongs
<1> QED BY <1>12, <1>14, <1>15 DEF Driving, Driven, Sourced

(***************************************************************************)
(* So a list of what the source holds keeps all groups driven.             *)
(***************************************************************************)
LEMMA HeldDrives ==
  ASSUME NEW w, NEW o, NEW p \in w.connected, NEW g \in Groups, Driving(w, o, p, {g}),
         w.source[g] = p, Unasked(w, p, g), Unread(w, p, g), Unqueued(w, p, g),
         NEW paths, NEW held \in SUBSET Paths, \A x \in paths : <<g, x>> \in w.missing
  PROVE  Driven(Held(w, p, g, paths, held), o, p, {}, w.connected)
<1> DEFINE u == HeldQuiet(w, p, g)
           m == HeldMore(w, p, g, paths, held)
           files == HeldFiles(u, p, g, paths, held)
           pumped == Pump(m, p)
           t == Held(w, p, g, paths, held)
<1>1. SourcesOK(w, o) /\ SourcesTyped(w, o) /\ p \in Peers
  BY DEF Driving, SourcesOK, SourcesTyped
<1>2. /\ Sourced(u, o, w.connected) /\ u.source = w.source
      /\ Unasked(u, p, g) /\ Unread(u, p, g) /\ Unqueued(u, p, g)
      /\ Sourced(m, o, w.connected) /\ Longer(u, m, p, files)
  BY <1>1, HeldMoreSources
<1>3. HeldEnds(w, u, pumped, t, p, g)
  BY <1>1, HeldCases
<1>4. t = AskHoldings(u, p, g) \/ 1 \in DOMAIN files
  BY <1>1, HeldSome
<1>5. HeldList(u, p, g, paths, files)
  BY HeldFilesAre
<1>6. u = [w EXCEPT !.again[<<p, g>>] = Quiet]
  BY DEF HeldQuiet
<1>7. u.missing = w.missing
  BY <1>1, <1>6, QuietRetry, AgainFields
<1> HIDE DEF u, m, t, files
<1>8. Driven(u, o, p, {g} \union {g}, w.connected)
  BY <1>2, <1>6, QuietRetry, AgainDrives
<1>9. Driving(u, o, p, {g}) /\ u.connected = w.connected /\ p \in u.connected
  BY <1>8 DEF Driven, Driving, DrivenBut
<1>10. ASSUME t = AskHoldings(u, p, g) PROVE Driven(t, o, p, {}, w.connected)
  <2>1. Driven(t, o, p, {g} \ {g}, u.connected)
    BY <1>2, <1>9, <1>10, AskHoldingsDrives
  <2> QED BY <1>9, <2>1 DEF Driven, Driving, DrivenBut
<1>11. ASSUME 1 \in DOMAIN files
       PROVE  /\ Driving(pumped, o, p, {}) /\ pumped.connected = w.connected
              /\ Pumped(m, pumped, p)
  <2>1. Driven(m, o, p, {}, w.connected)
    BY <1>2, <1>5, <1>7, <1>9, <1>11, LongerDrives
  <2>2. Driving(m, o, p, {}) /\ m.connected = w.connected /\ p \in m.connected
    BY <2>1 DEF Driven
  <2> QED BY <2>2, PumpDrives DEF Driven
<1> HIDE DEF pumped
<1>12. ASSUME 1 \in DOMAIN files, t = pumped PROVE Driven(t, o, p, {}, w.connected)
  BY <1>11, <1>12 DEF Driven
<1>13. ASSUME 1 \in DOMAIN files, t = ResolveStalled(pumped, p)
       PROVE  Driven(t, o, p, {}, w.connected)
  BY <1>1, <1>11, <1>13, ResolveDrives
<1>14. ASSUME 1 \in DOMAIN files, t = SpendPeer(pumped, p, g), ~(RunningTransfers(pumped) > 0)
       PROVE  Driven(t, o, p, {}, w.connected)
  <2>1. Driving(pumped, o, p, {}) /\ pumped.connected = w.connected /\ Pumped(m, pumped, p)
    BY <1>11, <1>14
  <2>2. CountsOK(pumped, o)
    BY <2>1 DEF Driving, SourcesOK, SourcesTyped
  <2>3. pumped.transfers[p] = 0
    BY <1>1, <1>14, <2>2, NoneRunning
  <2>4. Unread(pumped, p, g)
    BY <1>1, <2>1, <2>2, <2>3, NothingReads DEF Unread
  <2>5. Unasked(pumped, p, g) /\ pumped.source[g] = p
    BY <1>2, <2>1 DEF Pumped, Longer, Unasked
  <2>6. Driven(t, o, p, {} \ {g}, pumped.connected)
    BY <1>14, <2>1, <2>4, <2>5, SpendPeerDrives
  <2> QED BY <2>1, <2>6 DEF Driven, Driving, DrivenBut
<1>15. Driven(t, o, p, {}, w.connected)
  BY <1>3, <1>4, <1>10, <1>12, <1>13, <1>14 DEF HeldEnds
<1> QED BY <1>15 DEF t

(***************************************************************************)
(* So does a refusal to say: the peer is asked again or given up.          *)
(***************************************************************************)
LEMMA DroppedDrives ==
  ASSUME NEW w, NEW o, NEW p \in w.connected, NEW G, Driving(w, o, p, G), NEW g \in Groups,
         w.source[g] = p, Unasked(w, p, g), Unread(w, p, g), Unqueued(w, p, g),
         NEW u, u = DropQueued(w, p, g)
  PROVE  /\ Driven(u, o, p, G, w.connected) /\ u.source[g] = p
         /\ Unasked(u, p, g) /\ Unread(u, p, g) /\ Unqueued(u, p, g)
<1>1. /\ SourcesOK(w, o) /\ SourcesTyped(w, o) /\ CountsOK(w, o) /\ p \in Peers
      /\ w.connected \subseteq Peers /\ w.source \in [Groups -> Peers \union {Nobody}]
  BY DEF Driving, SourcesOK, SourcesTyped
<1>2. PICK some, kept :
           /\ u = [w EXCEPT !.queued[p] = some]
           /\ Leaves(w.queued[p], g, some, kept)
  BY <1>1, DropQueuedKeeps
<1>3. Counted(u, o, w.connected)
  BY <1>1, DropQueuedCounts
<1>4. /\ DOMAIN u = DOMAIN w
      /\ \A f \in {"connected", "transfers", "blobs", "missing", "denied", "reads",
                   "again", "queries", "source"} : u[f] = w[f]
      /\ u.queued = [w.queued EXCEPT ![p] = some]
  BY <1>1, <1>2 DEF SourcesTyped, CountsOK, Fields, PullFields
<1>5. u.queued[p] = some /\ \A x \in Peers \ {p} : u.queued[x] = w.queued[x]
  BY <1>1, <1>4 DEF CountsOK
<1>6. Sourced(u, o, w.connected)
  <2>1. ASSUME NEW x \in Peers, NEW i \in DOMAIN u.queued[x]
        PROVE  Fetches(w, x, u.queued[x][i][1])
    BY <1>1, <1>2, <1>5 DEF SourcesOK, QueuesOK, Leaves
  <2> QED BY <1>1, <1>3, <1>4, <2>1, QueuesChanged DEF SourcesOK, ReadsOK
<1>7. /\ u.source[g] = p /\ Unasked(u, p, g) /\ Unread(u, p, g)
      /\ Unqueued(u, p, g)
  <2>1. u.source[g] = p /\ Unasked(u, p, g) /\ Unread(u, p, g)
    BY <1>4 DEF Unasked, Unread
  <2>2. Unqueued(u, p, g)
    BY <1>2, <1>5 DEF Unqueued, Leaves
  <2> QED BY <2>1, <2>2
<1>8. ASSUME NEW h \in Groups, ~Unqueued(w, p, h) PROVE ~Unqueued(u, p, h)
  <2>1. PICK k \in DOMAIN w.queued[p] : w.queued[p][k][1] = h
    BY <1>8 DEF Unqueued
  <2>2. h # g
    BY <1>8
  <2>3. PICK i \in DOMAIN some : kept[i] = k /\ some[i] = w.queued[p][kept[i]]
    BY <1>2, <2>1, <2>2 DEF Leaves
  <2> QED BY <1>5, <2>1, <2>3 DEF Unqueued
<1>9. DrivenBut(u, p, G)
  <2> SUFFICES ASSUME NEW h \in Groups, w.source[h] # Nobody, ~(w.source[h] = p /\ h \in G)
               PROVE  Busy(u, w.source[h], h)
    BY <1>4 DEF DrivenBut
  <2>1. Busy(w, w.source[h], h) /\ w.source[h] \in Peers
    BY <1>1 DEF Driving, DrivenBut
  <2>2. ~Unqueued(w, w.source[h], h) => ~Unqueued(u, w.source[h], h)
    <3>1. CASE w.source[h] = p
      BY <1>8, <3>1
    <3>2. CASE w.source[h] # p
      BY <1>5, <2>1, <3>2 DEF Unqueued
    <3> QED BY <3>1, <3>2
  <2> QED BY <1>4, <2>1, <2>2 DEF Busy, Unasked
<1>10. OnceQueued(u, p)
  <2>0. OnceQueued(w, p)
    BY DEF Driving, Getting
  <2>1. ASSUME NEW i \in DOMAIN some, NEW j \in DOMAIN some, some[i] = some[j] PROVE i = j
    <3>1. /\ kept[i] \in DOMAIN w.queued[p] /\ kept[j] \in DOMAIN w.queued[p]
          /\ some[i] = w.queued[p][kept[i]] /\ some[j] = w.queued[p][kept[j]]
      BY <1>2 DEF Leaves
    <3>2. kept[i] = kept[j]
      BY <2>0, <2>1, <3>1 DEF OnceQueued
    <3> QED BY <1>2, <3>2 DEF Leaves
  <2>2. ASSUME NEW b \in w.blobs, b[1] = p, NEW i \in DOMAIN some PROVE some[i] # b[2]
    BY <1>2, <2>0, <2>2 DEF Leaves, OnceQueued
  <2> QED BY <1>4, <1>5, <2>0, <2>1, <2>2 DEF OnceQueued
<1>11. ASSUME NEW r \in w.connected
       PROVE  /\ OnceQueued(u, r)
              /\ \A i \in DOMAIN u.queued[r] : Obtainable(u, r, u.queued[r][i])
  <2>1. OnceQueued(w, r) /\ \A i \in DOMAIN w.queued[r] : Obtainable(w, r, w.queued[r][i])
    BY DEF Driving, Getting
  <2>2. CASE r = p
    <3>1. \A i \in DOMAIN some : \E k \in DOMAIN w.queued[p] : some[i] = w.queued[p][k]
      BY <1>2 DEF Leaves
    <3> QED BY <1>4, <1>5, <1>10, <2>1, <2>2, <3>1 DEF Obtainable
  <2>3. CASE r # p
    <3>1. u.queued[r] = w.queued[r]
      BY <1>1, <1>5, <2>3
    <3> QED BY <1>4, <2>1, <3>1 DEF OnceQueued, Obtainable
  <2> QED BY <2>2, <2>3
<1>12. Getting(u)
  BY <1>4, <1>11 DEF Driving, Getting
<1>13. Belongs(u)
  BY <1>4 DEF Driving, Belongs
<1> QED BY <1>6, <1>7, <1>9, <1>12, <1>13 DEF Driving, Driven, Sourced

(***************************************************************************)
(* With it gone, the question is armed again, or the peer given up.        *)
(***************************************************************************)
LEMMA RefusedDrives ==
  ASSUME NEW w, NEW o, NEW p \in w.connected, NEW g \in Groups, Driving(w, o, p, {g}),
         w.source[g] = p, Unasked(w, p, g), Unread(w, p, g), Unqueued(w, p, g)
  PROVE  Driven(Refused(w, p, g), o, p, {}, w.connected)
<1> DEFINE u == DropQueued(w, p, g)
           left == u.again[<<p, g>>].left
           a == [u EXCEPT !.again[<<p, g>>] = Quiet]
           r == [of |-> "holdings", armed |-> TRUE, left |-> left - 1]
           b == [u EXCEPT !.again[<<p, g>>] = r]
           t == Refused(w, p, g)
<1>1. (left = 0 /\ t = SpendPeer(a, p, g)) \/ (left # 0 /\ t = b)
  BY DEF Refused
<1> HIDE DEF t
<1>2. /\ Driven(u, o, p, {g}, w.connected) /\ u.source[g] = p
      /\ Unasked(u, p, g) /\ Unread(u, p, g) /\ Unqueued(u, p, g)
  BY DroppedDrives
<1> HIDE DEF u
<1>3. /\ Driving(u, o, p, {g}) /\ SourcesOK(u, o) /\ SourcesTyped(u, o)
      /\ u.connected = w.connected /\ p \in u.connected /\ p \in Peers
  BY <1>2 DEF Driven, Driving, SourcesOK, SourcesTyped
<1>4. ASSUME left = 0 /\ t = SpendPeer(a, p, g) PROVE Driven(t, o, p, {}, w.connected)
  <2>1. Sourced(a, o, u.connected) /\ a.source = u.source
    BY <1>2, <1>3, QuietRetry, AgainSources
  <2>2. /\ a.blobs = u.blobs /\ a.queries = u.queries /\ a.again[<<p, g>>] = Quiet
    BY <1>3, QuietRetry, AgainFields
  <2>3. Driven(a, o, p, {g} \union {g}, u.connected)
    BY <1>3, <2>1, QuietRetry, AgainDrives
  <2> HIDE DEF a
  <2>4. /\ Driving(a, o, p, {g}) /\ a.connected = w.connected /\ a.source[g] = p
        /\ Unasked(a, p, g) /\ Unread(a, p, g)
    BY <1>2, <1>3, <2>1, <2>2, <2>3, QuietRetry DEF Driven, Driving, DrivenBut, Unasked, Unread
  <2>5. Driven(t, o, p, {g} \ {g}, a.connected)
    BY <1>4, <2>4, SpendPeerDrives
  <2> QED BY <2>4, <2>5 DEF Driven, Driving, DrivenBut
<1>5. ASSUME left # 0 /\ t = b PROVE Driven(t, o, p, {}, w.connected)
  <2>1. u.again[<<p, g>>] \in Retry
    BY <1>3 DEF SourcesTyped
  <2>2. left \in Nat /\ left <= RetryAttempts /\ RetryAttempts \in Nat
    BY <2>1, RetryFields, AttemptsNat
  <2>3. r \in Retry /\ r.armed
    <3>1. left - 1 \in 0 .. RetryAttempts
      BY <1>5, <2>2
    <3> HIDE DEF left
    <3> QED BY <3>1 DEF Retry
  <2> HIDE DEF r, left
  <2>4. Sourced(b, o, u.connected)
    BY <1>2, <1>3, <2>3, AgainSources DEF Unasked
  <2>5. b.again[<<p, g>>] = r
    BY <1>3, <2>3, AgainFields
  <2>6. Driven(b, o, p, {g} \union {g}, u.connected)
    BY <1>3, <2>3, <2>4, AgainDrives
  <2> HIDE DEF b
  <2>7. Busy(b, p, g)
    BY <2>3, <2>5 DEF Busy, Unasked
  <2>8. DrivenBut(b, p, {})
    BY <2>6, <2>7 DEF Driven, Driving, DrivenBut
  <2> QED BY <1>3, <1>5, <2>6, <2>8 DEF Driven, Driving
<1> HIDE DEF left, a, b
<1>6. Driven(t, o, p, {}, w.connected)
  BY <1>1, <1>4, <1>5
<1> QED BY <1>6 DEF t

-----------------------------------------------------------------------------
(***************************************************************************)
(* So lists of what peers hold and transfers that end keep the sources     *)
(* driven, as long as none comes after its peer had gone, and no peer is   *)
(* asked for a group a question about which is open.                       *)
(***************************************************************************)
LEMMA ContentMoves ==
  ASSUME Pulling, Moving(v), CallInv, Content, spoiled' \intersect {"stray", "twice"} = {}
  PROVE  Moving(v')
<1> USE PullingFields
<1>0. SourcesOK(v, Opening(link))
  BY DEF Pulling
<1>1. ASSUME NEW q \in v.queries, HoldingsRefused(q) PROVE Moving(v')
  <2>1. PICK w : w = [v EXCEPT !.queries = v.queries \ {q}]
    OBVIOUS
  <2>2. HappensWith(Refused(w, q[1], q[2]), quiet, {}) /\ link[q[1]] = "ready"
    BY <1>1, <2>1 DEF HoldingsRefused, Happens
  <2>3. PICK p, g : p = q[1] /\ g = q[2]
    OBVIOUS
  <2>4. p \in v.connected
    BY <1>0, <2>2, <2>3 DEF CallInv, SourcesOK, QueriesOK
  <2>5. PICK x : x = v
    OBVIOUS
  <2>6. SourcesOK(x, Opening(link)) /\ Moving(x) /\ q \in x.queries /\ p \in x.connected
    BY <1>0, <2>4, <2>5
  <2>7. w = [x EXCEPT !.queries = x.queries \ {q}]
    BY <2>1, <2>5
  <2>8. TakenAlone(x, w, Opening(link), p, g)
    BY <2>3, <2>6, <2>7, TakenDrives
  <2>9. Driving(w, Opening(link), p, {g}) /\ p \in w.connected
    BY <2>6, <2>8 DEF TakenAlone, Driven
  <2>10. Driven(Refused(w, p, g), Opening(link), p, {}, w.connected)
    BY <2>8, <2>9, RefusedDrives DEF TakenAlone
  <2> QED BY <2>2, <2>3, <2>10, HappeningDriven
<1>2. ASSUME NEW q \in v.queries, NEW held \in SUBSET Paths, HoldingsAnswered(q, held)
      PROVE Moving(v')
  <2>1. PICK w : w = [v EXCEPT !.queries = v.queries \ {q}]
    OBVIOUS
  <2>2. HappensWith(Held(w, q[1], q[2], q[3], held), quiet, {}) /\ q[1] \in v.connected
    BY <1>2, <2>1 DEF HoldingsAnswered, Happens
  <2>3. PICK p, g, paths : p = q[1] /\ g = q[2] /\ paths = q[3]
    OBVIOUS
  <2>4. \A y \in paths : <<g, y>> \in v.missing
    BY <2>2, <2>3 DEF Moving, Getting
  <2>5. PICK x : x = v
    OBVIOUS
  <2>6. SourcesOK(x, Opening(link)) /\ Moving(x) /\ q \in x.queries /\ p \in x.connected
    BY <1>0, <2>2, <2>3, <2>5
  <2>7. w = [x EXCEPT !.queries = x.queries \ {q}]
    BY <2>1, <2>5
  <2>8. TakenAlone(x, w, Opening(link), p, g)
    BY <2>3, <2>6, <2>7, TakenDrives
  <2>9. Driving(w, Opening(link), p, {g}) /\ p \in w.connected
    BY <2>6, <2>8 DEF TakenAlone, Driven
  <2>10. Driven(Held(w, p, g, paths, held), Opening(link), p, {}, w.connected)
    BY <2>4, <2>5, <2>8, <2>9, HeldDrives DEF TakenAlone
  <2> QED BY <2>2, <2>3, <2>10, HappeningDriven
<1>3. ASSUME NEW b \in v.blobs, NEW w, TransferEnds(w, b[1]), Settles(v, w, b)
      PROVE  Moving(v')
  <2>1. PICK p : p = b[1]
    OBVIOUS
  <2>2. /\ HappensWith(Freed(w, p), quiet, {}) /\ link[p] = "ready" /\ ~Twice(w, p)
    BY <1>3, <2>1 DEF TransferEnds, Happens
  <2>3. p \in v.connected
    BY <1>0, <2>1, <2>2 DEF CallInv, SourcesOK, SourcesTyped, CountsOK
  <2>4. PICK x : x = v
    OBVIOUS
  <2>5. PICK t : t = Freed(w, p)
    OBVIOUS
  <2>6. Driven(t, Opening(link), p, {}, x.connected)
    BY <1>0, <1>3, <2>1, <2>2, <2>3, <2>4, <2>5, FreedDrives
  <2> QED BY <2>2, <2>5, <2>6, HappeningDriven
<1>4. ASSUME NEW b \in v.blobs, BlobDone(b) PROVE Moving(v')
  <2> DEFINE w == [v EXCEPT !.blobs = v.blobs \ {b}, !.missing = v.missing \ {b[2]}]
  <2>1. TransferEnds(w, b[1])
    BY <1>4 DEF BlobDone
  <2>2. Settles(v, w, b)
    BY DEF Settles, Read, Fields, PullFields
  <2> HIDE DEF w
  <2> QED BY <1>3, <2>1, <2>2
<1>5. ASSUME NEW b \in v.blobs, NEW terminal, BlobFails(b, terminal) PROVE Moving(v')
  <2> DEFINE w == [v EXCEPT !.blobs = v.blobs \ {b},
                     !.denied = IF terminal THEN v.denied \union {<<b[1], b[2]>>}
                                ELSE v.denied]
  <2>1. TransferEnds(w, b[1])
    BY <1>5 DEF BlobFails
  <2>2. Settles(v, w, b)
    BY DEF Settles, Read, Fields, PullFields
  <2> HIDE DEF w
  <2> QED BY <1>3, <2>1, <2>2
<1> QED BY <1>1, <1>2, <1>4, <1>5 DEF Content

(***************************************************************************)
(* The invariant of the sources: they are driven, as long as no answer     *)
(* came after its peer had gone, no peer was asked for a group while a     *)
(* question about it was open, and no file asked for came by other means.  *)
(***************************************************************************)
MoveInv == spoiled \intersect {"stray", "twice", "vanished"} = {} => Moving(v)

(***************************************************************************)
(* It holds when nothing is sourced yet,                                   *)
(***************************************************************************)
LEMMA MovesStart == Init => MoveInv
<1> SUFFICES ASSUME Init PROVE Moving(v)
  BY DEF MoveInv
<1>1. /\ v.connected = {} /\ v.queries = {} /\ v.reads = {}
      /\ v.source = [g \in Groups |-> Nobody]
  BY DEF Init
<1> QED BY <1>1 DEF Moving, DrivenBut, Getting, Belongs

(***************************************************************************)
(* and every step keeps it.                                                *)
(***************************************************************************)
LEMMA MovesKeep ==
  ASSUME PullInv, MoveInv, CallInv, [Next]_vars
  PROVE  MoveInv'
<1> SUFFICES ASSUME spoiled' \intersect {"stray", "twice", "vanished"} = {} PROVE Moving(v')
  BY DEF MoveInv
<1>1. Pulling /\ Moving(v)
  BY SpoiledStays DEF PullInv, MoveInv
<1>2. spoiled' \intersect {"stray", "twice"} = {} /\ "vanished" \notin spoiled'
  OBVIOUS
<1>3. CASE UNCHANGED vars
  BY <1>1, <1>3 DEF vars
<1>4. ASSUME NEW t \in Timers, Tick(t) PROVE Moving(v')
  BY <1>1, <1>4, TickMoves
<1> QED BY <1>1, <1>2, <1>3, <1>4, NetworkMoves, RoundsMove, ContentMoves, UserMoves DEF Next

(***************************************************************************)
(* No group waits on a source that nothing will move: the source is a      *)
(* connected peer with which a transfer runs, or which has files queued,   *)
(* or is asked what it holds or will be asked again, whatever the order in *)
(* which lists come, transfers end or fail, questions are refused and      *)
(* connections break; unless an answer came after its peer had gone, a     *)
(* peer was asked for a group twice at a time, or a file asked for came    *)
(* by other means (Supervisor::ask_holdings, on_holdings, pump,            *)
(* resolve_stalled, continue_pull, arm_holdings_retry, spend_peer,         *)
(* PeerEvent::Gone).                                                       *)
(***************************************************************************)
THEOREM SourcesStayDriven == Spec => []SourceDriven
<1>1. MoveInv /\ PullInv /\ CallInv /\ [Next]_vars => MoveInv'
  BY MovesKeep
<1>2. PullInv /\ CallInv /\ [Next]_vars => PullInv'
  BY PullsKeep
<1>3. MoveInv => SourceDriven
  <2> SUFFICES ASSUME Moving(v), NEW g \in Groups, NEW p, p = v.source[g], p # Nobody
               PROVE  /\ p \in v.connected
                      /\ \/ v.transfers[p] > 0 \/ v.queued[p] # <<>>
                         \/ v.again[<<p, g>>].armed
                         \/ \E q \in v.queries : q[1] = p /\ q[2] = g
    BY DEF MoveInv, SourceDriven
  <2>1. p \in v.connected
    BY DEF Moving, Belongs
  <2>2. Busy(v, p, g)
    BY DEF Moving, DrivenBut
  <2>3. ~Unqueued(v, p, g) => v.queued[p] # <<>>
    BY DEF Unqueued
  <2> QED BY <2>1, <2>2, <2>3 DEF Busy, Unasked
<1>4. Init => MoveInv /\ PullInv
  BY MovesStart, SourcesStart DEF PullInv
<1> QED BY <1>1, <1>2, <1>3, <1>4, CallsInvariant, PTL DEF Spec

=============================================================================
