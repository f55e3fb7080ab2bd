-------------------------- MODULE SupervisorProofs --------------------------
(***************************************************************************)
(* Theorems about Supervisor, for every set of peers, groups and files,    *)
(* every membership and every limit: a peer is asked a bounded number of   *)
(* times between two answers (TriesStayBounded); the transfers the         *)
(* supervisor counts are the ones that run, within the limit               *)
(* (CountsStayTrue); and a peer listed for news stays listed until it is   *)
(* asked or cannot be dialled (NewsStaysKept).  SupervisorPullProofs has   *)
(* those about the sources of the groups.                                  *)
(*                                                                         *)
(* CallInv is the inductive invariant of the first: for each peer, how     *)
(* often the round was asked and how often it may still be asked again     *)
(* never exceed the limit together, a round is armed again only when none  *)
(* is under way, and nothing is held for a peer without a connection.      *)
(* LoadInv is that of the second: for each connected peer as many          *)
(* transfers as reads of bytes, for any other none and no queue, nothing   *)
(* yet on a connection that is opening, and no more slots taken than there *)
(* are.                                                                    *)
(* NewsInv is that of the third, beside CallInv: nothing is under way with *)
(* a peer whose connection is being made, nor with a connected one listed  *)
(* for news since nothing was asked of it, and dials are counted to the    *)
(* limit only while one is under way.                                      *)
(*                                                                         *)
(* An event changes the record v by a dozen small functions in turn, few   *)
(* of which touch what these invariants speak of. SameRounds, SameLoads    *)
(* and SameNews say that one leaves alone what CallInv, LoadInv or NewsInv *)
(* reads; most of what follows says so of each function, and the rest is   *)
(* what the others do.                                                     *)
(***************************************************************************)
EXTENDS Supervisor, FiniteSetTheorems, FunctionTheorems, WellFoundedInduction, TLAPS

(***************************************************************************)
(* The fields of v the invariants speak of.                                *)
(***************************************************************************)
Fields == {"connected", "started", "retry", "asks", "transfers", "blobs", "queued"}

(***************************************************************************)
(* u is w as far as the rounds, the transfers, or both are concerned.      *)
(***************************************************************************)
SameRounds(w, u) ==
  /\ DOMAIN u = DOMAIN w
  /\ \A f \in {"connected", "started", "retry", "asks"} : u[f] = w[f]

SameLoads(w, u) ==
  /\ DOMAIN u = DOMAIN w
  /\ \A f \in {"connected", "transfers", "blobs", "queued"} : u[f] = w[f]

Same(w, u) == SameRounds(w, u) /\ SameLoads(w, u)

(***************************************************************************)
(* Changing nothing leaves the rounds and the transfers alone.             *)
(***************************************************************************)
LEMMA SameReflexive == \A w : Same(w, w) /\ SameRounds(w, w)
  BY DEF Same, SameRounds, SameLoads

(***************************************************************************)
(* Two changes in a row that leave the rounds, or both, alone leave them   *)
(* alone.                                                                  *)
(***************************************************************************)
LEMMA SameTransitive ==
  \A a, b, c : /\ SameRounds(a, b) /\ SameRounds(b, c) => SameRounds(a, c)
               /\ Same(a, b) /\ Same(b, c) => Same(a, c)
  BY DEF Same, SameRounds, SameLoads

(***************************************************************************)
(* A dial that is made or put off touches neither (dial).                  *)
(***************************************************************************)
LEMMA DialSame == \A w, p : Fields \subseteq DOMAIN w => Same(w, Dial(w, p))
  BY DEF Dial, Same, SameRounds, SameLoads, Fields

(***************************************************************************)
(* Nor do the dials of a tick (queue_dials).                               *)
(***************************************************************************)
LEMMA QueueDialsSame ==
  \A w, order : Fields \subseteq DOMAIN w => Same(w, QueueDials(w, order))
  BY DialSame, SameReflexive DEF QueueDials

(***************************************************************************)
(* Nor does taking spent peers back (reconsider_content).                  *)
(***************************************************************************)
LEMMA ReconsiderSame ==
  \A w, gs : Fields \subseteq DOMAIN w => Same(w, Reconsider(w, gs))
  BY DEF Reconsider, Same, SameRounds, SameLoads, Fields

(***************************************************************************)
(* Giving a peer up as a source leaves the rounds alone (spend_peer); it   *)
(* empties a queue.                                                        *)
(***************************************************************************)
LEMMA SpendPeerSame ==
  \A w, p, g : Fields \subseteq DOMAIN w => SameRounds(w, SpendPeer(w, p, g))
  BY DEF SpendPeer, ReleaseSource, LetGo, DropQueued, SameRounds, Fields

(***************************************************************************)
(* So does asking what it holds, which gives it up when there is nothing   *)
(* to ask for (ask_holdings).                                              *)
(***************************************************************************)
LEMMA AskHoldingsSame ==
  \A w, p, g : Fields \subseteq DOMAIN w => SameRounds(w, AskHoldings(w, p, g))
  BY SpendPeerSame DEF AskHoldings, SameRounds, Fields

(***************************************************************************)
(* So does opening a pull from a peer (open_pull).                         *)
(***************************************************************************)
LEMMA OpenPullSame ==
  \A w, p, g : Fields \subseteq DOMAIN w => SameRounds(w, OpenPull(w, p, g))
<1> TAKE w, p, g
<1> HAVE Fields \subseteq DOMAIN w
<1> DEFINE u == [w EXCEPT !.source[g] = p]
<1>1. SameRounds(w, u) /\ Fields \subseteq DOMAIN u
  BY DEF SameRounds, Fields
<1>2. SameRounds(u, AskHoldings(u, p, g))
  <2> HIDE DEF u
  <2> QED BY <1>1, AskHoldingsSame
<1>3. OpenPull(w, p, g) = w \/ OpenPull(w, p, g) = AskHoldings(u, p, g)
  BY DEF OpenPull
<1> QED BY <1>1, <1>2, <1>3, SameReflexive, SameTransitive

(***************************************************************************)
(* So does the next page of one group (continue_pull, one step of its      *)
(* loop).                                                                  *)
(***************************************************************************)
LEMMA NextPageSame ==
  \A w, p, g : Fields \subseteq DOMAIN w => SameRounds(w, NextPage(w, p, g))
  BY AskHoldingsSame, OpenPullSame, SameReflexive DEF NextPage

(***************************************************************************)
(* So does starting the transfers there is room for (pump).                *)
(***************************************************************************)
LEMMA PumpSame ==
  \A w, p : Fields \subseteq DOMAIN w => SameRounds(w, Pump(w, p))
  BY DEF Pump, SameRounds, Fields

(***************************************************************************)
(* So does dropping what a stalled peer has queued (resolve_stalled).      *)
(***************************************************************************)
LEMMA ResolveSame ==
  \A w, p : Fields \subseteq DOMAIN w => SameRounds(w, ResolveStalled(w, p))
  BY DEF ResolveStalled, SameRounds, Fields

(***************************************************************************)
(* So does doing both for a peer with files queued (pump_queues, one step  *)
(* of its loop).                                                           *)
(***************************************************************************)
LEMMA PumpQueueSame ==
  \A w, p : Fields \subseteq DOMAIN w => SameRounds(w, PumpQueue(w, p))
  BY PumpSame, ResolveSame, SameReflexive DEF PumpQueue, SameRounds

(***************************************************************************)
(* What a tick does about one group (arm) touches neither the rounds nor   *)
(* the transfers: it decides whom to ask and dial.                         *)
(***************************************************************************)
LEMMA ArmSame ==
  \A w, g : Fields \subseteq DOMAIN w => Same(w, Arm(w, g))
<1> TAKE w, g
<1> HAVE Fields \subseteq DOMAIN w
<1> DEFINE new == IF g \notin w.wanted THEN w
                  ELSE [Reconsider(w, {g}) EXCEPT
                      !.wanted = w.wanted \ {g},
                      !.asked = [x \in Peers \X Groups |->
                                   IF x[2] = g THEN 0 ELSE w.asked[x]]]
           told == IF g \notin w.news THEN new
                   ELSE [new EXCEPT !.news = new.news \ {g},
                      !.pending = new.pending \union
                        (MembersOf[g] \intersect (w.connected \union w.online))]
           next == NextMember(told, g, {})
<1>1. Same(w, new)
  BY ReconsiderSame DEF Same, SameRounds, SameLoads, Fields
<1>2. Same(w, told)
  <2> HIDE DEF new
  <2> QED BY <1>1 DEF Same, SameRounds, SameLoads, Fields
<1>3. \/ Arm(w, g) = told
      \/ Arm(w, g) = [told EXCEPT !.due = told.due \ {g}]
      \/ Arm(w, g) = [told EXCEPT !.due = told.due \ {g}, !.turn[g] = next.turn,
                                  !.pending = told.pending \union {next.peer}]
  BY DEF Arm
<1> HIDE DEF new, told, next
<1>4. Fields \subseteq DOMAIN told
  BY <1>2 DEF Same, SameRounds
<1>5. ASSUME NEW due PROVE Same(told, [told EXCEPT !.due = due])
  BY <1>4 DEF Same, SameRounds, SameLoads, Fields
<1>6. ASSUME NEW due, NEW turn, NEW pending
      PROVE  Same(told, [told EXCEPT !.due = due, !.turn[g] = turn, !.pending = pending])
  BY <1>4 DEF Same, SameRounds, SameLoads, Fields
<1> QED BY <1>2, <1>3, <1>5, <1>6, SameTransitive

(***************************************************************************)
(* Nor does giving a group up for a while (exhaust_group).                 *)
(***************************************************************************)
LEMMA ExhaustSame ==
  \A w, g : Fields \subseteq DOMAIN w => Same(w, ExhaustGroup(w, g))
  BY DEF ExhaustGroup, Same, SameRounds, SameLoads, Fields

(***************************************************************************)
(* Looking for a source of one group leaves the rounds alone               *)
(* (content_pulls, one step of its loop).                                  *)
(***************************************************************************)
LEMMA PullForSame ==
  \A w, g : Fields \subseteq DOMAIN w => SameRounds(w, PullFor(w, g))
  BY ExhaustSame, OpenPullSame, DialSame, SameReflexive DEF PullFor, Same, SameRounds, Fields

(***************************************************************************)
(* So does asking again what a peer holds (retries).                       *)
(***************************************************************************)
LEMMA RequerySame ==
  \A w, x : Fields \subseteq DOMAIN w => SameRounds(w, Requery(w, x))
  BY AskHoldingsSame, SameReflexive DEF Requery, SameRounds, Fields

(***************************************************************************)
(* Proposing to close touches neither (closes).                            *)
(***************************************************************************)
LEMMA ClosesSame ==
  \A w : Fields \subseteq DOMAIN w => Same(w, Closes(w))
  BY DEF Closes, Same, SameRounds, SameLoads, Fields

-----------------------------------------------------------------------------
(***************************************************************************)
(* A set of natural numbers that is not empty has a least element.         *)
(***************************************************************************)
LEMMA LeastNumber ==
  ASSUME NEW T \in SUBSET Nat, T # {}
  PROVE  \E x \in T : \A y \in T : x <= y
<1> DEFINE R == {ss \in Nat \X Nat : ss[1] < ss[2]}
<1>1. IsWellFoundedOn(R, Nat)
  BY NatLessThanWellFounded DEF OpToRel
<1>2. \A x, y \in Nat : x < y => <<x, y>> \in R
  OBVIOUS
<1> HIDE DEF R
<1>3. PICK x \in T : \A y \in T : ~(<<y, x>> \in R)
  BY <1>1, WFMin
<1>4. ASSUME NEW y \in T PROVE x <= y
  <2>1. x \in Nat /\ y \in Nat
    OBVIOUS
  <2>2. ~(y < x)
    BY <1>2, <1>3, <2>1
  <2> QED BY <2>1, <2>2
<1> QED BY <1>4

(***************************************************************************)
(* Induction up to a number, for a set.                                    *)
(***************************************************************************)
LEMMA UpTo ==
  ASSUME NEW n \in Nat, NEW S, 0 \in S, \A i \in 1 .. n : i - 1 \in S => i \in S
  PROVE  0 .. n \subseteq S
<1> DEFINE T == (0 .. n) \ S
<1>1. SUFFICES ASSUME T # {} PROVE FALSE
  OBVIOUS
<1>2. T \in SUBSET Nat
  OBVIOUS
<1>3. PICK x \in T : \A y \in T : x <= y
  <2> HIDE DEF T
  <2> QED BY <1>1, <1>2, LeastNumber
<1>4. x \in 1 .. n
  OBVIOUS
<1>5. x - 1 \in 0 .. n /\ x - 1 \notin T
  BY <1>3, <1>4
<1> QED BY <1>4, <1>5

(***************************************************************************)
(* The files or groups of a set, put in order, are a sequence.             *)
(***************************************************************************)
LEMMA InOrderLength ==
  \A S : IsFiniteSet(S) => Len(InOrder(S)) \in Nat
  BY FS_CardinalityType DEF InOrder

(***************************************************************************)
(* So are the elements of a finite set.                                    *)
(***************************************************************************)
LEMMA SetToSeqLength ==
  ASSUME NEW S, IsFiniteSet(S)
  PROVE  Len(SetToSeq(S)) \in Nat
<1>1. ExistsBijection(1 .. Cardinality(S), S) /\ Cardinality(S) \in Nat
  BY FS_NatBijection, FS_CardinalityType
<1>2. PICK f \in [1 .. Cardinality(S) -> S] : IsInjective(f)
  BY <1>1 DEF ExistsBijection, Bijection, Injection, IsInjective
<1>3. SetToSeq(S) \in [1 .. Cardinality(S) -> S]
  BY <1>2 DEF SetToSeq
<1> QED BY <1>1, <1>3

(***************************************************************************)
(* A walk over a sequence is a run that starts at w and takes one step for *)
(* each element. The provers take no operator as a parameter, so that the  *)
(* lemma is stated and proved for each walk: over the groups a peer may    *)
(* have more of (continue_pull) ...                                        *)
(***************************************************************************)
LEMMA NextPagesRun ==
  ASSUME NEW w, NEW p, NEW seq, Len(seq) \in Nat
  PROVE  \E run : /\ run[0] = w
                  /\ \A i \in 1 .. Len(seq) : run[i] = NextPage(run[i - 1], p, seq[i])
                  /\ NextPages(w, p, seq) = run[Len(seq)]
<1> DEFINE Run(k, f) == f = [i \in 0 .. k |-> IF i = 0 THEN w
                                              ELSE NextPage(f[i - 1], p, seq[i])]
           S == {k \in Nat : \E f : Run(k, f)}
           run == CHOOSE f : Run(Len(seq), f)
<1>1. 0 \in S
  <2>1. Run(0, [i \in 0 .. 0 |-> w])
    OBVIOUS
  <2> QED BY <2>1
<1>2. ASSUME NEW k \in 1 .. Len(seq), k - 1 \in S PROVE k \in S
  <2>1. PICK f : Run(k - 1, f)
    BY <1>2
  <2>2. PICK more : more = NextPage(f[k - 1], p, seq[k])
    OBVIOUS
  <2> DEFINE h == [i \in 0 .. k |-> IF i = k THEN more ELSE f[i]]
  <2>3. ASSUME NEW i \in 0 .. k
        PROVE  h[i] = IF i = 0 THEN w ELSE NextPage(h[i - 1], p, seq[i])
    <3>1. CASE i = k
      BY <2>2, <3>1
    <3>2. CASE i # k
      <4>1. i \in 0 .. k - 1 /\ h[i] = f[i] /\ (i # 0 => h[i - 1] = f[i - 1])
        BY <3>2
      <4>2. f[i] = IF i = 0 THEN w ELSE NextPage(f[i - 1], p, seq[i])
        BY <2>1, <4>1
      <4> QED BY <4>1, <4>2
    <3> QED BY <3>1, <3>2
  <2>4. h = [i \in 0 .. k |-> h[i]]
    OBVIOUS
  <2> HIDE DEF h
  <2>5. Run(k, h)
    BY <2>3, <2>4
  <2> QED BY <2>5
<1>3. Len(seq) \in S
  <2> HIDE DEF S
  <2>1. 0 .. Len(seq) \subseteq S
    BY <1>1, <1>2, UpTo
  <2> QED BY <2>1
<1>4. Run(Len(seq), run)
  <2>1. PICK f : Run(Len(seq), f)
    BY <1>3
  <2> HIDE DEF Run
  <2> QED BY <2>1
<1>5. NextPages(w, p, seq) = run[Len(seq)]
  BY DEF NextPages
<1>6. run[0] = w /\ \A i \in 1 .. Len(seq) : run[i] = NextPage(run[i - 1], p, seq[i])
  <2> HIDE DEF run
  <2>1. PICK first : first = w
    OBVIOUS
  <2>2. run = [i \in 0 .. Len(seq) |-> IF i = 0 THEN first
                                       ELSE NextPage(run[i - 1], p, seq[i])]
    BY <1>4, <2>1
  <2>3. run[0] = first
    BY <2>2
  <2>4. ASSUME NEW i \in 1 .. Len(seq)
        PROVE  run[i] = NextPage(run[i - 1], p, seq[i])
    BY <2>2
  <2> HIDE DEF Run, S
  <2> QED BY <2>1, <2>3, <2>4
<1> HIDE DEF run
<1> QED BY <1>5, <1>6

(***************************************************************************)
(* ... which leaves the rounds alone;                                      *)
(***************************************************************************)
LEMMA NextPagesSame ==
  ASSUME NEW w, Fields \subseteq DOMAIN w, NEW p, NEW seq, Len(seq) \in Nat
  PROVE  SameRounds(w, NextPages(w, p, seq))
<1>1. PICK run : /\ run[0] = w
                 /\ \A i \in 1 .. Len(seq) : run[i] = NextPage(run[i - 1], p, seq[i])
                 /\ NextPages(w, p, seq) = run[Len(seq)]
  BY NextPagesRun
<1> DEFINE T == {i \in 0 .. Len(seq) : SameRounds(w, run[i])}
<1>2. 0 \in T
  BY <1>1, SameReflexive
<1>3. ASSUME NEW i \in 1 .. Len(seq), i - 1 \in T PROVE i \in T
  <2>1. SameRounds(w, run[i - 1]) /\ Fields \subseteq DOMAIN run[i - 1]
    BY <1>3 DEF Same, SameRounds
  <2>2. SameRounds(run[i - 1], run[i])
    BY <1>1, <2>1, NextPageSame
  <2> QED BY <2>1, <2>2, SameTransitive
<1> HIDE DEF T
<1>4. Len(seq) \in T
  <2>1. 0 .. Len(seq) \subseteq T
    BY <1>2, <1>3, UpTo
  <2> QED BY <2>1
<1> QED BY <1>1, <1>4 DEF T

(***************************************************************************)
(* over the peers with files queued (pump_queues) ...                      *)
(***************************************************************************)
LEMMA PumpQueuesRun ==
  ASSUME NEW w, NEW seq, Len(seq) \in Nat
  PROVE  \E run : /\ run[0] = w
                  /\ \A i \in 1 .. Len(seq) : run[i] = PumpQueue(run[i - 1], seq[i])
                  /\ PumpQueues(w, seq) = run[Len(seq)]
<1> DEFINE Run(k, f) == f = [i \in 0 .. k |-> IF i = 0 THEN w
                                              ELSE PumpQueue(f[i - 1], seq[i])]
           S == {k \in Nat : \E f : Run(k, f)}
           run == CHOOSE f : Run(Len(seq), f)
<1>1. 0 \in S
  <2>1. Run(0, [i \in 0 .. 0 |-> w])
    OBVIOUS
  <2> QED BY <2>1
<1>2. ASSUME NEW k \in 1 .. Len(seq), k - 1 \in S PROVE k \in S
  <2>1. PICK f : Run(k - 1, f)
    BY <1>2
  <2>2. PICK more : more = PumpQueue(f[k - 1], seq[k])
    OBVIOUS
  <2> DEFINE h == [i \in 0 .. k |-> IF i = k THEN more ELSE f[i]]
  <2>3. ASSUME NEW i \in 0 .. k
        PROVE  h[i] = IF i = 0 THEN w ELSE PumpQueue(h[i - 1], seq[i])
    <3>1. CASE i = k
      BY <2>2, <3>1
    <3>2. CASE i # k
      <4>1. i \in 0 .. k - 1 /\ h[i] = f[i] /\ (i # 0 => h[i - 1] = f[i - 1])
        BY <3>2
      <4>2. f[i] = IF i = 0 THEN w ELSE PumpQueue(f[i - 1], seq[i])
        BY <2>1, <4>1
      <4> QED BY <4>1, <4>2
    <3> QED BY <3>1, <3>2
  <2>4. h = [i \in 0 .. k |-> h[i]]
    OBVIOUS
  <2> HIDE DEF h
  <2>5. Run(k, h)
    BY <2>3, <2>4
  <2> QED BY <2>5
<1>3. Len(seq) \in S
  <2> HIDE DEF S
  <2>1. 0 .. Len(seq) \subseteq S
    BY <1>1, <1>2, UpTo
  <2> QED BY <2>1
<1>4. Run(Len(seq), run)
  <2>1. PICK f : Run(Len(seq), f)
    BY <1>3
  <2> HIDE DEF Run
  <2> QED BY <2>1
<1>5. PumpQueues(w, seq) = run[Len(seq)]
  BY DEF PumpQueues
<1>6. run[0] = w /\ \A i \in 1 .. Len(seq) : run[i] = PumpQueue(run[i - 1], seq[i])
  <2> HIDE DEF run
  <2>1. PICK first : first = w
    OBVIOUS
  <2>2. run = [i \in 0 .. Len(seq) |-> IF i = 0 THEN first
                                       ELSE PumpQueue(run[i - 1], seq[i])]
    BY <1>4, <2>1
  <2>3. run[0] = first
    BY <2>2
  <2>4. ASSUME NEW i \in 1 .. Len(seq)
        PROVE  run[i] = PumpQueue(run[i - 1], seq[i])
    BY <2>2
  <2> HIDE DEF Run, S
  <2> QED BY <2>1, <2>3, <2>4
<1> HIDE DEF run
<1> QED BY <1>5, <1>6

(***************************************************************************)
(* ... which leaves the rounds alone;                                      *)
(***************************************************************************)
LEMMA PumpQueuesSame ==
  ASSUME NEW w, Fields \subseteq DOMAIN w, NEW seq, Len(seq) \in Nat
  PROVE  SameRounds(w, PumpQueues(w, seq))
<1>1. PICK run : /\ run[0] = w
                 /\ \A i \in 1 .. Len(seq) : run[i] = PumpQueue(run[i - 1], seq[i])
                 /\ PumpQueues(w, seq) = run[Len(seq)]
  BY PumpQueuesRun
<1> DEFINE T == {i \in 0 .. Len(seq) : SameRounds(w, run[i])}
<1>2. 0 \in T
  BY <1>1, SameReflexive
<1>3. ASSUME NEW i \in 1 .. Len(seq), i - 1 \in T PROVE i \in T
  <2>1. SameRounds(w, run[i - 1]) /\ Fields \subseteq DOMAIN run[i - 1]
    BY <1>3 DEF Same, SameRounds
  <2>2. SameRounds(run[i - 1], run[i])
    BY <1>1, <2>1, PumpQueueSame
  <2> QED BY <2>1, <2>2, SameTransitive
<1> HIDE DEF T
<1>4. Len(seq) \in T
  <2>1. 0 .. Len(seq) \subseteq T
    BY <1>2, <1>3, UpTo
  <2> QED BY <2>1
<1> QED BY <1>1, <1>4 DEF T

(***************************************************************************)
(* over the groups a tick looks after (tick) ...                           *)
(***************************************************************************)
LEMMA ArmsRun ==
  ASSUME NEW w, NEW seq, Len(seq) \in Nat
  PROVE  \E run : /\ run[0] = w
                  /\ \A i \in 1 .. Len(seq) : run[i] = Arm(run[i - 1], seq[i])
                  /\ Arms(w, seq) = run[Len(seq)]
<1> DEFINE Run(k, f) == f = [i \in 0 .. k |-> IF i = 0 THEN w
                                              ELSE Arm(f[i - 1], seq[i])]
           S == {k \in Nat : \E f : Run(k, f)}
           run == CHOOSE f : Run(Len(seq), f)
<1>1. 0 \in S
  <2>1. Run(0, [i \in 0 .. 0 |-> w])
    OBVIOUS
  <2> QED BY <2>1
<1>2. ASSUME NEW k \in 1 .. Len(seq), k - 1 \in S PROVE k \in S
  <2>1. PICK f : Run(k - 1, f)
    BY <1>2
  <2>2. PICK more : more = Arm(f[k - 1], seq[k])
    OBVIOUS
  <2> DEFINE h == [i \in 0 .. k |-> IF i = k THEN more ELSE f[i]]
  <2>3. ASSUME NEW i \in 0 .. k
        PROVE  h[i] = IF i = 0 THEN w ELSE Arm(h[i - 1], seq[i])
    <3>1. CASE i = k
      BY <2>2, <3>1
    <3>2. CASE i # k
      <4>1. i \in 0 .. k - 1 /\ h[i] = f[i] /\ (i # 0 => h[i - 1] = f[i - 1])
        BY <3>2
      <4>2. f[i] = IF i = 0 THEN w ELSE Arm(f[i - 1], seq[i])
        BY <2>1, <4>1
      <4> QED BY <4>1, <4>2
    <3> QED BY <3>1, <3>2
  <2>4. h = [i \in 0 .. k |-> h[i]]
    OBVIOUS
  <2> HIDE DEF h
  <2>5. Run(k, h)
    BY <2>3, <2>4
  <2> QED BY <2>5
<1>3. Len(seq) \in S
  <2> HIDE DEF S
  <2>1. 0 .. Len(seq) \subseteq S
    BY <1>1, <1>2, UpTo
  <2> QED BY <2>1
<1>4. Run(Len(seq), run)
  <2>1. PICK f : Run(Len(seq), f)
    BY <1>3
  <2> HIDE DEF Run
  <2> QED BY <2>1
<1>5. Arms(w, seq) = run[Len(seq)]
  BY DEF Arms
<1>6. run[0] = w /\ \A i \in 1 .. Len(seq) : run[i] = Arm(run[i - 1], seq[i])
  <2> HIDE DEF run
  <2>1. PICK first : first = w
    OBVIOUS
  <2>2. run = [i \in 0 .. Len(seq) |-> IF i = 0 THEN first
                                       ELSE Arm(run[i - 1], seq[i])]
    BY <1>4, <2>1
  <2>3. run[0] = first
    BY <2>2
  <2>4. ASSUME NEW i \in 1 .. Len(seq)
        PROVE  run[i] = Arm(run[i - 1], seq[i])
    BY <2>2
  <2> HIDE DEF Run, S
  <2> QED BY <2>1, <2>3, <2>4
<1> HIDE DEF run
<1> QED BY <1>5, <1>6

(***************************************************************************)
(* ... which leaves both alone;                                            *)
(***************************************************************************)
LEMMA ArmsSame ==
  ASSUME NEW w, Fields \subseteq DOMAIN w, NEW seq, Len(seq) \in Nat
  PROVE  Same(w, Arms(w, seq))
<1>1. PICK run : /\ run[0] = w
                 /\ \A i \in 1 .. Len(seq) : run[i] = Arm(run[i - 1], seq[i])
                 /\ Arms(w, seq) = run[Len(seq)]
  BY ArmsRun
<1> DEFINE T == {i \in 0 .. Len(seq) : Same(w, run[i])}
<1>2. 0 \in T
  BY <1>1, SameReflexive
<1>3. ASSUME NEW i \in 1 .. Len(seq), i - 1 \in T PROVE i \in T
  <2>1. Same(w, run[i - 1]) /\ Fields \subseteq DOMAIN run[i - 1]
    BY <1>3 DEF Same, SameRounds
  <2>2. Same(run[i - 1], run[i])
    BY <1>1, <2>1, ArmSame
  <2> QED BY <2>1, <2>2, SameTransitive
<1> HIDE DEF T
<1>4. Len(seq) \in T
  <2>1. 0 .. Len(seq) \subseteq T
    BY <1>2, <1>3, UpTo
  <2> QED BY <2>1
<1> QED BY <1>1, <1>4 DEF T

(***************************************************************************)
(* over the groups without a source (content_pulls) ...                    *)
(***************************************************************************)
LEMMA PullsRun ==
  ASSUME NEW w, NEW seq, Len(seq) \in Nat
  PROVE  \E run : /\ run[0] = w
                  /\ \A i \in 1 .. Len(seq) : run[i] = PullFor(run[i - 1], seq[i])
                  /\ Pulls(w, seq) = run[Len(seq)]
<1> DEFINE Run(k, f) == f = [i \in 0 .. k |-> IF i = 0 THEN w
                                              ELSE PullFor(f[i - 1], seq[i])]
           S == {k \in Nat : \E f : Run(k, f)}
           run == CHOOSE f : Run(Len(seq), f)
<1>1. 0 \in S
  <2>1. Run(0, [i \in 0 .. 0 |-> w])
    OBVIOUS
  <2> QED BY <2>1
<1>2. ASSUME NEW k \in 1 .. Len(seq), k - 1 \in S PROVE k \in S
  <2>1. PICK f : Run(k - 1, f)
    BY <1>2
  <2>2. PICK more : more = PullFor(f[k - 1], seq[k])
    OBVIOUS
  <2> DEFINE h == [i \in 0 .. k |-> IF i = k THEN more ELSE f[i]]
  <2>3. ASSUME NEW i \in 0 .. k
        PROVE  h[i] = IF i = 0 THEN w ELSE PullFor(h[i - 1], seq[i])
    <3>1. CASE i = k
      BY <2>2, <3>1
    <3>2. CASE i # k
      <4>1. i \in 0 .. k - 1 /\ h[i] = f[i] /\ (i # 0 => h[i - 1] = f[i - 1])
        BY <3>2
      <4>2. f[i] = IF i = 0 THEN w ELSE PullFor(f[i - 1], seq[i])
        BY <2>1, <4>1
      <4> QED BY <4>1, <4>2
    <3> QED BY <3>1, <3>2
  <2>4. h = [i \in 0 .. k |-> h[i]]
    OBVIOUS
  <2> HIDE DEF h
  <2>5. Run(k, h)
    BY <2>3, <2>4
  <2> QED BY <2>5
<1>3. Len(seq) \in S
  <2> HIDE DEF S
  <2>1. 0 .. Len(seq) \subseteq S
    BY <1>1, <1>2, UpTo
  <2> QED BY <2>1
<1>4. Run(Len(seq), run)
  <2>1. PICK f : Run(Len(seq), f)
    BY <1>3
  <2> HIDE DEF Run
  <2> QED BY <2>1
<1>5. Pulls(w, seq) = run[Len(seq)]
  BY DEF Pulls
<1>6. run[0] = w /\ \A i \in 1 .. Len(seq) : run[i] = PullFor(run[i - 1], seq[i])
  <2> HIDE DEF run
  <2>1. PICK first : first = w
    OBVIOUS
  <2>2. run = [i \in 0 .. Len(seq) |-> IF i = 0 THEN first
                                       ELSE PullFor(run[i - 1], seq[i])]
    BY <1>4, <2>1
  <2>3. run[0] = first
    BY <2>2
  <2>4. ASSUME NEW i \in 1 .. Len(seq)
        PROVE  run[i] = PullFor(run[i - 1], seq[i])
    BY <2>2
  <2> HIDE DEF Run, S
  <2> QED BY <2>1, <2>3, <2>4
<1> HIDE DEF run
<1> QED BY <1>5, <1>6

(***************************************************************************)
(* ... which leaves the rounds alone;                                      *)
(***************************************************************************)
LEMMA PullsSame ==
  ASSUME NEW w, Fields \subseteq DOMAIN w, NEW seq, Len(seq) \in Nat
  PROVE  SameRounds(w, Pulls(w, seq))
<1>1. PICK run : /\ run[0] = w
                 /\ \A i \in 1 .. Len(seq) : run[i] = PullFor(run[i - 1], seq[i])
                 /\ Pulls(w, seq) = run[Len(seq)]
  BY PullsRun
<1> DEFINE T == {i \in 0 .. Len(seq) : SameRounds(w, run[i])}
<1>2. 0 \in T
  BY <1>1, SameReflexive
<1>3. ASSUME NEW i \in 1 .. Len(seq), i - 1 \in T PROVE i \in T
  <2>1. SameRounds(w, run[i - 1]) /\ Fields \subseteq DOMAIN run[i - 1]
    BY <1>3 DEF Same, SameRounds
  <2>2. SameRounds(run[i - 1], run[i])
    BY <1>1, <2>1, PullForSame
  <2> QED BY <2>1, <2>2, SameTransitive
<1> HIDE DEF T
<1>4. Len(seq) \in T
  <2>1. 0 .. Len(seq) \subseteq T
    BY <1>2, <1>3, UpTo
  <2> QED BY <2>1
<1> QED BY <1>1, <1>4 DEF T

(***************************************************************************)
(* over the questions to ask again (retries) ...                           *)
(***************************************************************************)
LEMMA RequeriesRun ==
  ASSUME NEW w, NEW seq, Len(seq) \in Nat
  PROVE  \E run : /\ run[0] = w
                  /\ \A i \in 1 .. Len(seq) : run[i] = Requery(run[i - 1], seq[i])
                  /\ Requeries(w, seq) = run[Len(seq)]
<1> DEFINE Run(k, f) == f = [i \in 0 .. k |-> IF i = 0 THEN w
                                              ELSE Requery(f[i - 1], seq[i])]
           S == {k \in Nat : \E f : Run(k, f)}
           run == CHOOSE f : Run(Len(seq), f)
<1>1. 0 \in S
  <2>1. Run(0, [i \in 0 .. 0 |-> w])
    OBVIOUS
  <2> QED BY <2>1
<1>2. ASSUME NEW k \in 1 .. Len(seq), k - 1 \in S PROVE k \in S
  <2>1. PICK f : Run(k - 1, f)
    BY <1>2
  <2>2. PICK more : more = Requery(f[k - 1], seq[k])
    OBVIOUS
  <2> DEFINE h == [i \in 0 .. k |-> IF i = k THEN more ELSE f[i]]
  <2>3. ASSUME NEW i \in 0 .. k
        PROVE  h[i] = IF i = 0 THEN w ELSE Requery(h[i - 1], seq[i])
    <3>1. CASE i = k
      BY <2>2, <3>1
    <3>2. CASE i # k
      <4>1. i \in 0 .. k - 1 /\ h[i] = f[i] /\ (i # 0 => h[i - 1] = f[i - 1])
        BY <3>2
      <4>2. f[i] = IF i = 0 THEN w ELSE Requery(f[i - 1], seq[i])
        BY <2>1, <4>1
      <4> QED BY <4>1, <4>2
    <3> QED BY <3>1, <3>2
  <2>4. h = [i \in 0 .. k |-> h[i]]
    OBVIOUS
  <2> HIDE DEF h
  <2>5. Run(k, h)
    BY <2>3, <2>4
  <2> QED BY <2>5
<1>3. Len(seq) \in S
  <2> HIDE DEF S
  <2>1. 0 .. Len(seq) \subseteq S
    BY <1>1, <1>2, UpTo
  <2> QED BY <2>1
<1>4. Run(Len(seq), run)
  <2>1. PICK f : Run(Len(seq), f)
    BY <1>3
  <2> HIDE DEF Run
  <2> QED BY <2>1
<1>5. Requeries(w, seq) = run[Len(seq)]
  BY DEF Requeries
<1>6. run[0] = w /\ \A i \in 1 .. Len(seq) : run[i] = Requery(run[i - 1], seq[i])
  <2> HIDE DEF run
  <2>1. PICK first : first = w
    OBVIOUS
  <2>2. run = [i \in 0 .. Len(seq) |-> IF i = 0 THEN first
                                       ELSE Requery(run[i - 1], seq[i])]
    BY <1>4, <2>1
  <2>3. run[0] = first
    BY <2>2
  <2>4. ASSUME NEW i \in 1 .. Len(seq)
        PROVE  run[i] = Requery(run[i - 1], seq[i])
    BY <2>2
  <2> HIDE DEF Run, S
  <2> QED BY <2>1, <2>3, <2>4
<1> HIDE DEF run
<1> QED BY <1>5, <1>6

(***************************************************************************)
(* ... which leaves the rounds alone;                                      *)
(***************************************************************************)
LEMMA RequeriesSame ==
  ASSUME NEW w, Fields \subseteq DOMAIN w, NEW seq, Len(seq) \in Nat
  PROVE  SameRounds(w, Requeries(w, seq))
<1>1. PICK run : /\ run[0] = w
                 /\ \A i \in 1 .. Len(seq) : run[i] = Requery(run[i - 1], seq[i])
                 /\ Requeries(w, seq) = run[Len(seq)]
  BY RequeriesRun
<1> DEFINE T == {i \in 0 .. Len(seq) : SameRounds(w, run[i])}
<1>2. 0 \in T
  BY <1>1, SameReflexive
<1>3. ASSUME NEW i \in 1 .. Len(seq), i - 1 \in T PROVE i \in T
  <2>1. SameRounds(w, run[i - 1]) /\ Fields \subseteq DOMAIN run[i - 1]
    BY <1>3 DEF Same, SameRounds
  <2>2. SameRounds(run[i - 1], run[i])
    BY <1>1, <2>1, RequerySame
  <2> QED BY <2>1, <2>2, SameTransitive
<1> HIDE DEF T
<1>4. Len(seq) \in T
  <2>1. 0 .. Len(seq) \subseteq T
    BY <1>2, <1>3, UpTo
  <2> QED BY <2>1
<1> QED BY <1>1, <1>4 DEF T

(***************************************************************************)
(* and over the files a peer has queued (pump).                            *)
(***************************************************************************)
LEMMA PumpFilesRun ==
  ASSUME NEW w, NEW p, NEW seq, Len(seq) \in Nat
  PROVE  \E run : /\ run[0] = [v |-> w, rest |-> <<>>, full |-> FALSE]
                  /\ \A i \in 1 .. Len(seq) : run[i] = PumpFile(run[i - 1], p, seq[i])
                  /\ PumpFiles(w, p, seq) = run[Len(seq)]
<1> DEFINE Run(k, f) == f = [i \in 0 .. k |-> IF i = 0 THEN [v |-> w, rest |-> <<>>, full |-> FALSE]
                                              ELSE PumpFile(f[i - 1], p, seq[i])]
           S == {k \in Nat : \E f : Run(k, f)}
           run == CHOOSE f : Run(Len(seq), f)
<1>1. 0 \in S
  <2>1. Run(0, [i \in 0 .. 0 |-> [v |-> w, rest |-> <<>>, full |-> FALSE]])
    OBVIOUS
  <2> QED BY <2>1
<1>2. ASSUME NEW k \in 1 .. Len(seq), k - 1 \in S PROVE k \in S
  <2>1. PICK f : Run(k - 1, f)
    BY <1>2
  <2>2. PICK more : more = PumpFile(f[k - 1], p, seq[k])
    OBVIOUS
  <2> DEFINE h == [i \in 0 .. k |-> IF i = k THEN more ELSE f[i]]
  <2>3. ASSUME NEW i \in 0 .. k
        PROVE  h[i] = IF i = 0 THEN [v |-> w, rest |-> <<>>, full |-> FALSE] ELSE PumpFile(h[i - 1], p, seq[i])
    <3>1. CASE i = k
      BY <2>2, <3>1
    <3>2. CASE i # k
      <4>1. i \in 0 .. k - 1 /\ h[i] = f[i] /\ (i # 0 => h[i - 1] = f[i - 1])
        BY <3>2
      <4>2. f[i] = IF i = 0 THEN [v |-> w, rest |-> <<>>, full |-> FALSE] ELSE PumpFile(f[i - 1], p, seq[i])
        BY <2>1, <4>1
      <4> QED BY <4>1, <4>2
    <3> QED BY <3>1, <3>2
  <2>4. h = [i \in 0 .. k |-> h[i]]
    OBVIOUS
  <2> HIDE DEF h
  <2>5. Run(k, h)
    BY <2>3, <2>4
  <2> QED BY <2>5
<1>3. Len(seq) \in S
  <2> HIDE DEF S
  <2>1. 0 .. Len(seq) \subseteq S
    BY <1>1, <1>2, UpTo
  <2> QED BY <2>1
<1>4. Run(Len(seq), run)
  <2>1. PICK f : Run(Len(seq), f)
    BY <1>3
  <2> HIDE DEF Run
  <2> QED BY <2>1
<1>5. PumpFiles(w, p, seq) = run[Len(seq)]
  BY DEF PumpFiles
<1>6. run[0] = [v |-> w, rest |-> <<>>, full |-> FALSE] /\ \A i \in 1 .. Len(seq) : run[i] = PumpFile(run[i - 1], p, seq[i])
  <2> HIDE DEF run
  <2>1. PICK first : first = [v |-> w, rest |-> <<>>, full |-> FALSE]
    OBVIOUS
  <2>2. run = [i \in 0 .. Len(seq) |-> IF i = 0 THEN first
                                       ELSE PumpFile(run[i - 1], p, seq[i])]
    BY <1>4, <2>1
  <2>3. run[0] = first
    BY <2>2
  <2>4. ASSUME NEW i \in 1 .. Len(seq)
        PROVE  run[i] = PumpFile(run[i - 1], p, seq[i])
    BY <2>2
  <2> HIDE DEF Run, S
  <2> QED BY <2>1, <2>3, <2>4
<1> HIDE DEF run
<1> QED BY <1>5, <1>6

-----------------------------------------------------------------------------
(***************************************************************************)
(* The rounds of w are in order, when n is how often each peer was asked   *)
(* since it last answered: nothing is held for a peer without a            *)
(* connection; a peer was asked at most once and as often again as         *)
(* allowed; what is left of that counts down with every go; and a round is *)
(* armed again only between two goes.                                      *)
(***************************************************************************)
RoundOK(w, n, p) ==
  /\ p \notin w.connected => w.started[p] = "none" /\ w.retry[p] = Quiet /\ n[p] = 0
  /\ n[p] <= RetryAttempts + 1
  /\ w.started[p] # "none" => n[p] + LeftOf(w, p) <= RetryAttempts + 1
  /\ w.retry[p].armed => /\ w.started[p] = "none" /\ w.retry[p].of \in Offering
                         /\ n[p] + w.retry[p].left <= RetryAttempts

RoundsOK(w, n) ==
  /\ Fields \subseteq DOMAIN w
  /\ w.started \in [Peers -> {"none"} \union Offering]
  /\ w.retry \in [Peers -> Retry]
  /\ n \in [Peers -> Nat]
  /\ \A p \in Peers : RoundOK(w, n, p)

(***************************************************************************)
(* How often each peer was asked once w is dispatched: as before, once     *)
(* more for the peers asked, and not at all without a connection (the      *)
(* bookkeeping of HappensWith).                                            *)
(***************************************************************************)
Goes(w, n) == [p \in Peers |-> IF p \notin w.connected THEN 0
                               ELSE IF p \in {a[1] : a \in w.asks} THEN n[p] + 1
                               ELSE n[p]]

(***************************************************************************)
(* The limit on asking again is a number.                                  *)
(***************************************************************************)
LEMMA AttemptsNat == RetryAttempts \in Nat
  BY SupervisorAssumption DEF SupervisorAssumption

(***************************************************************************)
(* The fields of what is kept of a round to ask again.                     *)
(***************************************************************************)
LEMMA RetryFields ==
  ASSUME NEW x \in Retry
  PROVE  /\ x.of \in {"none", "holdings"} \union Offering
         /\ x.armed \in BOOLEAN /\ x.left \in Nat /\ x.left <= RetryAttempts
  BY AttemptsNat DEF Retry

(***************************************************************************)
(* The value it is reset to, and what it becomes when it is armed, are     *)
(* such records.                                                           *)
(***************************************************************************)
LEMMA NewRetry ==
  /\ Quiet \in Retry /\ ~Quiet.armed /\ Quiet.left = RetryAttempts
  /\ \A off \in Offering, armed \in BOOLEAN, left \in 0 .. RetryAttempts :
       [of |-> off, armed |-> armed, left |-> left] \in Retry
  BY AttemptsNat DEF Quiet, Retry, Offering

(***************************************************************************)
(* What leaves the rounds alone leaves them in order.                      *)
(***************************************************************************)
LEMMA RoundsSame ==
  ASSUME NEW w, NEW u, NEW n, RoundsOK(w, n), SameRounds(w, u)
  PROVE  RoundsOK(u, n)
  BY DEF RoundsOK, RoundOK, LeftOf, SameRounds, Fields

(***************************************************************************)
(* How often a round may still be asked again (Retry::left) is within the  *)
(* limit.                                                                  *)
(***************************************************************************)
LEMMA LeftOfType ==
  ASSUME NEW w, NEW n, RoundsOK(w, n), NEW p \in Peers
  PROVE  LeftOf(w, p) \in 0 .. RetryAttempts
<1>1. w.retry[p] \in Retry
  BY DEF RoundsOK
<1> QED BY <1>1, RetryFields, AttemptsNat DEF LeftOf

(***************************************************************************)
(* Beginning or ending rounds changes the rounds under way and nothing     *)
(* else (InFlight).                                                        *)
(***************************************************************************)
LEMMA StartRoundFields ==
  ASSUME NEW w, Fields \subseteq DOMAIN w, NEW which
  PROVE  LET u == StartRound(w, which) IN
         /\ DOMAIN u = DOMAIN w
         /\ u.connected = w.connected /\ u.retry = w.retry /\ u.asks = w.asks
         /\ u.started = [p \in Peers |-> IF p \in DOMAIN which THEN which[p]
                                         ELSE w.started[p]]
  BY DEF StartRound, Fields

(***************************************************************************)
(* Arming again (arm_retry) ends the round under way, leaves one go less   *)
(* or, after the last, none.                                               *)
(***************************************************************************)
LEMMA ArmRetryFields ==
  ASSUME NEW w, NEW n, RoundsOK(w, n), NEW ps
  PROVE  LET u == ArmRetry(w, ps)
             ended == {p \in ps : w.started[p] # "none"}
         IN  /\ DOMAIN u = DOMAIN w /\ u.connected = w.connected /\ u.asks = w.asks
             /\ u.started = [p \in Peers |-> IF p \in ended THEN "none"
                                             ELSE w.started[p]]
             /\ u.retry = [p \in Peers |->
                  IF p \notin ended \intersect w.connected THEN w.retry[p]
                  ELSE IF LeftOf(w, p) = 0 THEN Quiet
                  ELSE [of |-> w.started[p], armed |-> TRUE, left |-> LeftOf(w, p) - 1]]
<1> DEFINE ended == {p \in ps : w.started[p] # "none"}
           over  == {p \in ended \intersect w.connected : LeftOf(w, p) = 0}
           which == [p \in ended |-> "none"]
           s == StartRound(w, which)
           retry == [p \in Peers |->
                  IF p \notin ended \intersect w.connected THEN w.retry[p]
                  ELSE IF p \in over THEN Quiet
                  ELSE [of |-> w.started[p], armed |-> TRUE, left |-> LeftOf(w, p) - 1]]
<1>1. ArmRetry(w, ps) = [s EXCEPT !.pending = w.pending \ over, !.retry = retry]
  BY DEF ArmRetry
<1>2. /\ DOMAIN s = DOMAIN w /\ s.connected = w.connected /\ s.asks = w.asks
      /\ s.started = [p \in Peers |-> IF p \in DOMAIN which THEN which[p] ELSE w.started[p]]
  <2> HIDE DEF which
  <2> QED BY StartRoundFields DEF RoundsOK
<1>3. s.started = [p \in Peers |-> IF p \in ended THEN "none" ELSE w.started[p]]
  BY <1>2
<1>4. retry = [p \in Peers |->
                  IF p \notin ended \intersect w.connected THEN w.retry[p]
                  ELSE IF LeftOf(w, p) = 0 THEN Quiet
                  ELSE [of |-> w.started[p], armed |-> TRUE, left |-> LeftOf(w, p) - 1]]
  OBVIOUS
<1>5. Fields \subseteq DOMAIN s
  BY <1>2 DEF RoundsOK
<1> DEFINE u == ArmRetry(w, ps)
<1>6. /\ DOMAIN u = DOMAIN s /\ u.connected = s.connected /\ u.asks = s.asks
      /\ u.started = s.started /\ u.retry = retry
  <2> HIDE DEF s, over, retry
  <2> QED BY <1>1, <1>5 DEF Fields
<1> HIDE DEF s, retry
<1> QED BY <1>2, <1>3, <1>4, <1>6

(***************************************************************************)
(* So it keeps the rounds in order: what a round may still do shrinks by   *)
(* the go that failed.                                                     *)
(***************************************************************************)
LEMMA ArmRetryOK ==
  ASSUME NEW w, NEW n, RoundsOK(w, n), NEW ps
  PROVE  LET u == ArmRetry(w, ps)
         IN  RoundsOK(u, n) /\ u.connected = w.connected /\ u.asks = w.asks
<1> DEFINE u == ArmRetry(w, ps)
           ended == {p \in ps : w.started[p] # "none"}
<1>1. /\ DOMAIN u = DOMAIN w /\ u.connected = w.connected /\ u.asks = w.asks
      /\ u.started = [p \in Peers |-> IF p \in ended THEN "none"
                                      ELSE w.started[p]]
      /\ u.retry = [p \in Peers |->
           IF p \notin ended \intersect w.connected THEN w.retry[p]
           ELSE IF LeftOf(w, p) = 0 THEN Quiet
           ELSE [of |-> w.started[p], armed |-> TRUE, left |-> LeftOf(w, p) - 1]]
  BY ArmRetryFields
<1> HIDE DEF u
<1>2. ASSUME NEW p \in Peers
      PROVE  /\ u.started[p] \in {"none"} \union Offering
             /\ u.retry[p] \in Retry /\ RoundOK(u, n, p)
  <2>1. /\ LeftOf(w, p) \in 0 .. RetryAttempts /\ RoundOK(w, n, p) /\ n[p] \in Nat
        /\ w.started[p] \in {"none"} \union Offering /\ w.retry[p] \in Retry
        /\ RetryAttempts \in Nat /\ w.retry[p].left \in Nat
    BY LeftOfType, RetryFields, AttemptsNat DEF RoundsOK
  <2>2. CASE p \notin ended
    <3>1. u.started[p] = w.started[p] /\ u.retry[p] = w.retry[p]
      BY <1>1, <2>2
    <3> QED BY <1>1, <2>1, <3>1 DEF RoundOK, LeftOf
  <2>3. CASE p \in ended
    <3>1. p \in w.connected /\ w.started[p] \in Offering
      BY <2>1, <2>3 DEF RoundOK
    <3>2. CASE LeftOf(w, p) = 0
      <4>1. u.started[p] = "none" /\ u.retry[p] = Quiet
        BY <1>1, <2>3, <3>1, <3>2
      <4> QED BY <1>1, <2>1, <3>1, <4>1, NewRetry DEF RoundOK
    <3>3. CASE LeftOf(w, p) # 0
      <4>1. /\ u.started[p] = "none"
            /\ u.retry[p] = [of |-> w.started[p], armed |-> TRUE, left |-> LeftOf(w, p) - 1]
        BY <1>1, <2>3, <3>1, <3>3
      <4>2. u.retry[p].of = w.started[p] /\ u.retry[p].left = LeftOf(w, p) - 1
        BY <4>1
      <4>3. LeftOf(w, p) - 1 \in 0 .. RetryAttempts
        BY <2>1, <3>3
      <4>4. u.retry[p] \in Retry
        BY <3>1, <4>1, <4>3, NewRetry
      <4> QED BY <1>1, <2>1, <3>1, <4>1, <4>2, <4>3, <4>4 DEF RoundOK, Offering
    <3> QED BY <3>2, <3>3
  <2> QED BY <2>2, <2>3
<1>3. /\ u.started \in [Peers -> {"none"} \union Offering] /\ u.retry \in [Peers -> Retry]
  BY <1>1, <1>2
<1> QED BY <1>1, <1>2, <1>3 DEF RoundsOK, u

(***************************************************************************)
(* Handing the requests out (NodeLink::dispatch) keeps them in order; a    *)
(* round that waits for the chain counts as failed.                        *)
(***************************************************************************)
LEMMA DispatchOK ==
  ASSUME NEW w, NEW n, RoundsOK(w, n)
  PROVE  LET u == Dispatch(w)
         IN  RoundsOK(u, n) /\ u.connected = w.connected /\ u.asks = {}
<1> DEFINE late == {a \in w.asks : ChainBusy(w, a[1])}
           idle == {p \in w.proposals :
                      Drained(w, p) /\ ~FilesBusy(w, p) /\ ~ChainBusy(w, p)}
           sent == [w EXCEPT !.rounds = w.rounds \union (w.asks \ late),
                        !.asks = {}, !.closes = w.closes \union idle,
                        !.proposals = {}]
<1>1. Dispatch(w) = ArmRetry(sent, {a[1] : a \in late})
  BY DEF Dispatch
<1>2. /\ Fields \subseteq DOMAIN sent /\ sent.connected = w.connected
      /\ sent.started = w.started /\ sent.retry = w.retry /\ sent.asks = {}
  <2> HIDE DEF late, idle
  <2> QED BY DEF RoundsOK, Fields
<1> HIDE DEF sent
<1>3. RoundsOK(sent, n)
  BY <1>2 DEF RoundsOK, RoundOK, LeftOf
<1> DEFINE ps == {a[1] : a \in late}
<1> HIDE DEF ps
<1>4. LET u == ArmRetry(sent, ps)
      IN  RoundsOK(u, n) /\ u.connected = sent.connected /\ u.asks = sent.asks
  BY <1>3, ArmRetryOK
<1> QED BY <1>1, <1>2, <1>4 DEF ps

-----------------------------------------------------------------------------
(***************************************************************************)
(* The invariant: rounds in order, nothing left to hand out, and connected *)
(* exactly the peers whose connection is ready.                            *)
(***************************************************************************)
CallInv ==
  /\ RoundsOK(v, tries) /\ v.asks = {}
  /\ link \in [Peers -> {"none", "open", "ready"}]
  /\ v.connected = {p \in Peers : link[p] = "ready"}

(***************************************************************************)
(* When nothing is asked the number of goes stays as it is.                *)
(***************************************************************************)
LEMMA NothingPut ==
  ASSUME NEW w, NEW n, RoundsOK(w, n), w.asks = {}
  PROVE  Goes(w, n) = n
<1>1. ASSUME NEW p \in Peers PROVE Goes(w, n)[p] = n[p]
  BY DEF Goes, RoundsOK, RoundOK
<1>2. Goes(w, n) = [p \in Peers |-> Goes(w, n)[p]] /\ n = [p \in Peers |-> n[p]]
  BY DEF Goes, RoundsOK
<1> QED BY <1>1, <1>2

(***************************************************************************)
(* It depends on what is asked and on the connections alone.               *)
(***************************************************************************)
LEMMA GoesSame ==
  ASSUME NEW w, NEW u, NEW n, SameRounds(w, u)
  PROVE  Goes(u, n) = Goes(w, n)
<1>1. u.connected = w.connected /\ u.asks = w.asks
  BY DEF SameRounds, Fields
<1> QED BY <1>1 DEF Goes

(***************************************************************************)
(* Asking (Supervisor::ask) puts the requests down and begins their        *)
(* rounds.                                                                 *)
(***************************************************************************)
LEMMA AskFields ==
  ASSUME NEW w, Fields \subseteq DOMAIN w, NEW which
  PROVE  LET u == Ask(w, which) IN
         /\ DOMAIN u = DOMAIN w
         /\ u.connected = w.connected /\ u.retry = w.retry
         /\ u.asks = w.asks \union {<<p, which[p]>> : p \in DOMAIN which}
         /\ u.started = [p \in Peers |-> IF p \in DOMAIN which THEN which[p]
                                         ELSE w.started[p]]
<1> DEFINE s == StartRound(w, which)
           asks == w.asks \union {<<p, which[p]>> : p \in DOMAIN which}
<1>1. /\ DOMAIN s = DOMAIN w /\ s.connected = w.connected /\ s.retry = w.retry
      /\ s.started = [p \in Peers |-> IF p \in DOMAIN which THEN which[p]
                                      ELSE w.started[p]]
  BY StartRoundFields
<1>2. Ask(w, which) = [s EXCEPT !.asks = asks]
  BY DEF Ask
<1> HIDE DEF s, asks
<1>3. Fields \subseteq DOMAIN s
  BY <1>1
<1>4. LET u == Ask(w, which) IN
      /\ DOMAIN u = DOMAIN s /\ u.connected = s.connected /\ u.retry = s.retry
      /\ u.asks = asks /\ u.started = s.started
  BY <1>2, <1>3 DEF Fields
<1> QED BY <1>1, <1>4 DEF asks

(***************************************************************************)
(* A round that ends leaves the rounds in order.                           *)
(***************************************************************************)
LEMMA EndRoundOK ==
  ASSUME NEW w, NEW n, RoundsOK(w, n), NEW p \in Peers
  PROVE  LET u == StartRound(w, With(p, "none"))
         IN  RoundsOK(u, n) /\ u.connected = w.connected /\ u.asks = w.asks
<1> DEFINE u == StartRound(w, With(p, "none"))
<1>1. With(p, "none")[p] = "none" /\ DOMAIN With(p, "none") = {p}
  BY DEF With
<1>2. /\ DOMAIN u = DOMAIN w
      /\ u.connected = w.connected /\ u.retry = w.retry /\ u.asks = w.asks
      /\ u.started = [q \in Peers |-> IF q = p THEN "none" ELSE w.started[q]]
  <2>1. Fields \subseteq DOMAIN w
    BY DEF RoundsOK
  <2>2. u.started = [q \in Peers |-> IF q \in DOMAIN With(p, "none")
                                     THEN With(p, "none")[q] ELSE w.started[q]]
    BY <2>1, StartRoundFields
  <2>3. u.started = [q \in Peers |-> IF q = p THEN "none" ELSE w.started[q]]
    BY <1>1, <2>2
  <2> QED BY <2>1, <2>3, StartRoundFields
<1> HIDE DEF u
<1>3. ASSUME NEW q \in Peers PROVE RoundOK(u, n, q)
  BY <1>2 DEF RoundOK, RoundsOK, LeftOf
<1>4. u.started \in [Peers -> {"none"} \union Offering]
  BY <1>2 DEF RoundsOK
<1> QED BY <1>2, <1>3, <1>4 DEF RoundsOK, u

-----------------------------------------------------------------------------
(***************************************************************************)
(* A peer whose connection is ready (PeerEvent::Verified) is asked for its *)
(* chain: its first go.                                                    *)
(***************************************************************************)
LEMMA VerifiedOK ==
  ASSUME NEW w, NEW n, RoundsOK(w, n), w.asks = {},
         NEW p \in Peers, p \notin w.connected
  PROVE  LET u == Verified(w, p)
         IN  RoundsOK(u, Goes(u, n)) /\ u.connected = w.connected \union {p}
<1> DEFINE b == [w EXCEPT !.dialing = w.dialing \ {p},
                !.connected = w.connected \union {p},
                !.online = w.online \union {p},
                !.resting = w.resting \ {p}, !.attempts[p] = 0]
           u == Verified(w, p)
<1>1. /\ Fields \subseteq DOMAIN b /\ b.connected = w.connected \union {p}
      /\ b.started = w.started /\ b.retry = w.retry /\ b.asks = {}
  BY DEF RoundsOK, Fields
<1>2. u = Ask(b, With(p, "chain"))
  BY DEF Verified
<1> HIDE DEF b
<1>3. DOMAIN With(p, "chain") = {p} /\ With(p, "chain")[p] = "chain"
  BY DEF With
<1>4. /\ DOMAIN u = DOMAIN b /\ u.connected = b.connected /\ u.retry = b.retry
      /\ u.asks = b.asks \union {<<q, With(p, "chain")[q]>> : q \in DOMAIN With(p, "chain")}
      /\ u.started = [q \in Peers |-> IF q \in DOMAIN With(p, "chain")
                                      THEN With(p, "chain")[q] ELSE b.started[q]]
  BY <1>1, <1>2, AskFields
<1> HIDE DEF u
<1>5. u.asks = {<<p, "chain">>}
  BY <1>1, <1>3, <1>4
<1>6. u.started = [q \in Peers |-> IF q = p THEN "chain" ELSE w.started[q]]
  BY <1>1, <1>3, <1>4
<1>7. {a[1] : a \in u.asks} = {p}
  BY <1>5
<1>8. ASSUME NEW q \in Peers
      PROVE  RoundOK(u, Goes(u, n), q) /\ Goes(u, n)[q] \in Nat
  <2>1. Goes(u, n)[q] = IF q = p THEN 1 ELSE n[q]
    <3>1. u.connected = w.connected \union {p}
      BY <1>1, <1>4
    <3>2. RoundOK(w, n, q) /\ RoundOK(w, n, p)
      BY DEF RoundsOK
    <3>3. Goes(u, n)[q] = IF q \notin w.connected \union {p} THEN 0
                          ELSE IF q = p THEN n[q] + 1 ELSE n[q]
      BY <1>7, <3>1 DEF Goes
    <3> QED BY <3>2, <3>3 DEF RoundOK
  <2>2. CASE q = p
    <3>1. u.retry[p] = Quiet /\ u.started[p] = "chain" /\ Goes(u, n)[p] = 1
      BY <1>1, <1>4, <1>6, <2>1, <2>2 DEF RoundsOK, RoundOK
    <3> QED BY <1>1, <1>4, <2>2, <3>1, NewRetry, AttemptsNat DEF RoundOK, LeftOf, Quiet
  <2>3. CASE q # p
    BY <1>1, <1>4, <1>6, <2>1, <2>3 DEF RoundsOK, RoundOK, LeftOf
  <2> QED BY <2>2, <2>3
<1>9. Goes(u, n) \in [Peers -> Nat]
  BY <1>8 DEF Goes
<1>10. u.started \in [Peers -> {"none"} \union Offering] /\ u.retry \in [Peers -> Retry]
  BY <1>1, <1>4, <1>6 DEF RoundsOK, Offering
<1> QED BY <1>1, <1>4, <1>8, <1>9, <1>10 DEF RoundsOK, u

(***************************************************************************)
(* A peer that goes (PeerEvent::Gone) takes its rounds with it.            *)
(***************************************************************************)
LEMMA GoneOK ==
  ASSUME NEW w, NEW n, RoundsOK(w, n), w.asks = {}, NEW p \in Peers
  PROVE  LET u == Gone(w, p)
         IN  RoundsOK(u, Goes(u, n)) /\ u.connected = w.connected \ {p}
<1> DEFINE u == Gone(w, p)
<1>1. /\ Fields \subseteq DOMAIN u /\ u.connected = w.connected \ {p}
      /\ u.started = [w.started EXCEPT ![p] = "none"]
      /\ u.retry = [w.retry EXCEPT ![p] = Quiet] /\ u.asks = {}
  BY DEF Gone, RoundsOK, Fields
<1> HIDE DEF u
<1>2. ASSUME NEW q \in Peers
      PROVE  RoundOK(u, Goes(u, n), q) /\ Goes(u, n)[q] \in Nat
  <2>1. Goes(u, n)[q] = IF q = p THEN 0 ELSE n[q]
    BY <1>1 DEF Goes, RoundsOK, RoundOK
  <2>2. CASE q = p
    <3>1. /\ u.retry[p] = Quiet /\ u.started[p] = "none" /\ Goes(u, n)[p] = 0
          /\ p \notin u.connected
      BY <1>1, <2>1, <2>2 DEF RoundsOK
    <3> QED BY <2>2, <3>1, NewRetry, AttemptsNat DEF RoundOK
  <2>3. CASE q # p
    BY <1>1, <2>1, <2>3 DEF RoundsOK, RoundOK, LeftOf
  <2> QED BY <2>2, <2>3
<1>3. Goes(u, n) \in [Peers -> Nat]
  BY <1>2 DEF Goes
<1>4. u.started \in [Peers -> {"none"} \union Offering] /\ u.retry \in [Peers -> Retry]
  BY <1>1, NewRetry DEF RoundsOK
<1> QED BY <1>1, <1>2, <1>3, <1>4 DEF RoundsOK, u

(***************************************************************************)
(* Asking again (retries) takes one of the goes that were left; the rounds *)
(* stay in order, counting it.                                             *)
(***************************************************************************)
LEMMA RetriesOK ==
  ASSUME NEW w, NEW n, RoundsOK(w, n), w.asks = {}, NEW armed, armed \subseteq Peers,
         NEW queries, IsFiniteSet(queries)
  PROVE  LET u == Retries(w, armed, queries)
         IN  RoundsOK(u, Goes(u, n)) /\ u.connected = w.connected
<1> DEFINE again == {p \in armed \intersect w.connected :
                       w.started[p] = "none" /\ w.retry[p].armed}
           put == [w EXCEPT !.retry = [p \in Peers |->
                     IF p \in again THEN [w.retry[p] EXCEPT !.armed = FALSE]
                     ELSE w.retry[p]]]
           which == [p \in again |-> w.retry[p].of]
           a == Ask(put, which)
           u == Retries(w, armed, queries)
<1>1. u = Requeries(a, SetToSeq(queries))
  BY DEF Retries
<1>2. again \subseteq Peers /\ DOMAIN which = again /\ \A p \in again : which[p] = w.retry[p].of
  OBVIOUS
<1>3. /\ Fields \subseteq DOMAIN put /\ put.connected = w.connected
      /\ put.started = w.started /\ put.asks = {}
      /\ put.retry = [p \in Peers |-> IF p \in again THEN [w.retry[p] EXCEPT !.armed = FALSE]
                                      ELSE w.retry[p]]
  <2> HIDE DEF again
  <2> QED BY DEF RoundsOK, Fields
<1>4. \A p \in again : p \in armed \intersect w.connected /\ w.started[p] = "none" /\ w.retry[p].armed
  OBVIOUS
<1> HIDE DEF put, which, again
<1>5. /\ DOMAIN a = DOMAIN put /\ a.connected = put.connected /\ a.retry = put.retry
      /\ a.asks = put.asks \union {<<p, which[p]>> : p \in DOMAIN which}
      /\ a.started = [p \in Peers |-> IF p \in DOMAIN which THEN which[p] ELSE put.started[p]]
  BY <1>3, AskFields
<1> HIDE DEF a, u
<1>6. {x[1] : x \in a.asks} = again
  <2>1. a.asks = {<<p, which[p]>> : p \in again}
    BY <1>2, <1>3, <1>5
  <2>2. ASSUME NEW x \in a.asks PROVE x[1] \in again
    BY <2>1
  <2>3. ASSUME NEW p \in again PROVE \E x \in a.asks : x[1] = p
    <3>1. <<p, which[p]>> \in a.asks /\ <<p, which[p]>>[1] = p
      BY <2>1
    <3> QED BY <3>1
  <2> QED BY <2>2, <2>3
<1>7. ASSUME NEW p \in Peers
      PROVE  /\ RoundOK(a, Goes(a, n), p) /\ Goes(a, n)[p] \in Nat
             /\ a.started[p] \in {"none"} \union Offering /\ a.retry[p] \in Retry
  <2>1. Goes(a, n)[p] = IF p \in again THEN n[p] + 1 ELSE n[p]
    BY <1>3, <1>4, <1>5, <1>6 DEF Goes, RoundsOK, RoundOK
  <2>2. /\ RoundOK(w, n, p) /\ n[p] \in Nat /\ w.retry[p] \in Retry
        /\ w.started[p] \in {"none"} \union Offering
    BY DEF RoundsOK
  <2>3. CASE p \in again
    <3>1. w.retry[p].of \in Offering /\ n[p] + w.retry[p].left <= RetryAttempts
      BY <1>4, <2>2, <2>3 DEF RoundOK
    <3>2. a.started[p] = w.retry[p].of /\ a.retry[p] = [w.retry[p] EXCEPT !.armed = FALSE]
      BY <1>2, <1>3, <1>5, <2>3
    <3>3. /\ a.retry[p].of = w.retry[p].of /\ a.retry[p].left = w.retry[p].left
          /\ ~a.retry[p].armed /\ a.retry[p] \in Retry
      BY <2>2, <3>2 DEF Retry
    <3>4. w.retry[p].left \in Nat /\ RetryAttempts \in Nat /\ p \in w.connected
      BY <1>4, <2>2, <2>3, RetryFields, AttemptsNat
    <3> QED BY <1>3, <1>5, <2>1, <2>2, <2>3, <3>1, <3>2, <3>3, <3>4 DEF RoundOK, LeftOf
  <2>4. CASE p \notin again
    <3>1. a.started[p] = w.started[p] /\ a.retry[p] = w.retry[p]
      BY <1>2, <1>3, <1>5, <2>4
    <3> QED BY <1>3, <1>5, <2>1, <2>2, <2>4, <3>1 DEF RoundOK, LeftOf
  <2> QED BY <2>3, <2>4
<1>8. Goes(a, n) \in [Peers -> Nat]
  BY <1>7 DEF Goes
<1>9. a.started \in [Peers -> {"none"} \union Offering] /\ a.retry \in [Peers -> Retry]
  BY <1>3, <1>5, <1>7
<1>10. RoundsOK(a, Goes(a, n))
  BY <1>3, <1>5, <1>7, <1>8, <1>9 DEF RoundsOK
<1>11. SameRounds(a, u)
  <2>1. Len(SetToSeq(queries)) \in Nat
    BY SetToSeqLength
  <2>2. Fields \subseteq DOMAIN a
    BY <1>10 DEF RoundsOK
  <2> QED BY <1>1, <2>1, <2>2, RequeriesSame
<1>12. RoundsOK(u, Goes(u, n))
  BY <1>10, <1>11, RoundsSame, GoesSame
<1>13. u.connected = w.connected
  BY <1>3, <1>5, <1>11 DEF SameRounds, Fields
<1> QED BY <1>12, <1>13 DEF u

-----------------------------------------------------------------------------
(***************************************************************************)
(* An event that leaves the rounds in order, its own goes counted, keeps   *)
(* the invariant.                                                          *)
(***************************************************************************)
LEMMA HappeningOK ==
  ASSUME CallInv, NEW w, NEW calm, NEW news, HappensWith(w, calm, news),
         RoundsOK(w, Goes(w, tries)), link' \in [Peers -> {"none", "open", "ready"}],
         w.connected = {p \in Peers : link'[p] = "ready"}
  PROVE  CallInv'
<1>1. v' = Dispatch(w) /\ tries' = Goes(w, tries)
  BY DEF HappensWith, Goes
<1>2. PICK n : n = Goes(w, tries)
  OBVIOUS
<1>3. RoundsOK(v', n) /\ v'.connected = w.connected /\ v'.asks = {}
  BY <1>1, <1>2, DispatchOK
<1> QED BY <1>1, <1>2, <1>3 DEF CallInv

(***************************************************************************)
(* So does one that asks nothing and changes no connection,                *)
(***************************************************************************)
LEMMA StillOK ==
  ASSUME CallInv, NEW w, NEW calm, NEW news, HappensWith(w, calm, news),
         RoundsOK(w, tries), w.asks = {}, w.connected = v.connected, UNCHANGED link
  PROVE  CallInv'
<1>1. Goes(w, tries) = tries
  BY NothingPut
<1> QED BY <1>1, HappeningOK DEF CallInv

(***************************************************************************)
(* and one that leaves the rounds alone, while the ready connections stay  *)
(* as they are.                                                            *)
(***************************************************************************)
LEMMA SameOK ==
  ASSUME CallInv, NEW w, NEW calm, NEW news, HappensWith(w, calm, news),
         SameRounds(v, w), link' \in [Peers -> {"none", "open", "ready"}],
         v.connected = {p \in Peers : link'[p] = "ready"}
  PROVE  CallInv'
<1>1. RoundsOK(w, tries) /\ w.asks = {} /\ w.connected = v.connected
  BY RoundsSame DEF CallInv, SameRounds, Fields
<1>2. Goes(w, tries) = tries
  BY <1>1, NothingPut
<1> QED BY <1>1, <1>2, HappeningOK

(***************************************************************************)
(* v has the fields spoken of.                                             *)
(***************************************************************************)
LEMMA CallInvFields == CallInv => Fields \subseteq DOMAIN v
  BY DEF CallInv, RoundsOK

-----------------------------------------------------------------------------
(***************************************************************************)
(* A list of what a peer holds, when it comes (on_holdings), leaves the    *)
(* rounds alone: it queues files, starts transfers, and may give the peer  *)
(* up.                                                                     *)
(***************************************************************************)
LEMMA HeldSame ==
  ASSUME NEW w, Fields \subseteq DOMAIN w, NEW p, NEW g, NEW paths, NEW held
  PROVE  SameRounds(w, Held(w, p, g, paths, held))
<1> DEFINE u == [w EXCEPT !.again[<<p, g>>] = Quiet]
           wanted == {x \in paths \intersect held : <<p, <<g, x>>>> \notin w.denied}
           files  == [i \in 1 .. Cardinality(wanted) |-> <<g, InOrder(wanted)[i]>>]
           more == [u EXCEPT !.queued[p] = u.queued[p] \o files]
           pumped == Pump(more, p)
           t == Held(w, p, g, paths, held)
<1>1. t \in {AskHoldings(u, p, g), pumped, ResolveStalled(pumped, p), SpendPeer(pumped, p, g)}
  BY DEF Held
<1>2. SameRounds(w, u) /\ Fields \subseteq DOMAIN u
  BY DEF SameRounds, Fields
<1>3. SameRounds(u, more) /\ Fields \subseteq DOMAIN more
  <2> HIDE DEF u, files
  <2> QED BY <1>2 DEF SameRounds, Fields
<1> HIDE DEF u, more, t
<1>4. SameRounds(w, pumped) /\ Fields \subseteq DOMAIN pumped
  <2>1. SameRounds(more, pumped)
    BY <1>3, PumpSame
  <2> QED BY <1>2, <1>3, <2>1, SameTransitive DEF SameRounds
<1> HIDE DEF pumped
<1>5. SameRounds(u, AskHoldings(u, p, g))
  BY <1>2, AskHoldingsSame
<1>6. SameRounds(pumped, ResolveStalled(pumped, p)) /\ SameRounds(pumped, SpendPeer(pumped, p, g))
  BY <1>4, ResolveSame, SpendPeerSame
<1>7. SameRounds(w, t)
  BY <1>1, <1>2, <1>4, <1>5, <1>6, SameTransitive
<1> QED BY <1>7 DEF t

(***************************************************************************)
(* So does a refusal to say (arm_holdings_retry),                          *)
(***************************************************************************)
LEMMA RefusedSame ==
  ASSUME NEW w, Fields \subseteq DOMAIN w, NEW p, NEW g
  PROVE  SameRounds(w, Refused(w, p, g))
<1> DEFINE u == DropQueued(w, p, g)
           a == [u EXCEPT !.again[<<p, g>>] = Quiet]
           b == [u EXCEPT !.again[<<p, g>>] = [of |-> "holdings", armed |-> TRUE,
                                          left |-> u.again[<<p, g>>].left - 1]]
           t == Refused(w, p, g)
<1>1. t = SpendPeer(a, p, g) \/ t = b
  BY DEF Refused
<1>2. SameRounds(w, u) /\ Fields \subseteq DOMAIN u
  BY DEF DropQueued, SameRounds, Fields
<1> HIDE DEF u, t
<1>3. SameRounds(u, a) /\ SameRounds(u, b) /\ Fields \subseteq DOMAIN a
  BY <1>2 DEF SameRounds, Fields
<1> HIDE DEF a, b
<1>4. SameRounds(a, SpendPeer(a, p, g))
  BY <1>3, SpendPeerSame
<1>5. SameRounds(w, t)
  BY <1>1, <1>2, <1>3, <1>4, SameTransitive
<1> QED BY <1>5 DEF t

(***************************************************************************)
(* and a transfer that ends (PeerEvent::BlobDone, BlobFailed), which       *)
(* starts others and may turn the page.                                    *)
(***************************************************************************)
LEMMA FreedSame ==
  ASSUME NEW w, Fields \subseteq DOMAIN w, NEW p
  PROVE  SameRounds(w, Freed(w, p))
<1> DEFINE a == [w EXCEPT !.transfers[p] = IF w.transfers[p] = 0 THEN 0
                                           ELSE w.transfers[p] - 1]
           b == Pump(a, p)
           u == Used(w, p)
           t == Freed(w, p)
<1>1. u = ResolveStalled(b, p)
  BY DEF Used
<1>2. SameRounds(w, a) /\ Fields \subseteq DOMAIN a
  BY DEF SameRounds, Fields
<1> HIDE DEF a
<1>3. SameRounds(w, b) /\ Fields \subseteq DOMAIN b
  <2>1. SameRounds(a, b)
    BY <1>2, PumpSame
  <2> QED BY <1>2, <2>1, SameTransitive DEF SameRounds
<1> HIDE DEF b, u
<1>4. SameRounds(w, u) /\ Fields \subseteq DOMAIN u
  <2>1. SameRounds(b, u)
    BY <1>1, <1>3, ResolveSame
  <2> QED BY <1>3, <2>1, SameTransitive DEF SameRounds
<1>5. t = u \/ t = NextPages(u, p, InOrder(Groups))
  BY DEF Freed, ContinuePull, u
<1> HIDE DEF t
<1>6. Len(InOrder(Groups)) \in Nat
  BY InOrderLength, SupervisorAssumption DEF SupervisorAssumption
<1>7. SameRounds(u, NextPages(u, p, InOrder(Groups)))
  BY <1>4, <1>6, NextPagesSame
<1>8. SameRounds(w, t)
  BY <1>4, <1>5, <1>7, SameTransitive
<1> QED BY <1>8 DEF t

-----------------------------------------------------------------------------
(***************************************************************************)
(* A tick: one timer runs out, the round it times is armed again, and      *)
(* every round that is armed, of a peer still connected, is asked.         *)
(***************************************************************************)
LEMMA TickKeeps ==
  ASSUME CallInv, NEW t \in Timers, Tick(t)
  PROVE  CallInv'
<1>1. PICK order \in Orders :
        HappensWith(Ticked(t, order).v, {p \in v.connected : NothingWith(v, p)},
                    Ticked(t, order).news)
  BY DEF Tick
<1> DEFINE armed   == {p \in Peers : v.retry[p].armed}
           queries == {x \in Peers \X Groups : v.again[x].armed}
           is(k) == IF t[1] = k THEN {t[2]} ELSE {}
           a == [v EXCEPT !.space = disk]
           u == [a EXCEPT !.dialed  = IF t[1] = "window" THEN 0 ELSE a.dialed,
                     !.resting = a.resting \ is("rest"),
                     !.waiting = a.waiting \ is("wait"),
                     !.due     = a.due \union is("heartbeat"),
                     !.closing = a.closing \ is("close")]
           out == ArmRetry(u, is("round"))
           begun == Arms(out, InOrder(Groups))
           dialed == QueueDials(begun, order)
           calls == PumpQueues(dialed, order)
           pulled == ContentPulls(calls)
           tried == Retries(pulled, armed, queries)
           w == Ticked(t, order).v
<1>2. w = Closes(tried)
  BY DEF Ticked, RunOut
<1>3. SameRounds(v, u)
  <2>1. SameRounds(v, a) /\ Fields \subseteq DOMAIN a
    BY CallInvFields DEF SameRounds, Fields
  <2> HIDE DEF a, is
  <2> QED BY <2>1 DEF SameRounds, Fields
<1> HIDE DEF u
<1>4. RoundsOK(u, tries) /\ u.asks = {} /\ u.connected = v.connected
  BY <1>3, RoundsSame DEF CallInv, SameRounds, Fields
<1>5. RoundsOK(out, tries) /\ out.asks = {} /\ out.connected = v.connected
  <2> PICK ps : ps = is("round")
    OBVIOUS
  <2> HIDE DEF is
  <2> QED BY <1>4, ArmRetryOK
<1> HIDE DEF out
<1>6. SameRounds(out, pulled)
  <2>1. IsFiniteSet(Groups) /\ IsFiniteSet(Peers)
    BY SupervisorAssumption DEF SupervisorAssumption
  <2>2. Len(InOrder(Groups)) \in Nat
    BY <2>1, InOrderLength
  <2>3. Len(order) \in Nat
    BY <2>1, FS_CardinalityType DEF Orders
  <2>4. SameRounds(out, begun) /\ Fields \subseteq DOMAIN begun
    <3>1. Fields \subseteq DOMAIN out
      BY <1>5 DEF RoundsOK
    <3>2. SameRounds(out, begun)
      BY <2>2, <3>1, ArmsSame DEF Same
    <3> QED BY <3>1, <3>2 DEF SameRounds
  <2> HIDE DEF begun
  <2>5. SameRounds(begun, dialed) /\ Fields \subseteq DOMAIN dialed
    <3>1. SameRounds(begun, dialed)
      BY <2>4, QueueDialsSame DEF Same
    <3> QED BY <2>4, <3>1 DEF SameRounds
  <2> HIDE DEF dialed
  <2>6. SameRounds(dialed, calls) /\ Fields \subseteq DOMAIN calls
    <3>1. SameRounds(dialed, calls)
      BY <2>3, <2>5, PumpQueuesSame
    <3> QED BY <2>5, <3>1 DEF SameRounds
  <2> HIDE DEF calls
  <2>7. SameRounds(calls, pulled)
    BY <2>2, <2>6, PullsSame, SameReflexive DEF ContentPulls
  <2> HIDE DEF pulled
  <2> QED BY <2>4, <2>5, <2>6, <2>7, SameTransitive
<1> HIDE DEF pulled
<1>7. RoundsOK(pulled, tries) /\ pulled.asks = {} /\ pulled.connected = v.connected
  BY <1>5, <1>6, RoundsSame DEF SameRounds, Fields
<1>8. RoundsOK(tried, Goes(tried, tries)) /\ tried.connected = v.connected
  <2>1. IsFiniteSet(Peers \X Groups)
    BY FS_Product, SupervisorAssumption DEF SupervisorAssumption
  <2>2. IsFiniteSet(queries)
    BY <2>1, FS_Subset
  <2>3. armed \subseteq Peers
    OBVIOUS
  <2> HIDE DEF armed, queries
  <2> QED BY <1>7, <2>2, <2>3, RetriesOK
<1> HIDE DEF tried, w
<1>9. SameRounds(tried, w)
  BY <1>2, <1>8, ClosesSame DEF RoundsOK, Same
<1>10. RoundsOK(w, Goes(w, tries)) /\ w.connected = v.connected
  <2>1. Goes(w, tries) = Goes(tried, tries)
    BY <1>9, GoesSame
  <2>2. RoundsOK(w, Goes(tried, tries))
    BY <1>8, <1>9, RoundsSame
  <2> QED BY <1>8, <1>9, <2>1, <2>2 DEF SameRounds, Fields
<1>11. UNCHANGED link
  BY DEF Tick, Elsewhere
<1>12. CallInv'
  <2>1. HappensWith(w, {p \in v.connected : NothingWith(v, p)}, Ticked(t, order).news)
    BY <1>1 DEF w
  <2>2. link' \in [Peers -> {"none", "open", "ready"}] /\ w.connected = {p \in Peers : link'[p] = "ready"}
    BY <1>10, <1>11 DEF CallInv
  <2> QED BY <1>10, <2>1, <2>2, HappeningOK
<1> QED BY <1>12

-----------------------------------------------------------------------------
(***************************************************************************)
(* A connection that goes, after a change that leaves the rounds alone.    *)
(***************************************************************************)
LEMMA GoneKeeps ==
  ASSUME CallInv, NEW w, SameRounds(v, w), NEW p \in Peers, NEW calm, NEW news,
         HappensWith(Gone(w, p), calm, news), link' = [link EXCEPT ![p] = "none"]
  PROVE  CallInv'
<1>1. RoundsOK(w, tries) /\ w.asks = {} /\ w.connected = v.connected
  BY RoundsSame DEF CallInv, SameRounds, Fields
<1>2. PICK n : n = tries
  OBVIOUS
<1>3. RoundsOK(Gone(w, p), Goes(Gone(w, p), n)) /\ Gone(w, p).connected = v.connected \ {p}
  BY <1>1, <1>2, GoneOK
<1>4. /\ link' \in [Peers -> {"none", "open", "ready"}]
      /\ v.connected \ {p} = {q \in Peers : link'[q] = "ready"}
  BY DEF CallInv
<1> QED BY <1>2, <1>3, <1>4, HappeningOK

(***************************************************************************)
(* An answer begins the count again for its peer: nothing left over, and   *)
(* at most the go of the round that follows.                               *)
(***************************************************************************)
LEMMA AnsweredOK ==
  ASSUME NEW s, NEW n, RoundsOK(s, n), NEW p \in s.connected, p \in Peers,
         s.started[p] = "none", NEW u, NEW off \in {"none"} \union Offering,
         Fields \subseteq DOMAIN u, u.connected = s.connected,
         u.retry = [s.retry EXCEPT ![p] = Quiet],
         u.started = [q \in Peers |-> IF q = p THEN off ELSE s.started[q]],
         NEW k \in {0, 1}
  PROVE  RoundsOK(u, [n EXCEPT ![p] = k])
<1>1. ASSUME NEW q \in Peers PROVE RoundOK(u, [n EXCEPT ![p] = k], q)
  <2>1. CASE q = p
    <3>1. u.retry[p] = Quiet /\ [n EXCEPT ![p] = k][p] = k /\ u.started[p] = off
      BY DEF RoundsOK
    <3>2. LeftOf(u, p) <= RetryAttempts /\ LeftOf(u, p) \in Nat
      BY <3>1, NewRetry, AttemptsNat DEF LeftOf
    <3> QED BY <2>1, <3>1, <3>2, NewRetry, AttemptsNat DEF RoundOK
  <2>2. CASE q # p
    BY <2>2 DEF RoundsOK, RoundOK, LeftOf
  <2> QED BY <2>1, <2>2
<1>2. [n EXCEPT ![p] = k] \in [Peers -> Nat]
  BY DEF RoundsOK
<1>3. u.started \in [Peers -> {"none"} \union Offering] /\ u.retry \in [Peers -> Retry]
  BY NewRetry DEF RoundsOK
<1> QED BY <1>1, <1>2, <1>3 DEF RoundsOK

(***************************************************************************)
(* Presence, dials and connections.                                        *)
(***************************************************************************)
LEMMA NetworkKeeps ==
  ASSUME CallInv, Network
  PROVE  CallInv'
<1> USE CallInvFields
<1>1. ASSUME NEW asked, NEW up, PresenceAnswered(asked, up) PROVE CallInv'
  <2> DEFINE w == [v EXCEPT !.online = (v.online \ asked) \union up,
                     !.pending = v.pending \union (up \intersect Strangers)]
             u == IF up \subseteq v.online THEN w ELSE Reconsider(w, Groups)
  <2>1. HappensWith(u, quiet, {}) /\ UNCHANGED link
    BY <1>1 DEF PresenceAnswered, Happens, Elsewhere
  <2>2. SameRounds(v, w) /\ Fields \subseteq DOMAIN w
    BY DEF SameRounds, Fields
  <2> HIDE DEF w
  <2>3. SameRounds(v, u)
    <3>1. SameRounds(w, Reconsider(w, Groups))
      BY <2>2, ReconsiderSame DEF Same
    <3> QED BY <2>2, <3>1, SameTransitive
  <2> HIDE DEF u
  <2> QED BY <2>1, <2>3, SameOK DEF CallInv
<1>2. ASSUME NEW p \in Peers, Connects(p) PROVE CallInv'
  <2> DEFINE w == [v EXCEPT !.dials = v.dials \ {p}]
  <2>1. HappensWith(w, quiet, {}) /\ link[p] = "none" /\ link' = [link EXCEPT ![p] = "open"]
    BY <1>2 DEF Connects, Happens
  <2>2. SameRounds(v, w)
    BY DEF SameRounds, Fields
  <2> HIDE DEF w
  <2> QED BY <2>1, <2>2, SameOK DEF CallInv
<1>3. ASSUME NEW p \in Peers, PeerConnects(p) PROVE CallInv'
  <2>1. HappensWith(v, quiet, {}) /\ link[p] = "none" /\ link' = [link EXCEPT ![p] = "open"]
    BY <1>3 DEF PeerConnects, Happens
  <2> QED BY <2>1, SameReflexive, SameOK DEF CallInv
<1>4. ASSUME NEW p \in Peers, DialConnects(p) PROVE CallInv'
  <2>1. CASE link[p] = "none"
    BY <1>2, <1>4, <2>1 DEF DialConnects
  <2>2. CASE link[p] # "none"
    <3> DEFINE w == [v EXCEPT !.dials = v.dials \ {p}]
    <3>1. HappensWith(w, quiet, {}) /\ UNCHANGED link
      BY <1>4, <2>2 DEF DialConnects, Happens, Elsewhere
    <3>2. SameRounds(v, w)
      BY DEF SameRounds, Fields
    <3> HIDE DEF w
    <3> QED BY <3>1, <3>2, SameOK DEF CallInv
  <2> QED BY <2>1, <2>2
<1>5. ASSUME NEW p \in Peers, DialFails(p) PROVE CallInv'
  <2> DEFINE w == [v EXCEPT !.dials = v.dials \ {p}]
             u == DialFailed(w, p)
  <2>1. HappensWith(u, quiet, {}) /\ UNCHANGED link
    BY <1>5 DEF DialFails, Happens, Elsewhere
  <2>2. SameRounds(v, w) /\ Fields \subseteq DOMAIN w
    BY DEF SameRounds, Fields
  <2> HIDE DEF w
  <2>3. SameRounds(v, u)
    BY <2>2 DEF DialFailed, SameRounds, Fields
  <2> HIDE DEF u
  <2> QED BY <2>1, <2>3, SameOK DEF CallInv
<1>6. ASSUME NEW p \in Peers, DialUnaddressed(p) PROVE CallInv'
  <2> DEFINE w == [v EXCEPT !.dials = v.dials \ {p}]
  <2>1. HappensWith(w, quiet, {}) /\ UNCHANGED link
    BY <1>6 DEF DialUnaddressed, Happens
  <2>2. SameRounds(v, w)
    BY DEF SameRounds, Fields
  <2> HIDE DEF w
  <2> QED BY <2>1, <2>2, SameOK DEF CallInv
<1>7. ASSUME NEW p \in Peers, BecomesReady(p) PROVE CallInv'
  <2>1. HappensWith(Verified(v, p), quiet, {}) /\ link[p] = "open" /\ link' = [link EXCEPT ![p] = "ready"]
    BY <1>7 DEF BecomesReady, Happens
  <2>2. p \notin v.connected
    BY <2>1 DEF CallInv
  <2>3. PICK n : n = tries
    OBVIOUS
  <2>4. RoundsOK(Verified(v, p), Goes(Verified(v, p), n)) /\ Verified(v, p).connected = v.connected \union {p}
    BY <2>2, <2>3, VerifiedOK DEF CallInv
  <2>5. /\ link' \in [Peers -> {"none", "open", "ready"}]
        /\ v.connected \union {p} = {q \in Peers : link'[q] = "ready"}
    BY <2>1 DEF CallInv
  <2> QED BY <2>1, <2>3, <2>4, <2>5, HappeningOK
<1>8. ASSUME NEW p \in Peers, ClosesUnready(p) PROVE CallInv'
  <2>1. HappensWith(v, quiet, {}) /\ link[p] = "open" /\ link' = [link EXCEPT ![p] = "none"]
    BY <1>8 DEF ClosesUnready, Happens
  <2> QED BY <2>1, SameReflexive, SameOK DEF CallInv
<1>9. ASSUME NEW p \in Peers, Drops(p) PROVE CallInv'
  <2>1. HappensWith(Gone(v, p), quiet, {}) /\ link' = [link EXCEPT ![p] = "none"]
    BY <1>9 DEF Drops, Happens
  <2>2. SameRounds(v, v)
    BY SameReflexive
  <2> QED BY <2>1, <2>2, GoneKeeps
<1>10. QED
  BY <1>1, <1>3, <1>4, <1>5, <1>6, <1>7, <1>8, <1>9 DEF Network, IdleCloses, ConnectionLost

(***************************************************************************)
(* A round that has ended well (PeerEvent::Asked) begins the next, of the  *)
(* catalogue after the chain, or ends the call.                            *)
(***************************************************************************)
LEMMA AskedOK ==
  ASSUME NEW w, NEW n, RoundsOK(w, n), w.asks = {}, NEW p \in w.connected, p \in Peers,
         NEW off \in Offering
  PROVE  LET u == Asked(w, p, off)
         IN  /\ RoundsOK(u, [n EXCEPT ![p] = Cardinality(u.asks)])
             /\ u.connected = w.connected
<1> DEFINE s == StartRound(w, With(p, "none"))
           a == [s EXCEPT !.retry[p] = Quiet]
           u == Asked(w, p, off)
<1>1. /\ RoundsOK(s, n) /\ s.connected = w.connected /\ s.asks = {} /\ s.started[p] = "none"
  <2>1. DOMAIN With(p, "none") = {p} /\ With(p, "none")[p] = "none"
    BY DEF With
  <2>2. s.started[p] = "none"
    <3>1. s.started = [q \in Peers |-> IF q \in DOMAIN With(p, "none")
                                       THEN With(p, "none")[q] ELSE w.started[q]]
      BY StartRoundFields DEF RoundsOK
    <3> HIDE DEF s
    <3> QED BY <2>1, <3>1
  <2> QED BY <2>2, EndRoundOK
<1>2. u = IF off = "catalogue" THEN [a EXCEPT !.pending = a.pending \ {p}]
          ELSE IF p \in a.connected THEN Ask(a, With(p, "catalogue")) ELSE a
  BY DEF Asked
<1> HIDE DEF s
<1>3. /\ Fields \subseteq DOMAIN a /\ a.connected = w.connected /\ a.asks = {}
      /\ a.started = s.started /\ a.retry = [s.retry EXCEPT ![p] = Quiet]
  BY <1>1 DEF RoundsOK, Fields
<1> HIDE DEF a, u
<1> SUFFICES /\ RoundsOK(u, [n EXCEPT ![p] = Cardinality(u.asks)])
             /\ u.connected = w.connected
  BY DEF u
<1>4. CASE off = "catalogue"
  <2>1. /\ Fields \subseteq DOMAIN u /\ u.connected = w.connected /\ u.asks = {}
        /\ u.started = s.started /\ u.retry = [s.retry EXCEPT ![p] = Quiet]
    BY <1>2, <1>3, <1>4 DEF Fields
  <2>2. Cardinality(u.asks) = 0
    BY <2>1, FS_EmptySet
  <2>3. u.started = [q \in Peers |-> IF q = p THEN "none" ELSE s.started[q]]
    BY <1>1, <2>1 DEF RoundsOK
  <2>4. RoundsOK(u, [n EXCEPT ![p] = 0])
    <3>1. u.connected = s.connected /\ p \in s.connected /\ 0 \in {0, 1}
      BY <1>1, <2>1
    <3>2. "none" \in {"none"} \union Offering
      OBVIOUS
    <3> QED BY <1>1, <2>1, <2>3, <3>1, <3>2, AnsweredOK
  <2> QED BY <2>1, <2>2, <2>4
<1>5. CASE off # "catalogue"
  <2>1. DOMAIN With(p, "catalogue") = {p} /\ With(p, "catalogue")[p] = "catalogue"
    BY DEF With
  <2>2. u = Ask(a, With(p, "catalogue"))
    BY <1>2, <1>3, <1>5
  <2>3. /\ DOMAIN u = DOMAIN a /\ u.connected = a.connected /\ u.retry = a.retry
        /\ u.asks = a.asks \union {<<q, With(p, "catalogue")[q]>> : q \in DOMAIN With(p, "catalogue")}
        /\ u.started = [q \in Peers |-> IF q \in DOMAIN With(p, "catalogue")
                                        THEN With(p, "catalogue")[q] ELSE a.started[q]]
    BY <1>3, <2>2, AskFields
  <2>4. u.asks = {<<p, "catalogue">>} /\ Cardinality(u.asks) = 1
    <3>1. u.asks = {<<p, "catalogue">>}
      BY <1>3, <2>1, <2>3
    <3> QED BY <3>1, FS_Singleton
  <2>5. u.started = [q \in Peers |-> IF q = p THEN "catalogue" ELSE s.started[q]]
    BY <1>3, <2>1, <2>3
  <2>6. RoundsOK(u, [n EXCEPT ![p] = 1])
    <3>1. Fields \subseteq DOMAIN u /\ u.connected = s.connected /\ u.retry = [s.retry EXCEPT ![p] = Quiet]
      BY <1>1, <1>3, <2>3
    <3>2. "catalogue" \in {"none"} \union Offering
      BY DEF Offering
    <3> QED BY <1>1, <2>5, <3>1, <3>2, AnsweredOK
  <2> QED BY <1>1, <1>3, <2>3, <2>4, <2>6
<1> QED BY <1>4, <1>5

(***************************************************************************)
(* Answers to rounds, refusals, and what a peer asks of us.                *)
(***************************************************************************)
LEMMA RoundsKeep ==
  ASSUME CallInv, Rounds
  PROVE  CallInv'
<1> USE CallInvFields
<1>1. ASSUME NEW p \in Peers, NEW off \in Offering, RoundAnswered(p, off) PROVE CallInv'
  <2> DEFINE w == [v EXCEPT !.rounds = v.rounds \ {<<p, off>>}]
             u == Asked(w, p, off)
             read == IF off = "chain" \/ p \in Strangers THEN {}
                     ELSE {<<p, g>> : g \in {h \in Groups : p \in MembersOf[h]}}
             x == [u EXCEPT !.reads = u.reads \union read]
  <2>1. /\ v' = Dispatch(x) /\ tries' = [tries EXCEPT ![p] = Cardinality(u.asks)]
        /\ UNCHANGED link /\ link[p] = "ready"
    BY <1>1 DEF RoundAnswered, Elsewhere
  <2>2. SameRounds(v, w)
    BY DEF SameRounds, Fields
  <2> HIDE DEF w
  <2>3. RoundsOK(w, tries) /\ w.asks = {} /\ w.connected = v.connected /\ p \in w.connected
    BY <2>1, <2>2, RoundsSame DEF CallInv, SameRounds, Fields
  <2>4. PICK n : n = tries
    OBVIOUS
  <2>5. RoundsOK(u, [n EXCEPT ![p] = Cardinality(u.asks)]) /\ u.connected = v.connected
    BY <2>3, <2>4, AskedOK
  <2> HIDE DEF u, read
  <2>6. SameRounds(u, x)
    BY <2>5 DEF RoundsOK, SameRounds, Fields
  <2> HIDE DEF x
  <2>7. PICK m : m = [n EXCEPT ![p] = Cardinality(u.asks)]
    OBVIOUS
  <2>8. RoundsOK(x, m) /\ x.connected = v.connected
    BY <2>5, <2>6, <2>7, RoundsSame DEF SameRounds, Fields
  <2>9. RoundsOK(v', m) /\ v'.connected = x.connected /\ v'.asks = {}
    BY <2>1, <2>8, DispatchOK
  <2> QED BY <2>1, <2>4, <2>7, <2>8, <2>9 DEF CallInv
<1>2. ASSUME NEW w, SameRounds(v, w), NEW p \in Peers, Happens(ArmRetry(w, {p})), UNCHANGED link
      PROVE  CallInv'
  <2>1. RoundsOK(w, tries) /\ w.asks = {} /\ w.connected = v.connected
    BY <1>2, RoundsSame DEF CallInv, SameRounds, Fields
  <2>2. PICK u : u = ArmRetry(w, {p})
    OBVIOUS
  <2>3. RoundsOK(u, tries) /\ u.asks = {} /\ u.connected = v.connected
    BY <2>1, <2>2, ArmRetryOK
  <2>4. HappensWith(u, quiet, {})
    BY <1>2, <2>2 DEF Happens
  <2> QED BY <1>2, <2>3, <2>4, StillOK
<1>3. ASSUME NEW p \in Peers, NEW off \in Offering, RoundFails(p, off) PROVE CallInv'
  <2> DEFINE w == [v EXCEPT !.rounds = v.rounds \ {<<p, off>>}]
  <2>1. Happens(ArmRetry(w, {p})) /\ UNCHANGED link
    BY <1>3 DEF RoundFails, Elsewhere
  <2>2. SameRounds(v, w)
    BY DEF SameRounds, Fields
  <2> HIDE DEF w
  <2> QED BY <1>2, <2>1, <2>2
<1>4. ASSUME NEW p \in Peers, NEW g \in Groups, ReadFails(p, g) PROVE CallInv'
  <2> DEFINE w == [v EXCEPT !.reads = v.reads \ {<<p, g>>}]
  <2>1. Happens(ArmRetry(w, {p})) /\ UNCHANGED link
    BY <1>4 DEF ReadFails, Elsewhere
  <2>2. SameRounds(v, w)
    BY DEF SameRounds, Fields
  <2> HIDE DEF w
  <2> QED BY <1>2, <2>1, <2>2
<1>5. ASSUME NEW p \in Peers, NEW g \in Groups, GroupSettles(p, g) PROVE CallInv'
  <2> DEFINE s == Synced(v, p, g)
             w == [s EXCEPT !.reads = v.reads \ {<<p, g>>},
                            !.reconciled = v.reconciled \union {<<p, g>>}]
             u == OpenPull(w, p, g)
  <2>1. HappensWith(u, quiet, {}) /\ UNCHANGED link
    BY <1>5 DEF GroupSettles, Happens, Elsewhere
  <2>2. RoundsOK(s, tries) /\ s.asks = {} /\ s.connected = v.connected
    <3> DEFINE left == v.outstanding \ {<<p, g>>}
               t == [v EXCEPT !.outstanding = left]
               e == StartRound(v, With(p, "none"))
    <3>1. s \in {v, e, t}
      BY DEF Synced
    <3>2. SameRounds(v, t)
      BY DEF SameRounds, Fields
    <3> HIDE DEF t
    <3>3. RoundsOK(t, tries) /\ t.asks = {} /\ t.connected = v.connected
      BY <3>2, RoundsSame DEF CallInv, SameRounds, Fields
    <3>4. RoundsOK(e, tries) /\ e.asks = {} /\ e.connected = v.connected
      BY EndRoundOK DEF CallInv
    <3> HIDE DEF e, s
    <3> QED BY <3>1, <3>3, <3>4 DEF CallInv
  <2> HIDE DEF s
  <2>3. SameRounds(s, w) /\ Fields \subseteq DOMAIN w
    BY <2>2 DEF RoundsOK, SameRounds, Fields
  <2> HIDE DEF w
  <2>4. SameRounds(w, u)
    BY <2>3, OpenPullSame
  <2> HIDE DEF u
  <2>5. SameRounds(s, u)
    BY <2>3, <2>4, SameTransitive
  <2>6. RoundsOK(u, tries) /\ u.asks = {} /\ u.connected = v.connected
    BY <2>2, <2>5, RoundsSame DEF SameRounds, Fields
  <2> QED BY <2>1, <2>6, StillOK
<1>6. ASSUME NEW p \in Peers, CloseAgreed(p) PROVE CallInv'
  <2> DEFINE w == [v EXCEPT !.closes = v.closes \ {p}, !.closing = v.closing \ {p}]
  <2>1. \/ HappensWith(w, quiet, {}) /\ UNCHANGED link
        \/ HappensWith(Gone(w, p), quiet, {}) /\ link' = [link EXCEPT ![p] = "none"]
    BY <1>6 DEF CloseAgreed, Happens
  <2>2. SameRounds(v, w)
    BY DEF SameRounds, Fields
  <2> HIDE DEF w
  <2> QED BY <2>1, <2>2, SameOK, GoneKeeps DEF CallInv
<1>7. ASSUME NEW p \in Peers, CloseRefused(p) PROVE CallInv'
  <2> DEFINE w == [v EXCEPT !.closes = v.closes \ {p}]
  <2>1. HappensWith(w, quiet, {}) /\ UNCHANGED link
    BY <1>7 DEF CloseRefused, Happens, Elsewhere
  <2>2. SameRounds(v, w)
    BY DEF SameRounds, Fields
  <2> HIDE DEF w
  <2> QED BY <2>1, <2>2, SameOK DEF CallInv
<1> QED BY <1>1, <1>3, <1>4, <1>5, <1>6, <1>7 DEF Rounds

(***************************************************************************)
(* Lists of what peers hold, and transfers.                                *)
(***************************************************************************)
LEMMA ContentKeeps ==
  ASSUME CallInv, Content
  PROVE  CallInv'
<1> USE CallInvFields
<1>1. ASSUME NEW q \in v.queries, HoldingsRefused(q) PROVE CallInv'
  <2> DEFINE w == [v EXCEPT !.queries = v.queries \ {q}]
             u == Refused(w, q[1], q[2])
  <2>1. HappensWith(u, quiet, {}) /\ UNCHANGED link
    BY <1>1 DEF HoldingsRefused, Happens
  <2>2. SameRounds(v, w) /\ Fields \subseteq DOMAIN w
    BY DEF SameRounds, Fields
  <2> HIDE DEF w
  <2>3. SameRounds(v, u)
    BY <2>2, RefusedSame, SameTransitive
  <2> HIDE DEF u
  <2> QED BY <2>1, <2>3, SameOK DEF CallInv
<1>2. ASSUME NEW q \in v.queries, NEW held, HoldingsAnswered(q, held) PROVE CallInv'
  <2> DEFINE w == [v EXCEPT !.queries = v.queries \ {q}]
             u == Held(w, q[1], q[2], q[3], held)
  <2>1. HappensWith(u, quiet, {}) /\ UNCHANGED link
    BY <1>2 DEF HoldingsAnswered, Happens, Elsewhere
  <2>2. SameRounds(v, w) /\ Fields \subseteq DOMAIN w
    BY DEF SameRounds, Fields
  <2> HIDE DEF w
  <2>3. SameRounds(v, u)
    BY <2>2, HeldSame, SameTransitive
  <2> HIDE DEF u
  <2> QED BY <2>1, <2>3, SameOK DEF CallInv
<1>3. ASSUME NEW w, SameRounds(v, w), NEW p, TransferEnds(w, p) PROVE CallInv'
  <2> DEFINE u == Freed(w, p)
  <2>1. HappensWith(u, quiet, {}) /\ UNCHANGED link
    BY <1>3 DEF TransferEnds, Happens
  <2>2. Fields \subseteq DOMAIN w
    BY <1>3 DEF SameRounds
  <2>3. SameRounds(v, u)
    BY <1>3, <2>2, FreedSame, SameTransitive
  <2> HIDE DEF u
  <2> QED BY <2>1, <2>3, SameOK DEF CallInv
<1>4. ASSUME NEW b \in v.blobs, BlobDone(b) PROVE CallInv'
  <2> DEFINE w == [v EXCEPT !.blobs = v.blobs \ {b}, !.missing = v.missing \ {b[2]}]
  <2>1. TransferEnds(w, b[1])
    BY <1>4 DEF BlobDone
  <2>2. SameRounds(v, w)
    BY DEF SameRounds, Fields
  <2> HIDE DEF w
  <2> QED BY <1>3, <2>1, <2>2
<1>5. ASSUME NEW b \in v.blobs, NEW terminal, BlobFails(b, terminal) PROVE CallInv'
  <2> DEFINE w == [v EXCEPT !.blobs = v.blobs \ {b},
                     !.denied = IF terminal THEN v.denied \union {<<b[1], b[2]>>}
                                ELSE v.denied]
  <2>1. TransferEnds(w, b[1])
    BY <1>5 DEF BlobFails
  <2>2. SameRounds(v, w)
    BY DEF SameRounds, Fields
  <2> HIDE DEF w
  <2> QED BY <1>3, <2>1, <2>2
<1> QED BY <1>1, <1>2, <1>4, <1>5 DEF Content

(***************************************************************************)
(* What the commands and the other nodes change behind the supervisor.     *)
(***************************************************************************)
LEMMA UserKeeps ==
  ASSUME CallInv, User
  PROVE  CallInv'
<1> USE CallInvFields
<1>1. ASSUME NEW w, SameRounds(v, w), Happens(w), UNCHANGED link PROVE CallInv'
  BY <1>1, SameOK DEF CallInv, Happens
<1>2. ASSUME NEW g \in Groups, NewsMade(g) PROVE CallInv'
  <2> DEFINE w == [v EXCEPT !.news = v.news \union {g}]
  <2>1. SameRounds(v, w)
    BY DEF SameRounds, Fields
  <2>2. Happens(w) /\ UNCHANGED link
    BY <1>2 DEF NewsMade, Elsewhere
  <2> HIDE DEF w
  <2> QED BY <1>1, <2>1, <2>2
<1>3. ASSUME NEW f \in Files, FileWanted(f) PROVE CallInv'
  <2> DEFINE w == [v EXCEPT !.missing = v.missing \union {f},
                        !.wanted = v.wanted \union {f[1]}]
  <2>1. SameRounds(v, w)
    BY DEF SameRounds, Fields
  <2>2. Happens(w) /\ UNCHANGED link
    BY <1>3 DEF FileWanted, Elsewhere
  <2> HIDE DEF w
  <2> QED BY <1>1, <2>1, <2>2
<1>4. ASSUME NEW f \in Files, FileSettled(f) PROVE CallInv'
  <2> DEFINE w == [v EXCEPT !.missing = v.missing \ {f}]
  <2>1. SameRounds(v, w)
    BY DEF SameRounds, Fields
  <2>2. Happens(w) /\ UNCHANGED link
    BY <1>4 DEF FileSettled
  <2> HIDE DEF w
  <2> QED BY <1>1, <2>1, <2>2
<1>5. ASSUME NEW d \in Spaces, DiskChanges(d) PROVE CallInv'
  BY <1>1, <1>5, SameReflexive DEF DiskChanges
<1> QED BY <1>2, <1>3, <1>4, <1>5 DEF User

-----------------------------------------------------------------------------
(***************************************************************************)
(* The supervisor begins with no connection and no round.                  *)
(***************************************************************************)
LEMMA CallsStart == Init => CallInv
<1> SUFFICES ASSUME Init PROVE CallInv
  OBVIOUS
<1>1. /\ Fields \subseteq DOMAIN v /\ v.connected = {} /\ v.asks = {}
      /\ v.started = [p \in Peers |-> "none"] /\ v.retry = [p \in Peers |-> Quiet]
  BY DEF Init, Fields
<1>2. link = [p \in Peers |-> "none"] /\ tries = [p \in Peers |-> 0]
  BY DEF Init
<1>3. ASSUME NEW p \in Peers PROVE RoundOK(v, tries, p)
  BY <1>1, <1>2, NewRetry, AttemptsNat DEF RoundOK
<1>4. RoundsOK(v, tries)
  BY <1>1, <1>2, <1>3, NewRetry DEF RoundsOK
<1> QED BY <1>1, <1>2, <1>4 DEF CallInv

(***************************************************************************)
(* The rounds stay in order: a round is armed again only between two goes  *)
(* of it, what is left of its goes counts down, and a peer that is not     *)
(* connected has none (Supervisor::arm_retry, retries, PeerEvent::Gone).   *)
(***************************************************************************)
THEOREM CallsInvariant == Spec => []CallInv
<1>1. CallInv /\ [Next]_vars => CallInv'
  <2> SUFFICES ASSUME CallInv, [Next]_vars PROVE CallInv'
    OBVIOUS
  <2>1. CASE UNCHANGED vars
    BY <2>1 DEF CallInv, vars
  <2>2. ASSUME NEW t \in Timers, Tick(t) PROVE CallInv'
    BY <2>2, TickKeeps
  <2> QED BY <2>1, <2>2, NetworkKeeps, RoundsKeep, ContentKeeps, UserKeeps DEF Next
<1> QED BY <1>1, CallsStart, PTL DEF Spec

(***************************************************************************)
(* Between two answers a peer is asked at most once and RetryAttempts      *)
(* times again, whatever fails, runs out or reconnects in between          *)
(* (Supervisor::arm_retry, retries).                                       *)
(***************************************************************************)
THEOREM TriesStayBounded == Spec => []TriesBounded
<1>1. CallInv => TriesBounded
  BY DEF CallInv, RoundsOK, RoundOK, TriesBounded
<1> QED BY <1>1, CallsInvariant, PTL

-----------------------------------------------------------------------------
(***************************************************************************)
(* The name of a read of bytes: whom it asks, for what, and a number.      *)
(***************************************************************************)
LEMMA AppendPair ==
  ASSUME NEW p, NEW f, NEW n
  PROVE  Append(<<p, f>>, n) = <<p, f, n>>
<1> DEFINE a == Append(<<p, f>>, n)
<1>1. <<p, f>> \in Seq({p, f, n}) /\ Len(<<p, f>>) = 2
  OBVIOUS
<1>2. a \in Seq({p, f, n}) /\ Len(a) = 3 /\ a[1] = p /\ a[2] = f /\ a[3] = n
  BY <1>1
<1>3. <<p, f, n>> \in Seq({p, f, n}) /\ Len(<<p, f, n>>) = 3
  OBVIOUS
<1> HIDE DEF a
<1>4. \A i \in 1 .. 3 : a[i] = <<p, f, n>>[i]
  BY <1>2
<1>5. a = <<p, f, n>>
  BY <1>2, <1>3, <1>4
<1> QED BY <1>5 DEF a

(***************************************************************************)
(* A queue is a sequence of files, whatever a file is.                     *)
(***************************************************************************)
IsQueue(s) == \E T : s \in Seq(T)

(***************************************************************************)
(* A file put at the end of a queue leaves a queue;                        *)
(***************************************************************************)
LEMMA QueueAppend ==
  ASSUME NEW s, IsQueue(s), NEW f
  PROVE  IsQueue(Append(s, f))
<1>1. PICK T : s \in Seq(T)
  BY DEF IsQueue
<1>2. s \in Seq(T \union {f}) /\ f \in T \union {f}
  BY <1>1
<1>3. Append(s, f) \in Seq(T \union {f})
  BY <1>2
<1> QED BY <1>3 DEF IsQueue

(***************************************************************************)
(* so do the files of a page;                                              *)
(***************************************************************************)
LEMMA QueueConcat ==
  ASSUME NEW s, IsQueue(s), NEW t, IsQueue(t)
  PROVE  IsQueue(s \o t)
<1>1. PICK T : s \in Seq(T)
  BY DEF IsQueue
<1>2. PICK U : t \in Seq(U)
  BY DEF IsQueue
<1>3. s \in Seq(T \union U) /\ t \in Seq(T \union U)
  BY <1>1, <1>2
<1>4. s \o t \in Seq(T \union U)
  BY <1>3
<1> QED BY <1>4 DEF IsQueue

(***************************************************************************)
(* the empty queue is one,                                                 *)
(***************************************************************************)
LEMMA QueueEmpty == IsQueue(<<>>)
<1>1. <<>> \in Seq({})
  OBVIOUS
<1> QED BY <1>1 DEF IsQueue

(***************************************************************************)
(* and so is one file,                                                     *)
(***************************************************************************)
LEMMA QueueOne == \A f : IsQueue(<<f>>)
<1>1. \A f : <<f>> \in Seq({f})
  OBVIOUS
<1> QED BY <1>1 DEF IsQueue

(***************************************************************************)
(* and what is listed by number.                                           *)
(***************************************************************************)
LEMMA QueueFunction ==
  ASSUME NEW n \in Nat, NEW s
  PROVE  IsQueue([i \in 1 .. n |-> s[i]])
<1>1. [i \in 1 .. n |-> s[i]] \in Seq({s[i] : i \in 1 .. n})
  OBVIOUS
<1> QED BY <1>1 DEF IsQueue

(***************************************************************************)
(* A read that starts is not one of those that run: a number is free.      *)
(***************************************************************************)
LEMMA OneMoreAdds ==
  ASSUME NEW S, IsFiniteSet(S), NEW p, NEW f
  PROVE  \E n \in Nat : <<p, f, n>> \notin S /\ OneMore(S, <<p, f>>) = S \union {<<p, f, n>>}
<1> DEFINE N == Cardinality(S) + 1
           T == {n \in 1 .. N : <<p, f, n>> \notin S}
           id == CHOOSE n \in 1 .. N : /\ Append(<<p, f>>, n) \notin S
                                       /\ \A m \in 1 .. n - 1 : Append(<<p, f>>, m) \in S
<1>1. Cardinality(S) \in Nat
  BY FS_CardinalityType
<1>2. T # {}
  <2>1. SUFFICES ASSUME T = {} PROVE FALSE
    OBVIOUS
  <2> DEFINE g == [n \in 1 .. N |-> <<p, f, n>>]
  <2>2. g \in Injection(1 .. N, S)
    <3>1. \A n \in 1 .. N : g[n] = <<p, f, n>> /\ g[n] \in S
      BY <2>1
    <3>2. \A n, m \in 1 .. N : g[n] = g[m] => n = m
      BY <3>1
    <3>3. g \in [1 .. N -> S]
      BY <3>1
    <3> QED BY <3>2, <3>3 DEF Injection, IsInjective
  <2>3. Cardinality(1 .. N) <= Cardinality(S)
    BY <2>2, FS_Injection
  <2>4. Cardinality(1 .. N) = N
    BY <1>1, FS_Interval
  <2> QED BY <1>1, <2>3, <2>4
<1>3. PICK n \in T : \A m \in T : n <= m
  <2>1. T \in SUBSET Nat
    BY <1>1
  <2> HIDE DEF T
  <2> QED BY <1>2, <2>1, LeastNumber
<1>4. /\ n \in 1 .. N /\ Append(<<p, f>>, n) \notin S
      /\ \A m \in 1 .. n - 1 : Append(<<p, f>>, m) \in S
  <2>1. \A m \in 1 .. n - 1 : m \in 1 .. N /\ m \notin T
    BY <1>1, <1>3
  <2> QED BY <1>3, <2>1, AppendPair
<1>5. id \in 1 .. N /\ Append(<<p, f>>, id) \notin S
  BY <1>4
<1>6. OneMore(S, <<p, f>>) = S \union {Append(<<p, f>>, id)}
  BY DEF OneMore
<1> HIDE DEF id
<1>7. id \in Nat /\ Append(<<p, f>>, id) = <<p, f, id>>
  BY <1>1, <1>5, AppendPair
<1> QED BY <1>5, <1>6, <1>7

-----------------------------------------------------------------------------
(***************************************************************************)
(* The reads of bytes from p.                                              *)
(***************************************************************************)
Of(S, p) == {b \in S : b[1] = p}

(***************************************************************************)
(* The slots p has taken.                                                  *)
(***************************************************************************)
LEMMA SlotIs ==
  ASSUME NEW w, NEW p \in Peers, NEW i
  PROVE  <<p, i>> \in Slots(w) <=> i \in 1 .. w.transfers[p]
  BY DEF Slots

(***************************************************************************)
(* One transfer more from a peer takes one slot more,                      *)
(***************************************************************************)
LEMMA SlotsMore ==
  ASSUME NEW w, NEW u, w.transfers \in [Peers -> Nat], NEW p \in Peers,
         u.transfers = [w.transfers EXCEPT ![p] = w.transfers[p] + 1]
  PROVE  Slots(u) = Slots(w) \union {<<p, w.transfers[p] + 1>>}
<1> DEFINE x == <<p, w.transfers[p] + 1>>
<1>1. ASSUME NEW q \in Peers
      PROVE  {q} \X (1 .. u.transfers[q]) = IF q = p THEN ({q} \X (1 .. w.transfers[q])) \union {x}
                                            ELSE {q} \X (1 .. w.transfers[q])
  <2>1. CASE q = p
    <3>1. u.transfers[q] = w.transfers[q] + 1 /\ w.transfers[q] \in Nat
      BY <2>1
    <3>2. 1 .. w.transfers[q] + 1 = (1 .. w.transfers[q]) \union {w.transfers[q] + 1}
      BY <3>1
    <3> QED BY <2>1, <3>1, <3>2
  <2>2. CASE q # p
    BY <2>2
  <2> QED BY <2>1, <2>2
<1>2. ASSUME NEW e \in Slots(u) PROVE e \in Slots(w) \union {x}
  <2>1. PICK q \in Peers : e \in {q} \X (1 .. u.transfers[q])
    BY DEF Slots
  <2>2. e \in ({q} \X (1 .. w.transfers[q])) \union {x}
    BY <1>1, <2>1
  <2> QED BY <2>2 DEF Slots
<1>3. ASSUME NEW e \in Slots(w) \union {x} PROVE e \in Slots(u)
  <2>1. PICK q \in Peers : e \in ({q} \X (1 .. w.transfers[q])) \union (IF q = p THEN {x} ELSE {})
    BY DEF Slots
  <2>2. e \in {q} \X (1 .. u.transfers[q])
    BY <1>1, <2>1
  <2> QED BY <2>2 DEF Slots
<1> QED BY <1>2, <1>3

(***************************************************************************)
(* and fewer transfers never take more slots.                              *)
(***************************************************************************)
LEMMA SlotsLess ==
  ASSUME NEW w, NEW u, w.transfers \in [Peers -> Nat], u.transfers \in [Peers -> Nat],
         \A p \in Peers : u.transfers[p] <= w.transfers[p],
         IsFiniteSet(Slots(w)), Cardinality(Slots(w)) <= MaxTransfers
  PROVE  IsFiniteSet(Slots(u)) /\ Cardinality(Slots(u)) <= MaxTransfers
<1>1. Slots(u) \in SUBSET Slots(w)
  <2>1. ASSUME NEW e \in Slots(u) PROVE e \in Slots(w)
    <3>1. PICK q \in Peers : e \in {q} \X (1 .. u.transfers[q])
      BY DEF Slots
    <3>2. e \in {q} \X (1 .. w.transfers[q])
      BY <3>1
    <3> QED BY <3>2 DEF Slots
  <2> QED BY <2>1
<1>2. Cardinality(Slots(w)) \in Nat /\ Cardinality(Slots(u)) \in Nat
  BY <1>1, FS_Subset, FS_CardinalityType
<1>3. MaxTransfers \in Nat
  BY SupervisorAssumption DEF SupervisorAssumption
<1> QED BY <1>1, <1>2, <1>3, FS_Subset

(***************************************************************************)
(* The counts of w are true: a connected peer counts the reads that run    *)
(* with it, any other peer nothing, and has nothing queued; no more slots  *)
(* are taken than there are; and nothing runs with a peer whose connection *)
(* is only opening.                                                        *)
(***************************************************************************)
CountsOK(w, opening) ==
  /\ Fields \subseteq DOMAIN w
  /\ w.transfers \in [Peers -> Nat]
  /\ w.queued = [p \in Peers |-> w.queued[p]]
  /\ \A p \in Peers : IsQueue(w.queued[p])
  /\ IsFiniteSet(w.blobs) /\ \A b \in w.blobs : b[1] \in Peers
  /\ IsFiniteSet(Slots(w)) /\ Cardinality(Slots(w)) <= MaxTransfers
  /\ \A p \in Peers :
       IF p \in w.connected THEN w.transfers[p] = Cardinality(Of(w.blobs, p))
       ELSE w.transfers[p] = 0 /\ w.queued[p] = <<>>
  /\ \A p \in opening : p \notin w.connected /\ Of(w.blobs, p) = {}

(***************************************************************************)
(* So they are, and the connections are those given.                       *)
(***************************************************************************)
Counted(w, opening, connected) == CountsOK(w, opening) /\ w.connected = connected

(***************************************************************************)
(* What leaves the transfers alone leaves the counts true.                 *)
(***************************************************************************)
LEMMA CountsSame ==
  ASSUME NEW w, NEW u, NEW o, CountsOK(w, o), SameLoads(w, u)
  PROVE  Counted(u, o, w.connected)
<1>1. /\ DOMAIN u = DOMAIN w /\ u.connected = w.connected /\ u.transfers = w.transfers
      /\ u.blobs = w.blobs /\ u.queued = w.queued
  BY DEF SameLoads
<1>2. Slots(u) = Slots(w)
  BY <1>1 DEF Slots
<1> QED BY <1>1, <1>2 DEF CountsOK, Counted

(***************************************************************************)
(* A queue that is replaced changes no count.                              *)
(***************************************************************************)
LEMMA QueueReplaced ==
  ASSUME NEW w, NEW u, NEW o, CountsOK(w, o), NEW p, NEW files, IsQueue(files),
         p \in Peers \ w.connected => files = <<>>,
         DOMAIN u = DOMAIN w, u.connected = w.connected, u.transfers = w.transfers,
         u.blobs = w.blobs, u.queued = [w.queued EXCEPT ![p] = files]
  PROVE  Counted(u, o, w.connected)
<1>1. Slots(u) = Slots(w)
  BY DEF Slots
<1>2. ASSUME NEW q \in Peers
      PROVE  u.queued[q] = IF q = p THEN files ELSE w.queued[q]
  BY DEF CountsOK
<1>3. u.queued = [q \in Peers |-> u.queued[q]]
  BY DEF CountsOK
<1> QED BY <1>1, <1>2, <1>3 DEF CountsOK, Counted

(***************************************************************************)
(* Dropping what is queued of one group changes a queue (drop_queued),     *)
(***************************************************************************)
LEMMA DropQueuedCounts ==
  ASSUME NEW w, NEW o, CountsOK(w, o), NEW p, NEW g
  PROVE  Counted(DropQueued(w, p, g), o, w.connected)
<1> DEFINE files == w.queued[p]
           kept == InOrder({i \in DOMAIN files : files[i][1] # g})
           left == [i \in DOMAIN kept |-> files[kept[i]]]
           u == DropQueued(w, p, g)
<1>1. u = [w EXCEPT !.queued[p] = left]
  BY DEF DropQueued
<1>2. /\ DOMAIN u = DOMAIN w /\ u.connected = w.connected /\ u.transfers = w.transfers
      /\ u.blobs = w.blobs /\ u.queued = [w.queued EXCEPT ![p] = left]
  <2> HIDE DEF left
  <2> QED BY <1>1 DEF CountsOK, Fields
<1> HIDE DEF u
<1>3. CASE p \notin Peers
  <2>1. u.queued = w.queued
    <3>1. w.queued = [q \in Peers |-> w.queued[q]]
      BY DEF CountsOK
    <3> HIDE DEF left
    <3> QED BY <1>2, <1>3, <3>1
  <2>2. SameLoads(w, u)
    BY <1>2, <2>1 DEF SameLoads
  <2> QED BY <2>2, CountsSame DEF u
<1>4. CASE p \in Peers
  <2> DEFINE I == {i \in DOMAIN files : files[i][1] # g}
  <2>1. PICK T : files \in Seq(T)
    BY <1>4 DEF CountsOK, IsQueue
  <2>2. Len(files) \in Nat /\ DOMAIN files = 1 .. Len(files)
    BY <2>1
  <2>3. IsFiniteSet(I) /\ Cardinality(I) \in Nat /\ (I = {} => Cardinality(I) = 0)
    <3>1. IsFiniteSet(1 .. Len(files))
      BY <2>2, FS_Interval
    <3>2. I \in SUBSET (1 .. Len(files))
      BY <2>2
    <3> HIDE DEF I
    <3> QED BY <3>1, <3>2, FS_Subset, FS_CardinalityType, FS_EmptySet
  <2>4. DOMAIN kept = 1 .. Cardinality(I)
    BY DEF InOrder
  <2>5. left = [i \in 1 .. Cardinality(I) |-> left[i]]
    BY <2>4
  <2>6. IsQueue(left)
    <3> HIDE DEF left, I
    <3> QED BY <2>3, <2>5, QueueFunction
  <2>7. p \notin w.connected => left = <<>>
    <3> SUFFICES ASSUME p \notin w.connected PROVE left = <<>>
      OBVIOUS
    <3>1. files = <<>>
      BY <1>4 DEF CountsOK
    <3>2. I = {}
      BY <3>1
    <3>3. Cardinality(I) = 0
      BY <2>3, <3>2
    <3>4. left \in Seq({}) /\ Len(left) = 0
      <4> HIDE DEF left, I
      <4> QED BY <2>5, <3>3
    <3> HIDE DEF left
    <3> QED BY <3>4
  <2> HIDE DEF left
  <2>8. Counted(u, o, w.connected)
    BY <1>2, <2>6, <2>7, QueueReplaced
  <2> QED BY <2>8 DEF u
<1> QED BY <1>3, <1>4

(***************************************************************************)
(* giving a peer up as a source does no more (spend_peer),                 *)
(***************************************************************************)
LEMMA SpendPeerCounts ==
  ASSUME NEW w, NEW o, CountsOK(w, o), NEW p, NEW g
  PROVE  Counted(SpendPeer(w, p, g), o, w.connected)
<1> DEFINE a == DropQueued(w, p, g)
           b == LetGo(a, p, g)
           u == SpendPeer(w, p, g)
<1>1. Counted(a, o, w.connected)
  BY DropQueuedCounts
<1>2. u = [b EXCEPT !.asked[<<p, g>>] = 0, !.spent = b.spent \union {<<p, g>>}]
         \/ u = [b EXCEPT !.asked[<<p, g>>] = 0, !.spent = w.spent \union {<<p, g>>}]
  BY DEF SpendPeer, ReleaseSource
<1> HIDE DEF a
<1>3. SameLoads(a, b)
  BY <1>1 DEF LetGo, Counted, CountsOK, SameLoads, Fields
<1> HIDE DEF b, u
<1>4. SameLoads(b, u)
  BY <1>1, <1>2, <1>3 DEF Counted, CountsOK, SameLoads, Fields
<1>5. SameLoads(a, u)
  BY <1>3, <1>4 DEF SameLoads
<1>6. Counted(u, o, w.connected)
  BY <1>1, <1>5, CountsSame DEF Counted
<1> QED BY <1>6 DEF u

(***************************************************************************)
(* nor does asking what it holds (ask_holdings),                           *)
(***************************************************************************)
LEMMA AskHoldingsCounts ==
  ASSUME NEW w, NEW o, CountsOK(w, o), NEW p, NEW g
  PROVE  Counted(AskHoldings(w, p, g), o, w.connected)
<1>1. AskHoldings(w, p, g) = SpendPeer(w, p, g) \/ SameLoads(w, AskHoldings(w, p, g))
  BY DEF AskHoldings, CountsOK, SameLoads, Fields
<1>2. PICK u : u = AskHoldings(w, p, g)
  OBVIOUS
<1> QED BY <1>1, <1>2, SpendPeerCounts, CountsSame

(***************************************************************************)
(* opening a pull (open_pull),                                             *)
(***************************************************************************)
LEMMA OpenPullCounts ==
  ASSUME NEW w, NEW o, CountsOK(w, o), NEW p, NEW g
  PROVE  Counted(OpenPull(w, p, g), o, w.connected)
<1> DEFINE u == [w EXCEPT !.source[g] = p]
<1>1. OpenPull(w, p, g) = w \/ OpenPull(w, p, g) = AskHoldings(u, p, g)
  BY DEF OpenPull
<1>2. SameLoads(w, u)
  BY DEF CountsOK, SameLoads, Fields
<1> HIDE DEF u
<1>3. Counted(u, o, w.connected)
  BY <1>2, CountsSame
<1>4. Counted(AskHoldings(u, p, g), o, w.connected)
  BY <1>3, AskHoldingsCounts DEF Counted
<1> QED BY <1>1, <1>4 DEF Counted

(***************************************************************************)
(* turning the page of a group (continue_pull),                            *)
(***************************************************************************)
LEMMA NextPageCounts ==
  ASSUME NEW w, NEW o, CountsOK(w, o), NEW p, NEW g
  PROVE  Counted(NextPage(w, p, g), o, w.connected)
<1>1. \/ NextPage(w, p, g) = w \/ NextPage(w, p, g) = AskHoldings(w, p, g)
      \/ NextPage(w, p, g) = OpenPull(w, p, g)
  BY DEF NextPage
<1> QED BY <1>1, AskHoldingsCounts, OpenPullCounts DEF Counted

(***************************************************************************)
(* looking for a source of one (content_pulls),                            *)
(***************************************************************************)
LEMMA PullForCounts ==
  ASSUME NEW w, NEW o, CountsOK(w, o), NEW g
  PROVE  Counted(PullFor(w, g), o, w.connected)
<1>1. \/ PullFor(w, g) = w \/ PullFor(w, g) = ExhaustGroup(w, g)
      \/ \E p : PullFor(w, g) = OpenPull(w, p, g)
      \/ \E p, turn : PullFor(w, g) = Dial([w EXCEPT !.turn[g] = turn], p)
  BY DEF PullFor
<1>2. CASE PullFor(w, g) = w
  BY <1>2 DEF Counted
<1>3. CASE PullFor(w, g) = ExhaustGroup(w, g)
  <2>1. SameLoads(w, ExhaustGroup(w, g))
    BY ExhaustSame DEF CountsOK, Same
  <2> QED BY <1>3, <2>1, CountsSame
<1>4. CASE \E p : PullFor(w, g) = OpenPull(w, p, g)
  BY <1>4, OpenPullCounts
<1>5. CASE \E p, turn : PullFor(w, g) = Dial([w EXCEPT !.turn[g] = turn], p)
  <2>1. PICK p, turn : PullFor(w, g) = Dial([w EXCEPT !.turn[g] = turn], p)
    BY <1>5
  <2> DEFINE a == [w EXCEPT !.turn[g] = turn]
  <2>2. SameLoads(w, a) /\ Fields \subseteq DOMAIN a
    BY DEF CountsOK, SameLoads, Fields
  <2> HIDE DEF a
  <2>3. SameLoads(a, Dial(a, p))
    BY <2>2, DialSame DEF Same
  <2>4. SameLoads(w, Dial(a, p))
    BY <2>2, <2>3 DEF SameLoads
  <2>5. Counted(Dial(a, p), o, w.connected)
    BY <2>4, CountsSame
  <2> QED BY <2>1, <2>5 DEF a
<1> QED BY <1>1, <1>2, <1>3, <1>4, <1>5

(***************************************************************************)
(* asking again (retries),                                                 *)
(***************************************************************************)
LEMMA RequeryCounts ==
  ASSUME NEW w, NEW o, CountsOK(w, o), NEW x
  PROVE  Counted(Requery(w, x), o, w.connected)
<1> DEFINE a == [w EXCEPT !.again[x].armed = FALSE]
<1>1. Requery(w, x) = w \/ Requery(w, x) = AskHoldings(a, x[1], x[2])
  BY DEF Requery
<1>2. SameLoads(w, a)
  BY DEF CountsOK, SameLoads, Fields
<1> HIDE DEF a
<1>3. Counted(a, o, w.connected)
  BY <1>2, CountsSame
<1>4. Counted(AskHoldings(a, x[1], x[2]), o, w.connected)
  BY <1>3, AskHoldingsCounts DEF Counted
<1> QED BY <1>1, <1>4 DEF Counted

(***************************************************************************)
(* and dropping what a stalled peer has queued (resolve_stalled).          *)
(***************************************************************************)
LEMMA ResolveCounts ==
  ASSUME NEW w, NEW o, CountsOK(w, o), NEW p
  PROVE  Counted(ResolveStalled(w, p), o, w.connected)
<1>1. PICK u : u = ResolveStalled(w, p)
  OBVIOUS
<1>2. CASE u = w
  BY <1>1, <1>2 DEF Counted
<1>3. CASE u # w
  <2>1. /\ DOMAIN u = DOMAIN w /\ u.connected = w.connected /\ u.transfers = w.transfers
        /\ u.blobs = w.blobs /\ u.queued = [w.queued EXCEPT ![p] = <<>>]
    BY <1>1, <1>3 DEF ResolveStalled, CountsOK, Fields
  <2> QED BY <1>1, <2>1, QueueEmpty, QueueReplaced
<1> QED BY <1>2, <1>3

(***************************************************************************)
(* So the walk over the groups leaves the counts true,                     *)
(***************************************************************************)
LEMMA NextPagesCounts ==
  ASSUME NEW w, NEW o, CountsOK(w, o), NEW p, NEW seq, Len(seq) \in Nat
  PROVE  Counted(NextPages(w, p, seq), o, w.connected)
<1>1. PICK run : /\ run[0] = w
                 /\ \A i \in 1 .. Len(seq) : run[i] = NextPage(run[i - 1], p, seq[i])
                 /\ NextPages(w, p, seq) = run[Len(seq)]
  BY NextPagesRun
<1> DEFINE T == {i \in 0 .. Len(seq) : Counted(run[i], o, w.connected)}
<1>2. 0 \in T
  BY <1>1 DEF Counted
<1>3. ASSUME NEW i \in 1 .. Len(seq), i - 1 \in T PROVE i \in T
  <2>1. CountsOK(run[i - 1], o) /\ run[i - 1].connected = w.connected
    BY <1>3 DEF Counted
  <2>2. Counted(run[i], o, run[i - 1].connected)
    BY <1>1, <2>1, NextPageCounts
  <2> QED BY <2>1, <2>2
<1> HIDE DEF T
<1>4. Len(seq) \in T
  <2>1. 0 .. Len(seq) \subseteq T
    BY <1>2, <1>3, UpTo
  <2> QED BY <2>1
<1> QED BY <1>1, <1>4 DEF T

(***************************************************************************)
(* and the walk over the groups without a source,                          *)
(***************************************************************************)
LEMMA PullsCounts ==
  ASSUME NEW w, NEW o, CountsOK(w, o), NEW seq, Len(seq) \in Nat
  PROVE  Counted(Pulls(w, seq), o, w.connected)
<1>1. PICK run : /\ run[0] = w
                 /\ \A i \in 1 .. Len(seq) : run[i] = PullFor(run[i - 1], seq[i])
                 /\ Pulls(w, seq) = run[Len(seq)]
  BY PullsRun
<1> DEFINE T == {i \in 0 .. Len(seq) : Counted(run[i], o, w.connected)}
<1>2. 0 \in T
  BY <1>1 DEF Counted
<1>3. ASSUME NEW i \in 1 .. Len(seq), i - 1 \in T PROVE i \in T
  <2>1. CountsOK(run[i - 1], o) /\ run[i - 1].connected = w.connected
    BY <1>3 DEF Counted
  <2>2. Counted(run[i], o, run[i - 1].connected)
    BY <1>1, <2>1, PullForCounts
  <2> QED BY <2>1, <2>2
<1> HIDE DEF T
<1>4. Len(seq) \in T
  <2>1. 0 .. Len(seq) \subseteq T
    BY <1>2, <1>3, UpTo
  <2> QED BY <2>1
<1> QED BY <1>1, <1>4 DEF T

(***************************************************************************)
(* and the walk over the questions to ask again.                           *)
(***************************************************************************)
LEMMA RequeriesCounts ==
  ASSUME NEW w, NEW o, CountsOK(w, o), NEW seq, Len(seq) \in Nat
  PROVE  Counted(Requeries(w, seq), o, w.connected)
<1>1. PICK run : /\ run[0] = w
                 /\ \A i \in 1 .. Len(seq) : run[i] = Requery(run[i - 1], seq[i])
                 /\ Requeries(w, seq) = run[Len(seq)]
  BY RequeriesRun
<1> DEFINE T == {i \in 0 .. Len(seq) : Counted(run[i], o, w.connected)}
<1>2. 0 \in T
  BY <1>1 DEF Counted
<1>3. ASSUME NEW i \in 1 .. Len(seq), i - 1 \in T PROVE i \in T
  <2>1. CountsOK(run[i - 1], o) /\ run[i - 1].connected = w.connected
    BY <1>3 DEF Counted
  <2>2. Counted(run[i], o, run[i - 1].connected)
    BY <1>1, <2>1, RequeryCounts
  <2> QED BY <2>1, <2>2
<1> HIDE DEF T
<1>4. Len(seq) \in T
  <2>1. 0 .. Len(seq) \subseteq T
    BY <1>2, <1>3, UpTo
  <2> QED BY <2>1
<1> QED BY <1>1, <1>4 DEF T

-----------------------------------------------------------------------------
(***************************************************************************)
(* A transfer that starts is counted once more where its read starts, and  *)
(* only while a slot is free (pump).                                       *)
(***************************************************************************)
LEMMA TransferStarts ==
  ASSUME NEW w, NEW u, NEW o, CountsOK(w, o), NEW p \in Peers, p \in w.connected, NEW f,
         RunningTransfers(w) < MaxTransfers,
         DOMAIN u = DOMAIN w, u.connected = w.connected, u.queued = w.queued,
         u.transfers = [w.transfers EXCEPT ![p] = w.transfers[p] + 1],
         u.blobs = OneMore(w.blobs, <<p, f>>)
  PROVE  Counted(u, o, w.connected)
<1>1. PICK n \in Nat : <<p, f, n>> \notin w.blobs /\ u.blobs = w.blobs \union {<<p, f, n>>}
  <2>1. PICK S : S = w.blobs
    OBVIOUS
  <2>2. IsFiniteSet(S)
    BY <2>1 DEF CountsOK
  <2>3. \E n \in Nat : <<p, f, n>> \notin S /\ OneMore(S, <<p, f>>) = S \union {<<p, f, n>>}
    BY <2>2, OneMoreAdds
  <2> QED BY <2>1, <2>3
<1>2. /\ IsFiniteSet(w.blobs) /\ IsFiniteSet(Slots(w)) /\ w.transfers \in [Peers -> Nat]
      /\ \A b \in w.blobs : b[1] \in Peers
  BY DEF CountsOK
<1>3. IsFiniteSet(u.blobs) /\ \A b \in u.blobs : b[1] \in Peers
  <2>1. IsFiniteSet(u.blobs)
    BY <1>1, <1>2, FS_AddElement
  <2> QED BY <1>1, <1>2, <2>1
<1>4. IsFiniteSet(Slots(u)) /\ Cardinality(Slots(u)) <= MaxTransfers
  <2>1. Slots(u) = Slots(w) \union {<<p, w.transfers[p] + 1>>}
    BY <1>2, SlotsMore
  <2>2. <<p, w.transfers[p] + 1>> \notin Slots(w)
    <3>1. w.transfers[p] \in Nat
      BY <1>2
    <3>2. w.transfers[p] + 1 \notin 1 .. w.transfers[p]
      BY <3>1
    <3> QED BY <3>2, SlotIs
  <2>3. Cardinality(Slots(u)) = Cardinality(Slots(w)) + 1 /\ IsFiniteSet(Slots(u))
    BY <1>2, <2>1, <2>2, FS_AddElement
  <2>4. Cardinality(Slots(w)) \in Nat /\ MaxTransfers \in Nat
    BY <1>2, FS_CardinalityType, SupervisorAssumption DEF SupervisorAssumption
  <2> QED BY <2>3, <2>4 DEF RunningTransfers
<1>5. ASSUME NEW q \in Peers, q # p PROVE Of(u.blobs, q) = Of(w.blobs, q)
  BY <1>1, <1>5 DEF Of
<1>6. Cardinality(Of(u.blobs, p)) = Cardinality(Of(w.blobs, p)) + 1
  <2>1. Of(u.blobs, p) = Of(w.blobs, p) \union {<<p, f, n>>} /\ <<p, f, n>> \notin Of(w.blobs, p)
    BY <1>1 DEF Of
  <2>2. Of(w.blobs, p) \in SUBSET w.blobs
    BY DEF Of
  <2>3. IsFiniteSet(Of(w.blobs, p))
    BY <1>2, <2>2, FS_Subset
  <2> QED BY <2>1, <2>3, FS_AddElement
<1>7. u.transfers \in [Peers -> Nat]
  BY <1>2
<1>8. ASSUME NEW q \in Peers
      PROVE  IF q \in u.connected THEN u.transfers[q] = Cardinality(Of(u.blobs, q))
             ELSE u.transfers[q] = 0 /\ u.queued[q] = <<>>
  <2>1. IF q \in w.connected THEN w.transfers[q] = Cardinality(Of(w.blobs, q))
        ELSE w.transfers[q] = 0 /\ w.queued[q] = <<>>
    BY DEF CountsOK
  <2>2. CASE q = p
    BY <1>2, <1>6, <2>1, <2>2
  <2>3. CASE q # p
    BY <1>2, <1>5, <2>1, <2>3
  <2> QED BY <2>2, <2>3
<1>9. ASSUME NEW q \in o PROVE q \notin u.connected /\ Of(u.blobs, q) = {}
  <2>1. q # p /\ q \notin w.connected /\ Of(w.blobs, q) = {}
    BY DEF CountsOK
  <2> QED BY <1>1, <2>1 DEF Of
<1> QED BY <1>3, <1>4, <1>7, <1>8, <1>9 DEF CountsOK, Counted

(***************************************************************************)
(* Halfway through the queue of p: the counts are true, the queues not     *)
(* written back yet, and no other peer is concerned.                       *)
(***************************************************************************)
Pumping(x, w, p, o) ==
  /\ {"v", "rest", "full"} \subseteq DOMAIN x
  /\ Counted(x.v, o, w.connected) /\ x.v.queued = w.queued /\ DOMAIN x.v = DOMAIN w
  /\ \A q \in Peers \ {p} : x.v.transfers[q] = w.transfers[q]
  /\ IsQueue(x.rest)

(***************************************************************************)
(* A file of the queue is started, kept or skipped; each leaves it so      *)
(* (pump, one step of its loop).                                           *)
(***************************************************************************)
LEMMA PumpFilePumps ==
  ASSUME NEW w, NEW p \in Peers, p \in w.connected, NEW o, NEW x, Pumping(x, w, p, o), NEW f
  PROVE  Pumping(PumpFile(x, p, f), w, p, o)
<1> DEFINE u == [x.v EXCEPT !.space = x.v.space - 1,
                            !.transfers[p] = x.v.transfers[p] + 1,
                            !.blobs = OneMore(x.v.blobs, <<p, f>>)]
           y == PumpFile(x, p, f)
<1>1. \/ y = [x EXCEPT !.rest = Append(x.rest, f)] \/ y = x
      \/ y = [x EXCEPT !.rest = <<f>>, !.full = TRUE]
      \/ y = [x EXCEPT !.v = u] /\ ~(RunningTransfers(x.v) >= MaxTransfers)
  BY DEF PumpFile
<1>2. IsQueue(Append(x.rest, f)) /\ IsQueue(<<f>>)
  BY QueueAppend, QueueOne DEF Pumping
<1>3. CASE y = [x EXCEPT !.rest = Append(x.rest, f)]
  <2>1. DOMAIN y = DOMAIN x /\ y.v = x.v /\ y.rest = Append(x.rest, f)
    BY <1>3 DEF Pumping
  <2> HIDE DEF y
  <2>2. Pumping(y, w, p, o)
    BY <1>2, <2>1 DEF Pumping
  <2> QED BY <2>2 DEF y
<1>4. CASE y = x
  BY <1>4
<1>5. CASE y = [x EXCEPT !.rest = <<f>>, !.full = TRUE]
  <2>1. DOMAIN y = DOMAIN x /\ y.v = x.v /\ y.rest = <<f>>
    BY <1>5 DEF Pumping
  <2> HIDE DEF y
  <2>2. Pumping(y, w, p, o)
    BY <1>2, <2>1 DEF Pumping
  <2> QED BY <2>2 DEF y
<1>6. CASE y = [x EXCEPT !.v = u] /\ ~(RunningTransfers(x.v) >= MaxTransfers)
  <2>1. CountsOK(x.v, o) /\ x.v.connected = w.connected /\ Fields \subseteq DOMAIN x.v
    BY DEF Pumping, Counted, CountsOK
  <2>2. /\ DOMAIN u = DOMAIN x.v /\ u.connected = x.v.connected /\ u.queued = x.v.queued
        /\ u.transfers = [x.v.transfers EXCEPT ![p] = x.v.transfers[p] + 1]
        /\ u.blobs = OneMore(x.v.blobs, <<p, f>>)
    BY <2>1 DEF Fields
  <2> HIDE DEF u
  <2>3. RunningTransfers(x.v) < MaxTransfers
    <3>1. RunningTransfers(x.v) \in Nat /\ MaxTransfers \in Nat
      BY <2>1, FS_CardinalityType, SupervisorAssumption
      DEF SupervisorAssumption, RunningTransfers, CountsOK
    <3> QED BY <1>6, <3>1
  <2>4. Counted(u, o, x.v.connected)
    <3>1. PICK z : z = x.v
      OBVIOUS
    <3> QED BY <2>1, <2>2, <2>3, <3>1, TransferStarts
  <2>5. DOMAIN y = DOMAIN x /\ y.v = u /\ y.rest = x.rest
    BY <1>6 DEF Pumping
  <2>6. \A q \in Peers \ {p} : u.transfers[q] = x.v.transfers[q]
    BY <2>1, <2>2 DEF CountsOK
  <2> HIDE DEF y
  <2>7. Pumping(y, w, p, o)
    BY <2>1, <2>2, <2>4, <2>5, <2>6 DEF Pumping, Counted
  <2> QED BY <2>7 DEF y
<1> QED BY <1>1, <1>3, <1>4, <1>5, <1>6

(***************************************************************************)
(* So starting what there is room for leaves the counts true (pump),       *)
(***************************************************************************)
LEMMA PumpCounts ==
  ASSUME NEW w, NEW o, CountsOK(w, o), NEW p \in Peers
  PROVE  Counted(Pump(w, p), o, w.connected)
<1> DEFINE files == w.queued[p]
           done == PumpFiles(w, p, files)
           u == Pump(w, p)
<1>1. Len(files) \in Nat
  <2>1. PICK T : files \in Seq(T)
    BY DEF CountsOK, IsQueue
  <2> QED BY <2>1
<1>2. PICK run : /\ run[0] = [v |-> w, rest |-> <<>>, full |-> FALSE]
                 /\ \A i \in 1 .. Len(files) : run[i] = PumpFile(run[i - 1], p, files[i])
                 /\ done = run[Len(files)]
  <2> HIDE DEF files, done
  <2>1. done = PumpFiles(w, p, files)
    BY DEF done
  <2> QED BY <1>1, <2>1, PumpFilesRun
<1> HIDE DEF done
<1>3. Pumping(run[0], w, p, o)
  <2>1. Counted(w, o, w.connected)
    BY DEF Counted
  <2> QED BY <1>2, <2>1, QueueEmpty DEF Pumping
<1>4. Pumping(done, w, p, o)
  <2>1. CASE p \in w.connected
    <3> DEFINE T == {i \in 0 .. Len(files) : Pumping(run[i], w, p, o)}
    <3> HIDE DEF files
    <3>1. 0 \in T
      BY <1>1, <1>3
    <3>2. ASSUME NEW i \in 1 .. Len(files), i - 1 \in T PROVE i \in T
      <4>1. Pumping(run[i - 1], w, p, o) /\ run[i] = PumpFile(run[i - 1], p, files[i])
        BY <1>2, <3>2
      <4>2. Pumping(run[i], w, p, o)
        BY <2>1, <4>1, PumpFilePumps
      <4> QED BY <4>2
    <3> HIDE DEF T
    <3>3. 0 .. Len(files) \subseteq T
      BY <1>1, <3>1, <3>2, UpTo
    <3>4. Len(files) \in T
      BY <1>1, <3>3
    <3> QED BY <1>2, <3>4 DEF T
  <2>2. CASE p \notin w.connected
    <3>1. Len(files) = 0
      BY <2>2 DEF CountsOK
    <3> QED BY <1>2, <1>3, <3>1
  <2> QED BY <2>1, <2>2
<1>5. u = [w EXCEPT !.queued[p] = done.rest, !.space = done.v.space,
                    !.transfers[p] = done.v.transfers[p], !.blobs = done.v.blobs]
  BY DEF Pump, done
<1>6. /\ DOMAIN u = DOMAIN w /\ u.connected = w.connected
      /\ u.queued = [w.queued EXCEPT ![p] = done.rest]
      /\ u.transfers = [w.transfers EXCEPT ![p] = done.v.transfers[p]]
      /\ u.blobs = done.v.blobs
  BY <1>5 DEF CountsOK, Fields
<1> HIDE DEF u
<1>7. u.transfers = done.v.transfers
  <2>1. w.transfers \in [Peers -> Nat] /\ done.v.transfers \in [Peers -> Nat]
    BY <1>4 DEF Pumping, Counted, CountsOK
  <2>2. ASSUME NEW q \in Peers PROVE u.transfers[q] = done.v.transfers[q]
    BY <1>4, <1>6, <2>1 DEF Pumping
  <2>3. u.transfers \in [Peers -> Nat]
    BY <1>6, <2>1
  <2> QED BY <2>1, <2>2, <2>3
<1>8. p \in Peers \ w.connected => done.rest = <<>>
  <2> SUFFICES ASSUME p \notin w.connected PROVE done.rest = <<>>
    OBVIOUS
  <2>1. Len(files) = 0
    BY DEF CountsOK
  <2> QED BY <1>2, <2>1
<1>9. Counted(u, o, w.connected)
  <2>1. PICK z : z = done.v
    OBVIOUS
  <2>2. /\ CountsOK(z, o) /\ z.connected = w.connected /\ z.queued = w.queued
        /\ DOMAIN z = DOMAIN w /\ IsQueue(done.rest)
    BY <1>4, <2>1 DEF Pumping, Counted
  <2>3. Counted(u, o, z.connected)
    BY <1>6, <1>7, <1>8, <2>1, <2>2, QueueReplaced
  <2> QED BY <2>2, <2>3
<1> QED BY <1>9 DEF u

(***************************************************************************)
(* and so for a peer with files queued,                                    *)
(***************************************************************************)
LEMMA PumpQueueCounts ==
  ASSUME NEW w, NEW o, CountsOK(w, o), NEW p \in Peers
  PROVE  Counted(PumpQueue(w, p), o, w.connected)
<1> DEFINE u == Pump(w, p)
<1>1. PumpQueue(w, p) = w \/ PumpQueue(w, p) = ResolveStalled(u, p)
  BY DEF PumpQueue
<1>2. Counted(u, o, w.connected)
  BY PumpCounts
<1> HIDE DEF u
<1>3. Counted(ResolveStalled(u, p), o, w.connected)
  BY <1>2, ResolveCounts DEF Counted
<1> QED BY <1>1, <1>3 DEF Counted

(***************************************************************************)
(* and for all of them in any order (pump_queues).                         *)
(***************************************************************************)
LEMMA PumpQueuesCounts ==
  ASSUME NEW w, NEW o, CountsOK(w, o), NEW seq, Len(seq) \in Nat, \A i \in 1 .. Len(seq) : seq[i] \in Peers
  PROVE  Counted(PumpQueues(w, seq), o, w.connected)
<1>1. PICK run : /\ run[0] = w
                 /\ \A i \in 1 .. Len(seq) : run[i] = PumpQueue(run[i - 1], seq[i])
                 /\ PumpQueues(w, seq) = run[Len(seq)]
  BY PumpQueuesRun
<1> DEFINE T == {i \in 0 .. Len(seq) : Counted(run[i], o, w.connected)}
<1>2. 0 \in T
  BY <1>1 DEF Counted
<1>3. ASSUME NEW i \in 1 .. Len(seq), i - 1 \in T PROVE i \in T
  <2>1. CountsOK(run[i - 1], o) /\ run[i - 1].connected = w.connected
    BY <1>3 DEF Counted
  <2>2. Counted(run[i], o, run[i - 1].connected)
    BY <1>1, <2>1, PumpQueueCounts
  <2> QED BY <2>1, <2>2
<1> HIDE DEF T
<1>4. Len(seq) \in T
  <2>1. 0 .. Len(seq) \subseteq T
    BY <1>2, <1>3, UpTo
  <2> QED BY <2>1
<1> QED BY <1>1, <1>4 DEF T

-----------------------------------------------------------------------------
(***************************************************************************)
(* Beginning and ending rounds leaves the transfers alone,                 *)
(***************************************************************************)
LEMMA StartRoundLoads ==
  ASSUME NEW w, Fields \subseteq DOMAIN w, NEW which
  PROVE  SameLoads(w, StartRound(w, which))
  BY DEF StartRound, SameLoads, Fields

(***************************************************************************)
(* and so does asking,                                                     *)
(***************************************************************************)
LEMMA AskLoads ==
  ASSUME NEW w, Fields \subseteq DOMAIN w, NEW which
  PROVE  SameLoads(w, Ask(w, which))
<1> DEFINE s == StartRound(w, which)
<1>1. SameLoads(w, s)
  BY StartRoundLoads
<1>2. \E asks : Ask(w, which) = [s EXCEPT !.asks = asks]
  BY DEF Ask
<1> HIDE DEF s
<1> QED BY <1>1, <1>2 DEF SameLoads, Fields

(***************************************************************************)
(* arming again,                                                           *)
(***************************************************************************)
LEMMA ArmRetryLoads ==
  ASSUME NEW w, Fields \subseteq DOMAIN w, NEW ps
  PROVE  SameLoads(w, ArmRetry(w, ps))
<1> DEFINE which == [p \in {q \in ps : w.started[q] # "none"} |-> "none"]
           s == StartRound(w, which)
<1>1. SameLoads(w, s)
  BY StartRoundLoads
<1>2. \E pending, retry : ArmRetry(w, ps) = [s EXCEPT !.pending = pending, !.retry = retry]
  BY DEF ArmRetry
<1> HIDE DEF s
<1> QED BY <1>1, <1>2 DEF SameLoads, Fields

(***************************************************************************)
(* and handing the requests out.                                           *)
(***************************************************************************)
LEMMA DispatchLoads ==
  ASSUME NEW w, Fields \subseteq DOMAIN w
  PROVE  SameLoads(w, Dispatch(w))
<1> DEFINE late == {a \in w.asks : ChainBusy(w, a[1])}
           idle == {p \in w.proposals :
                      Drained(w, p) /\ ~FilesBusy(w, p) /\ ~ChainBusy(w, p)}
           sent == [w EXCEPT !.rounds = w.rounds \union (w.asks \ late),
                        !.asks = {}, !.closes = w.closes \union idle,
                        !.proposals = {}]
<1>1. Dispatch(w) = ArmRetry(sent, {a[1] : a \in late})
  BY DEF Dispatch
<1>2. SameLoads(w, sent) /\ Fields \subseteq DOMAIN sent
  BY DEF SameLoads, Fields
<1> HIDE DEF sent
<1>3. PICK ps : ps = {a[1] : a \in late}
  OBVIOUS
<1>4. SameLoads(sent, ArmRetry(sent, ps))
  BY <1>2, ArmRetryLoads
<1> QED BY <1>1, <1>2, <1>3, <1>4 DEF SameLoads

(***************************************************************************)
(* The connections that are opening may become any on which nothing runs.  *)
(***************************************************************************)
LEMMA OpeningChanged ==
  ASSUME NEW w, NEW o, CountsOK(w, o), NEW u,
         \A p \in u : p \notin w.connected /\ Of(w.blobs, p) = {}
  PROVE  CountsOK(w, u)
  BY DEF CountsOK

(***************************************************************************)
(* The peers whose connection is opening.                                  *)
(***************************************************************************)
Opening(l) == {p \in Peers : l[p] = "open"}

(***************************************************************************)
(* The invariant of the transfers: the counts are true.                    *)
(***************************************************************************)
LoadInv == CountsOK(v, Opening(link))

(***************************************************************************)
(* An event that leaves the counts true keeps the invariant;               *)
(***************************************************************************)
LEMMA HappeningCounts ==
  ASSUME NEW w, NEW calm, NEW news, HappensWith(w, calm, news), CountsOK(w, Opening(link'))
  PROVE  LoadInv'
<1>1. v' = Dispatch(w)
  BY DEF HappensWith
<1>2. SameLoads(w, v')
  BY <1>1, DispatchLoads DEF CountsOK
<1>3. Counted(v', Opening(link'), w.connected)
  BY <1>2, CountsSame
<1> QED BY <1>3 DEF LoadInv, Counted, Opening

(***************************************************************************)
(* so does one that leaves the transfers and the connections alone,        *)
(***************************************************************************)
LEMMA StillCounts ==
  ASSUME LoadInv, NEW w, NEW calm, NEW news, HappensWith(w, calm, news), SameLoads(v, w),
         UNCHANGED link
  PROVE  LoadInv'
<1>1. CountsOK(w, Opening(link))
  BY CountsSame DEF LoadInv, Counted
<1> QED BY <1>1, HappeningCounts

(***************************************************************************)
(* and one that opens or closes a connection on which nothing runs.        *)
(***************************************************************************)
LEMMA LinkCounts ==
  ASSUME LoadInv, CallInv, NEW w, NEW calm, NEW news, HappensWith(w, calm, news),
         SameLoads(v, w), NEW p \in Peers, NEW l \in {"none", "open"},
         link' = [link EXCEPT ![p] = l],
         l = "open" => NothingWith(v, p) /\ p \notin v.connected
  PROVE  LoadInv'
<1>1. CountsOK(w, Opening(link)) /\ w.blobs = v.blobs /\ w.connected = v.connected
  BY CountsSame DEF LoadInv, Counted, SameLoads
<1>2. ASSUME NEW q \in Opening(link')
      PROVE  q \notin w.connected /\ Of(w.blobs, q) = {}
  <2>1. CASE q = p
    <3>1. l = "open"
      BY <2>1 DEF CallInv, Opening
    <3> QED BY <1>1, <2>1, <3>1 DEF NothingWith, FilesBusy, Of
  <2>2. CASE q # p
    <3>1. q \in Opening(link)
      BY <2>2 DEF CallInv, Opening
    <3> QED BY <1>1, <3>1 DEF CountsOK
  <2> QED BY <2>1, <2>2
<1>3. CountsOK(w, Opening(link'))
  BY <1>1, <1>2, OpeningChanged
<1> QED BY <1>3, HappeningCounts

-----------------------------------------------------------------------------
(***************************************************************************)
(* A list of what a peer holds (on_holdings) fills its queue and starts    *)
(* transfers; the counts stay true.                                        *)
(***************************************************************************)
LEMMA HeldCounts ==
  ASSUME NEW w, NEW o, CountsOK(w, o), NEW p \in Peers, p \in w.connected, NEW g, NEW paths,
         NEW held \in SUBSET Paths
  PROVE  Counted(Held(w, p, g, paths, held), o, w.connected)
<1> DEFINE u == [w EXCEPT !.again[<<p, g>>] = Quiet]
           wanted == {x \in paths \intersect held : <<p, <<g, x>>>> \notin w.denied}
           files  == [i \in 1 .. Cardinality(wanted) |-> <<g, InOrder(wanted)[i]>>]
           more == [u EXCEPT !.queued[p] = u.queued[p] \o files]
           pumped == Pump(more, p)
           t == Held(w, p, g, paths, held)
<1>1. t \in {AskHoldings(u, p, g), pumped, ResolveStalled(pumped, p), SpendPeer(pumped, p, g)}
  BY DEF Held
<1>2. IsQueue(files)
  <2>1. IsFiniteSet(Paths) /\ wanted \in SUBSET Paths
    BY SupervisorAssumption DEF SupervisorAssumption
  <2>2. Cardinality(wanted) \in Nat
    <3> HIDE DEF wanted
    <3> QED BY <2>1, FS_Subset, FS_CardinalityType
  <2>3. files = [i \in 1 .. Cardinality(wanted) |-> files[i]]
    OBVIOUS
  <2> HIDE DEF wanted, files
  <2> QED BY <2>2, <2>3, QueueFunction
<1>3. SameLoads(w, u)
  BY DEF CountsOK, SameLoads, Fields
<1> HIDE DEF files, u, t
<1>4. Counted(u, o, w.connected)
  BY <1>3, CountsSame
<1>5. Counted(more, o, w.connected)
  <2>1. IsQueue(u.queued[p])
    BY <1>4 DEF Counted, CountsOK
  <2>2. PICK all : all = u.queued[p] \o files
    OBVIOUS
  <2>3. IsQueue(all)
    <3>1. PICK s : s = u.queued[p]
      OBVIOUS
    <3> QED BY <1>2, <2>1, <2>2, <3>1, QueueConcat
  <2>4. /\ DOMAIN more = DOMAIN u /\ more.connected = u.connected
        /\ more.transfers = u.transfers /\ more.blobs = u.blobs
        /\ more.queued = [u.queued EXCEPT ![p] = all]
    BY <1>4, <2>2 DEF Counted, CountsOK, Fields
  <2> HIDE DEF more
  <2>5. CountsOK(u, o) /\ u.connected = w.connected
    BY <1>4 DEF Counted
  <2>6. Counted(more, o, u.connected)
    BY <2>3, <2>4, <2>5, QueueReplaced
  <2> QED BY <2>5, <2>6
<1> HIDE DEF more
<1>6. Counted(pumped, o, w.connected)
  BY <1>5, PumpCounts DEF Counted
<1> HIDE DEF pumped
<1>7. Counted(AskHoldings(u, p, g), o, w.connected)
  BY <1>4, AskHoldingsCounts DEF Counted
<1>8. Counted(ResolveStalled(pumped, p), o, w.connected)
  BY <1>6, ResolveCounts DEF Counted
<1>9. Counted(SpendPeer(pumped, p, g), o, w.connected)
  BY <1>6, SpendPeerCounts DEF Counted
<1>10. Counted(t, o, w.connected)
  BY <1>1, <1>6, <1>7, <1>8, <1>9
<1> QED BY <1>10 DEF t

(***************************************************************************)
(* A refusal to say drops a queue (arm_holdings_retry).                    *)
(***************************************************************************)
LEMMA RefusedCounts ==
  ASSUME NEW w, NEW o, CountsOK(w, o), NEW p, NEW g
  PROVE  Counted(Refused(w, p, g), o, w.connected)
<1> DEFINE u == DropQueued(w, p, g)
           a == [u EXCEPT !.again[<<p, g>>] = Quiet]
           b == [u EXCEPT !.again[<<p, g>>] = [of |-> "holdings", armed |-> TRUE,
                                          left |-> u.again[<<p, g>>].left - 1]]
           t == Refused(w, p, g)
<1>1. t = SpendPeer(a, p, g) \/ t = b
  BY DEF Refused
<1>2. Counted(u, o, w.connected)
  BY DropQueuedCounts
<1> HIDE DEF u, t
<1>3. SameLoads(u, a) /\ SameLoads(u, b)
  BY <1>2 DEF Counted, CountsOK, SameLoads, Fields
<1> HIDE DEF a, b
<1>4. Counted(a, o, w.connected) /\ Counted(b, o, w.connected)
  BY <1>2, <1>3, CountsSame DEF Counted
<1>5. Counted(SpendPeer(a, p, g), o, w.connected)
  BY <1>4, SpendPeerCounts DEF Counted
<1> QED BY <1>1, <1>4, <1>5 DEF t

(***************************************************************************)
(* A transfer that ends leaves the read and the slot together              *)
(* (PeerEvent::BlobDone, BlobFailed),                                      *)
(***************************************************************************)
Ended(w, p) ==
  [w EXCEPT !.transfers[p] = IF w.transfers[p] = 0 THEN 0 ELSE w.transfers[p] - 1]

(***************************************************************************)
(* So it leaves the counts true.                                           *)
(***************************************************************************)
LEMMA EndedCounts ==
  ASSUME NEW v0, NEW o, CountsOK(v0, o), NEW b \in v0.blobs, NEW w,
         DOMAIN w = DOMAIN v0, w.connected = v0.connected, w.transfers = v0.transfers,
         w.queued = v0.queued, w.blobs = v0.blobs \ {b}
  PROVE  Counted(Ended(w, b[1]), o, v0.connected)
<1> DEFINE p == b[1]
           a == Ended(w, p)
<1>0. p \in Peers /\ v0.transfers[p] \in Nat
  BY DEF CountsOK
<1>1. /\ DOMAIN a = DOMAIN v0 /\ a.connected = v0.connected /\ a.queued = v0.queued
      /\ a.blobs = v0.blobs \ {b}
      /\ a.transfers = [v0.transfers EXCEPT ![p] = IF v0.transfers[p] = 0 THEN 0
                                                   ELSE v0.transfers[p] - 1]
  BY DEF CountsOK, Fields, Ended
<1> HIDE DEF a, p
<1>2. IsFiniteSet(a.blobs) /\ \A x \in a.blobs : x[1] \in Peers
  <2>1. IsFiniteSet(v0.blobs) /\ \A x \in v0.blobs : x[1] \in Peers
    BY DEF CountsOK
  <2>2. IsFiniteSet(a.blobs)
    BY <1>1, <2>1, FS_RemoveElement
  <2> QED BY <1>1, <2>1, <2>2
<1>3. a.transfers \in [Peers -> Nat] /\ \A q \in Peers : a.transfers[q] <= v0.transfers[q]
  BY <1>0, <1>1 DEF CountsOK
<1>4. IsFiniteSet(Slots(a)) /\ Cardinality(Slots(a)) <= MaxTransfers
  BY <1>3, SlotsLess DEF CountsOK
<1>5. ASSUME NEW q \in Peers, q # p PROVE Of(a.blobs, q) = Of(v0.blobs, q)
  BY <1>1, <1>5 DEF Of, p
<1>6. /\ Cardinality(Of(a.blobs, p)) = Cardinality(Of(v0.blobs, p)) - 1
      /\ Cardinality(Of(v0.blobs, p)) # 0
  <2>1. Of(a.blobs, p) = Of(v0.blobs, p) \ {b} /\ b \in Of(v0.blobs, p)
    BY <1>1 DEF Of, p
  <2>2. Of(v0.blobs, p) \in SUBSET v0.blobs
    BY DEF Of
  <2>3. IsFiniteSet(Of(v0.blobs, p))
    BY <2>2, FS_Subset DEF CountsOK
  <2> QED BY <2>1, <2>3, FS_RemoveElement, FS_EmptySet
<1>7. ASSUME NEW q \in Peers
      PROVE  IF q \in a.connected THEN a.transfers[q] = Cardinality(Of(a.blobs, q))
             ELSE a.transfers[q] = 0 /\ a.queued[q] = <<>>
  <2>1. IF q \in v0.connected THEN v0.transfers[q] = Cardinality(Of(v0.blobs, q))
        ELSE v0.transfers[q] = 0 /\ v0.queued[q] = <<>>
    BY DEF CountsOK
  <2>2. v0.transfers \in [Peers -> Nat]
    BY DEF CountsOK
  <2>3. CASE q = p
    BY <1>1, <1>6, <2>1, <2>2, <2>3
  <2>4. CASE q # p
    BY <1>1, <1>5, <2>1, <2>2, <2>4
  <2> QED BY <2>3, <2>4
<1>8. ASSUME NEW q \in o PROVE q \notin a.connected /\ Of(a.blobs, q) = {}
  <2>1. q \notin v0.connected /\ Of(v0.blobs, q) = {}
    BY DEF CountsOK
  <2> QED BY <1>1, <2>1 DEF Of
<1>9. Counted(a, o, v0.connected)
  BY <1>1, <1>2, <1>3, <1>4, <1>7, <1>8 DEF CountsOK, Counted
<1> QED BY <1>9 DEF a, p

(***************************************************************************)
(* and what it makes room for starts.                                      *)
(***************************************************************************)
LEMMA FreedCounts ==
  ASSUME NEW v0, NEW o, CountsOK(v0, o), NEW b \in v0.blobs, NEW w,
         DOMAIN w = DOMAIN v0, w.connected = v0.connected, w.transfers = v0.transfers,
         w.queued = v0.queued, w.blobs = v0.blobs \ {b}
  PROVE  Counted(Freed(w, b[1]), o, v0.connected)
<1> DEFINE p == b[1]
           a == Ended(w, p)
           c == Pump(a, p)
           u == Used(w, p)
           t == Freed(w, p)
<1>1. p \in Peers
  BY DEF CountsOK
<1>2. u = ResolveStalled(c, p)
  BY DEF Used, Ended
<1>3. t = u \/ t = NextPages(u, p, InOrder(Groups))
  BY DEF Freed, ContinuePull, u
<1>4. Counted(a, o, v0.connected)
  BY EndedCounts
<1> HIDE DEF a, p
<1>5. Counted(c, o, v0.connected)
  BY <1>1, <1>4, PumpCounts DEF Counted
<1> HIDE DEF c, u
<1>6. Counted(u, o, v0.connected)
  BY <1>2, <1>5, ResolveCounts DEF Counted
<1>7. Len(InOrder(Groups)) \in Nat
  BY InOrderLength, SupervisorAssumption DEF SupervisorAssumption
<1>8. Counted(NextPages(u, p, InOrder(Groups)), o, v0.connected)
  BY <1>6, <1>7, NextPagesCounts DEF Counted
<1> HIDE DEF t
<1>9. Counted(t, o, v0.connected)
  BY <1>3, <1>6, <1>8
<1> QED BY <1>9 DEF t, p

(***************************************************************************)
(* A connection that becomes ready has nothing running: its count starts   *)
(* at nothing (PeerEvent::Verified).                                       *)
(***************************************************************************)
LEMMA VerifiedCounts ==
  ASSUME NEW w, NEW o, CountsOK(w, o), NEW p \in o, p \in Peers
  PROVE  CountsOK(Verified(w, p), o \ {p})
<1> DEFINE b == [w EXCEPT !.dialing = w.dialing \ {p},
                !.connected = w.connected \union {p},
                !.online = w.online \union {p},
                !.resting = w.resting \ {p}, !.attempts[p] = 0]
           u == Verified(w, p)
<1>1. u = Ask(b, With(p, "chain"))
  BY DEF Verified
<1>2. /\ DOMAIN b = DOMAIN w /\ b.connected = w.connected \union {p}
      /\ b.transfers = w.transfers /\ b.queued = w.queued /\ b.blobs = w.blobs
  BY DEF CountsOK, Fields
<1> HIDE DEF b, u
<1>3. Slots(b) = Slots(w)
  BY <1>2 DEF Slots
<1>4. w.transfers[p] = 0 /\ Of(w.blobs, p) = {} /\ Cardinality({}) = 0
  BY FS_EmptySet DEF CountsOK
<1>5. ASSUME NEW q \in Peers
      PROVE  IF q \in b.connected THEN b.transfers[q] = Cardinality(Of(b.blobs, q))
             ELSE b.transfers[q] = 0 /\ b.queued[q] = <<>>
  <2>1. IF q \in w.connected THEN w.transfers[q] = Cardinality(Of(w.blobs, q))
        ELSE w.transfers[q] = 0 /\ w.queued[q] = <<>>
    BY DEF CountsOK
  <2> QED BY <1>2, <1>4, <2>1
<1>6. CountsOK(b, o \ {p})
  BY <1>2, <1>3, <1>5 DEF CountsOK
<1>7. SameLoads(b, u)
  BY <1>1, <1>6, AskLoads DEF CountsOK
<1>8. CountsOK(u, o \ {p})
  BY <1>6, <1>7, CountsSame DEF Counted
<1> QED BY <1>8 DEF u

(***************************************************************************)
(* A peer that goes loses its count and its queue (PeerEvent::Gone), while *)
(* its reads still run.                                                    *)
(***************************************************************************)
LEMMA GoneCounts ==
  ASSUME NEW w, NEW o, CountsOK(w, o), NEW p \in Peers
  PROVE  CountsOK(Gone(w, p), o)
<1> DEFINE u == Gone(w, p)
<1>1. /\ DOMAIN u = DOMAIN w /\ u.connected = w.connected \ {p}
      /\ u.transfers = [w.transfers EXCEPT ![p] = 0]
      /\ u.queued = [w.queued EXCEPT ![p] = <<>>] /\ u.blobs = w.blobs
  <2>0. Fields \subseteq DOMAIN w
    BY DEF CountsOK
  <2>1. DOMAIN u = DOMAIN w /\ u.connected = w.connected \ {p}
    BY <2>0 DEF Gone, Fields
  <2>2. u.transfers = [w.transfers EXCEPT ![p] = 0]
    BY <2>0 DEF Gone, Fields
  <2>3. u.queued = [w.queued EXCEPT ![p] = <<>>] /\ u.blobs = w.blobs
    BY <2>0 DEF Gone, Fields
  <2> QED BY <2>1, <2>2, <2>3
<1> HIDE DEF u
<1>2. w.transfers \in [Peers -> Nat]
  BY DEF CountsOK
<1>3. u.transfers \in [Peers -> Nat] /\ \A q \in Peers : u.transfers[q] <= w.transfers[q]
  BY <1>1, <1>2
<1>4. IsFiniteSet(Slots(u)) /\ Cardinality(Slots(u)) <= MaxTransfers
  BY <1>2, <1>3, SlotsLess DEF CountsOK
<1>5. u.queued = [q \in Peers |-> u.queued[q]] /\ \A q \in Peers : IsQueue(u.queued[q])
  BY <1>1, QueueEmpty DEF CountsOK
<1>6. ASSUME NEW q \in Peers
      PROVE  IF q \in u.connected THEN u.transfers[q] = Cardinality(Of(u.blobs, q))
             ELSE u.transfers[q] = 0 /\ u.queued[q] = <<>>
  <2>1. /\ w.queued = [x \in Peers |-> w.queued[x]]
        /\ IF q \in w.connected THEN w.transfers[q] = Cardinality(Of(w.blobs, q))
           ELSE w.transfers[q] = 0 /\ w.queued[q] = <<>>
    BY DEF CountsOK
  <2>2. CASE q = p
    BY <1>1, <1>2, <2>1, <2>2
  <2>3. CASE q # p
    BY <1>1, <1>2, <2>1, <2>3
  <2> QED BY <2>2, <2>3
<1>7. CountsOK(u, o)
  BY <1>1, <1>3, <1>4, <1>5, <1>6 DEF CountsOK
<1> QED BY <1>7 DEF u

(***************************************************************************)
(* So an event in which a connection goes keeps the invariant.             *)
(***************************************************************************)
LEMMA GoneHappens ==
  ASSUME LoadInv, CallInv, NEW w, SameLoads(v, w), NEW p \in Peers, NEW calm, NEW news,
         HappensWith(Gone(w, p), calm, news), link' = [link EXCEPT ![p] = "none"]
  PROVE  LoadInv'
<1>1. CountsOK(w, Opening(link))
  BY CountsSame DEF LoadInv, Counted
<1>2. PICK u : u = Gone(w, p)
  OBVIOUS
<1>3. CountsOK(u, Opening(link))
  BY <1>1, <1>2, GoneCounts
<1>4. ASSUME NEW q \in Opening(link') PROVE q \in Opening(link)
  BY DEF Opening, CallInv
<1>5. CountsOK(u, Opening(link'))
  BY <1>3, <1>4 DEF CountsOK
<1> QED BY <1>2, <1>5, HappeningCounts

(***************************************************************************)
(* Asking again leaves the counts true (retries).                          *)
(***************************************************************************)
LEMMA RetriesCounts ==
  ASSUME NEW w, NEW o, CountsOK(w, o), NEW armed, NEW queries, IsFiniteSet(queries)
  PROVE  Counted(Retries(w, armed, queries), o, w.connected)
<1> DEFINE again == {p \in armed \intersect w.connected :
                       w.started[p] = "none" /\ w.retry[p].armed}
           put == [w EXCEPT !.retry = [p \in Peers |->
                     IF p \in again THEN [w.retry[p] EXCEPT !.armed = FALSE]
                     ELSE w.retry[p]]]
           a == Ask(put, [p \in again |-> w.retry[p].of])
           u == Retries(w, armed, queries)
<1>1. u = Requeries(a, SetToSeq(queries))
  BY DEF Retries
<1>2. SameLoads(w, put) /\ Fields \subseteq DOMAIN put
  BY DEF CountsOK, SameLoads, Fields
<1> HIDE DEF put
<1>3. SameLoads(put, a)
  <2> PICK which : which = [p \in again |-> w.retry[p].of]
    OBVIOUS
  <2> HIDE DEF again
  <2> QED BY <1>2, AskLoads
<1> HIDE DEF a, u
<1>4. Counted(a, o, w.connected)
  BY <1>2, <1>3, CountsSame DEF SameLoads
<1>5. Len(SetToSeq(queries)) \in Nat
  BY SetToSeqLength
<1>6. Counted(u, o, w.connected)
  BY <1>1, <1>4, <1>5, RequeriesCounts DEF Counted
<1> QED BY <1>6 DEF u

(***************************************************************************)
(* A tick: dials, transfers that there is room for now, sources and        *)
(* questions.                                                              *)
(***************************************************************************)
LEMMA TickCounts ==
  ASSUME LoadInv, NEW t \in Timers, Tick(t)
  PROVE  LoadInv'
<1>1. PICK order \in Orders :
        HappensWith(Ticked(t, order).v, {p \in v.connected : NothingWith(v, p)},
                    Ticked(t, order).news)
  BY DEF Tick
<1> DEFINE armed   == {p \in Peers : v.retry[p].armed}
           queries == {x \in Peers \X Groups : v.again[x].armed}
           is(k) == IF t[1] = k THEN {t[2]} ELSE {}
           a == [v EXCEPT !.space = disk]
           u == [a EXCEPT !.dialed  = IF t[1] = "window" THEN 0 ELSE a.dialed,
                     !.resting = a.resting \ is("rest"),
                     !.waiting = a.waiting \ is("wait"),
                     !.due     = a.due \union is("heartbeat"),
                     !.closing = a.closing \ is("close")]
           out == ArmRetry(u, is("round"))
           begun == Arms(out, InOrder(Groups))
           dialed == QueueDials(begun, order)
           calls == PumpQueues(dialed, order)
           pulled == ContentPulls(calls)
           tried == Retries(pulled, armed, queries)
           w == Ticked(t, order).v
           o == Opening(link)
<1>2. w = Closes(tried)
  BY DEF Ticked, RunOut
<1>3. Fields \subseteq DOMAIN v
  BY DEF LoadInv, CountsOK
<1>4. SameLoads(v, u) /\ Fields \subseteq DOMAIN u
  <2>1. SameLoads(v, a) /\ Fields \subseteq DOMAIN a
    BY <1>3 DEF SameLoads, Fields
  <2> HIDE DEF a, is
  <2>2. SameLoads(v, u)
    BY <2>1 DEF SameLoads, Fields
  <2> HIDE DEF u
  <2> QED BY <1>3, <2>2 DEF SameLoads
<1> HIDE DEF u
<1>5. SameLoads(u, out) /\ Fields \subseteq DOMAIN out
  <2> PICK ps : ps = is("round")
    OBVIOUS
  <2> HIDE DEF is
  <2>1. SameLoads(u, out)
    BY <1>4, ArmRetryLoads
  <2> HIDE DEF out
  <2> QED BY <1>4, <2>1 DEF SameLoads
<1> HIDE DEF out
<1>6. IsFiniteSet(Groups) /\ IsFiniteSet(Peers)
  BY SupervisorAssumption DEF SupervisorAssumption
<1>7. Len(InOrder(Groups)) \in Nat
  BY <1>6, InOrderLength
<1>8. SameLoads(out, begun) /\ Fields \subseteq DOMAIN begun
  <2>1. SameLoads(out, begun)
    BY <1>5, <1>7, ArmsSame DEF Same
  <2> HIDE DEF begun
  <2> QED BY <1>5, <2>1 DEF SameLoads
<1> HIDE DEF begun
<1>9. SameLoads(begun, dialed)
  BY <1>8, QueueDialsSame DEF Same
<1> HIDE DEF dialed, o
<1>10. Counted(dialed, o, v.connected)
  <2>1. SameLoads(v, dialed)
    BY <1>4, <1>5, <1>8, <1>9 DEF SameLoads
  <2> QED BY <2>1, CountsSame DEF LoadInv, o
<1>11. Counted(calls, o, v.connected)
  <2>1. Len(order) \in Nat /\ \A i \in 1 .. Len(order) : order[i] \in Peers
    BY <1>6, FS_CardinalityType DEF Orders
  <2> QED BY <1>10, <2>1, PumpQueuesCounts DEF Counted
<1> HIDE DEF calls
<1>12. Counted(pulled, o, v.connected)
  <2>1. pulled = calls \/ pulled = Pulls(calls, InOrder(Groups))
    BY DEF ContentPulls
  <2> QED BY <1>7, <1>11, <2>1, PullsCounts DEF Counted
<1> HIDE DEF pulled
<1>13. Counted(tried, o, v.connected)
  <2>1. IsFiniteSet(Peers \X Groups)
    BY <1>6, FS_Product
  <2>2. IsFiniteSet(queries)
    BY <2>1, FS_Subset
  <2> HIDE DEF armed, queries
  <2> QED BY <1>12, <2>2, RetriesCounts DEF Counted
<1> HIDE DEF tried, w
<1>14. Counted(w, o, v.connected)
  <2>1. SameLoads(tried, w)
    BY <1>2, <1>13, ClosesSame DEF Counted, CountsOK, Same
  <2> QED BY <1>13, <2>1, CountsSame DEF Counted
<1>15. UNCHANGED link
  BY DEF Tick, Elsewhere
<1>16. HappensWith(w, {p \in v.connected : NothingWith(v, p)}, Ticked(t, order).news)
  BY <1>1 DEF w
<1>17. CountsOK(w, Opening(link'))
  BY <1>14, <1>15 DEF Counted, o
<1> QED BY <1>16, <1>17, HappeningCounts

-----------------------------------------------------------------------------
(***************************************************************************)
(* Presence, dials and connections.                                        *)
(***************************************************************************)
LEMMA NetworkCounts ==
  ASSUME LoadInv, CallInv, Network
  PROVE  LoadInv'
<1> USE CallInvFields
<1>1. ASSUME NEW asked, NEW up, PresenceAnswered(asked, up) PROVE LoadInv'
  <2> DEFINE w == [v EXCEPT !.online = (v.online \ asked) \union up,
                     !.pending = v.pending \union (up \intersect Strangers)]
             u == IF up \subseteq v.online THEN w ELSE Reconsider(w, Groups)
  <2>1. HappensWith(u, quiet, {}) /\ UNCHANGED link
    BY <1>1 DEF PresenceAnswered, Happens, Elsewhere
  <2>2. SameLoads(v, w) /\ Fields \subseteq DOMAIN w
    BY DEF SameLoads, Fields
  <2> HIDE DEF w
  <2>3. SameLoads(v, u)
    <3>1. SameLoads(w, Reconsider(w, Groups))
      BY <2>2, ReconsiderSame DEF Same
    <3> QED BY <2>2, <3>1 DEF SameLoads
  <2> HIDE DEF u
  <2> QED BY <2>1, <2>3, StillCounts
<1>2. ASSUME NEW p \in Peers, Connects(p) PROVE LoadInv'
  <2> DEFINE w == [v EXCEPT !.dials = v.dials \ {p}]
  <2>1. /\ HappensWith(w, quiet, {}) /\ link[p] = "none" /\ link' = [link EXCEPT ![p] = "open"]
        /\ NothingWith(v, p)
    BY <1>2 DEF Connects, Happens
  <2>2. SameLoads(v, w)
    BY DEF SameLoads, Fields
  <2>3. p \notin v.connected
    BY <2>1 DEF CallInv
  <2> HIDE DEF w
  <2> QED BY <2>1, <2>2, <2>3, LinkCounts
<1>3. ASSUME NEW p \in Peers, PeerConnects(p) PROVE LoadInv'
  <2>1. /\ HappensWith(v, quiet, {}) /\ link[p] = "none" /\ link' = [link EXCEPT ![p] = "open"]
        /\ NothingWith(v, p)
    BY <1>3 DEF PeerConnects, Happens
  <2>2. SameLoads(v, v)
    BY DEF SameLoads
  <2>3. p \notin v.connected
    BY <2>1 DEF CallInv
  <2> QED BY <2>1, <2>2, <2>3, LinkCounts
<1>4. ASSUME NEW p \in Peers, DialConnects(p) PROVE LoadInv'
  <2>1. CASE link[p] = "none"
    BY <1>2, <1>4, <2>1 DEF DialConnects
  <2>2. CASE link[p] # "none"
    <3> DEFINE w == [v EXCEPT !.dials = v.dials \ {p}]
    <3>1. HappensWith(w, quiet, {}) /\ UNCHANGED link
      BY <1>4, <2>2 DEF DialConnects, Happens, Elsewhere
    <3>2. SameLoads(v, w)
      BY DEF SameLoads, Fields
    <3> HIDE DEF w
    <3> QED BY <3>1, <3>2, StillCounts
  <2> QED BY <2>1, <2>2
<1>5. ASSUME NEW p \in Peers, DialFails(p) PROVE LoadInv'
  <2> DEFINE w == [v EXCEPT !.dials = v.dials \ {p}]
             u == DialFailed(w, p)
  <2>1. HappensWith(u, quiet, {}) /\ UNCHANGED link
    BY <1>5 DEF DialFails, Happens, Elsewhere
  <2>2. SameLoads(v, w) /\ Fields \subseteq DOMAIN w
    BY DEF SameLoads, Fields
  <2> HIDE DEF w
  <2>3. SameLoads(v, u)
    BY <2>2 DEF DialFailed, SameLoads, Fields
  <2> HIDE DEF u
  <2> QED BY <2>1, <2>3, StillCounts
<1>6. ASSUME NEW p \in Peers, DialUnaddressed(p) PROVE LoadInv'
  <2> DEFINE w == [v EXCEPT !.dials = v.dials \ {p}]
  <2>1. HappensWith(w, quiet, {}) /\ UNCHANGED link
    BY <1>6 DEF DialUnaddressed, Happens
  <2>2. SameLoads(v, w)
    BY DEF SameLoads, Fields
  <2> HIDE DEF w
  <2> QED BY <2>1, <2>2, StillCounts
<1>7. ASSUME NEW p \in Peers, BecomesReady(p) PROVE LoadInv'
  <2>1. HappensWith(Verified(v, p), quiet, {}) /\ link[p] = "open" /\ link' = [link EXCEPT ![p] = "ready"]
    BY <1>7 DEF BecomesReady, Happens
  <2>2. PICK o : o = Opening(link)
    OBVIOUS
  <2>3. p \in o /\ Opening(link') = o \ {p}
    BY <2>1, <2>2 DEF Opening, CallInv
  <2>4. CountsOK(Verified(v, p), o \ {p})
    BY <2>2, <2>3, VerifiedCounts DEF LoadInv
  <2> QED BY <2>1, <2>3, <2>4, HappeningCounts
<1>8. ASSUME NEW p \in Peers, ClosesUnready(p) PROVE LoadInv'
  <2>1. HappensWith(v, quiet, {}) /\ link' = [link EXCEPT ![p] = "none"]
    BY <1>8 DEF ClosesUnready, Happens
  <2>2. SameLoads(v, v)
    BY DEF SameLoads
  <2> QED BY <2>1, <2>2, LinkCounts
<1>9. ASSUME NEW p \in Peers, Drops(p) PROVE LoadInv'
  <2>1. HappensWith(Gone(v, p), quiet, {}) /\ link' = [link EXCEPT ![p] = "none"]
    BY <1>9 DEF Drops, Happens
  <2>2. SameLoads(v, v)
    BY DEF SameLoads
  <2> QED BY <2>1, <2>2, GoneHappens
<1>10. QED
  BY <1>1, <1>3, <1>4, <1>5, <1>6, <1>7, <1>8, <1>9 DEF Network, IdleCloses, ConnectionLost

(***************************************************************************)
(* Answers to rounds, refusals, and what a peer asks of us.                *)
(***************************************************************************)
LEMMA RoundsCount ==
  ASSUME LoadInv, CallInv, Rounds
  PROVE  LoadInv'
<1> USE CallInvFields
<1>1. ASSUME NEW p \in Peers, NEW off \in Offering, RoundAnswered(p, off) PROVE LoadInv'
  <2> DEFINE w == [v EXCEPT !.rounds = v.rounds \ {<<p, off>>}]
             s == StartRound(w, With(p, "none"))
             a == [s EXCEPT !.retry[p] = Quiet]
             u == Asked(w, p, off)
             read == IF off = "chain" \/ p \in Strangers THEN {}
                     ELSE {<<p, g>> : g \in {h \in Groups : p \in MembersOf[h]}}
             x == [u EXCEPT !.reads = u.reads \union read]
  <2>1. v' = Dispatch(x) /\ UNCHANGED link
    BY <1>1 DEF RoundAnswered, Elsewhere
  <2>2. \/ u = [a EXCEPT !.pending = a.pending \ {p}]
        \/ u = Ask(a, With(p, "catalogue")) \/ u = a
    BY DEF Asked
  <2>3. SameLoads(v, w) /\ Fields \subseteq DOMAIN w
    BY DEF SameLoads, Fields
  <2> HIDE DEF w
  <2>4. SameLoads(v, s) /\ Fields \subseteq DOMAIN s
    <3>1. SameLoads(w, s)
      BY <2>3, StartRoundLoads
    <3> QED BY <2>3, <3>1 DEF SameLoads
  <2> HIDE DEF s
  <2>5. SameLoads(v, a) /\ Fields \subseteq DOMAIN a
    BY <2>4 DEF SameLoads, Fields
  <2> HIDE DEF a, u, read
  <2>6. SameLoads(v, u)
    <3>1. SameLoads(a, Ask(a, With(p, "catalogue")))
      BY <2>5, AskLoads
    <3> QED BY <2>2, <2>5, <3>1 DEF SameLoads, Fields
  <2>7. SameLoads(v, x)
    BY <2>6 DEF SameLoads, Fields
  <2> HIDE DEF x
  <2>8. Counted(x, Opening(link), v.connected)
    BY <2>7, CountsSame DEF LoadInv
  <2>9. Counted(v', Opening(link), v.connected)
    <3>1. SameLoads(x, v')
      BY <2>1, <2>8, DispatchLoads DEF Counted, CountsOK
    <3> QED BY <2>8, <3>1, CountsSame DEF Counted
  <2> QED BY <2>1, <2>9 DEF LoadInv, Counted, Opening
<1>2. ASSUME NEW w, SameLoads(v, w), NEW p \in Peers, Happens(ArmRetry(w, {p})), UNCHANGED link
      PROVE  LoadInv'
  <2>1. PICK u : u = ArmRetry(w, {p})
    OBVIOUS
  <2>2. SameLoads(w, u)
    BY <1>2, <2>1, ArmRetryLoads DEF SameLoads
  <2>3. SameLoads(v, u)
    BY <1>2, <2>2 DEF SameLoads
  <2> QED BY <1>2, <2>1, <2>3, StillCounts DEF Happens
<1>3. ASSUME NEW p \in Peers, NEW off \in Offering, RoundFails(p, off) PROVE LoadInv'
  <2> DEFINE w == [v EXCEPT !.rounds = v.rounds \ {<<p, off>>}]
  <2>1. Happens(ArmRetry(w, {p})) /\ UNCHANGED link
    BY <1>3 DEF RoundFails, Elsewhere
  <2>2. SameLoads(v, w)
    BY DEF SameLoads, Fields
  <2> HIDE DEF w
  <2> QED BY <1>2, <2>1, <2>2
<1>4. ASSUME NEW p \in Peers, NEW g \in Groups, ReadFails(p, g) PROVE LoadInv'
  <2> DEFINE w == [v EXCEPT !.reads = v.reads \ {<<p, g>>}]
  <2>1. Happens(ArmRetry(w, {p})) /\ UNCHANGED link
    BY <1>4 DEF ReadFails, Elsewhere
  <2>2. SameLoads(v, w)
    BY DEF SameLoads, Fields
  <2> HIDE DEF w
  <2> QED BY <1>2, <2>1, <2>2
<1>5. ASSUME NEW p \in Peers, NEW g \in Groups, GroupSettles(p, g) PROVE LoadInv'
  <2> DEFINE s == Synced(v, p, g)
             w == [s EXCEPT !.reads = v.reads \ {<<p, g>>},
                            !.reconciled = v.reconciled \union {<<p, g>>}]
             u == OpenPull(w, p, g)
  <2>1. HappensWith(u, quiet, {}) /\ UNCHANGED link
    BY <1>5 DEF GroupSettles, Happens, Elsewhere
  <2>2. SameLoads(v, s)
    <3> DEFINE left == v.outstanding \ {<<p, g>>}
               t == [v EXCEPT !.outstanding = left]
               e == StartRound(v, With(p, "none"))
    <3>1. s \in {v, e, t}
      BY DEF Synced
    <3>2. SameLoads(v, t) /\ SameLoads(v, v)
      BY DEF SameLoads, Fields
    <3> HIDE DEF t
    <3>3. SameLoads(v, e)
      BY StartRoundLoads
    <3> HIDE DEF e, s
    <3> QED BY <3>1, <3>2, <3>3
  <2> HIDE DEF s
  <2>3. SameLoads(v, w)
    BY <2>2 DEF SameLoads, Fields
  <2> HIDE DEF w
  <2>4. Counted(w, Opening(link), v.connected)
    BY <2>3, CountsSame DEF LoadInv
  <2>5. Counted(u, Opening(link), v.connected)
    BY <2>4, OpenPullCounts DEF Counted
  <2> HIDE DEF u
  <2> QED BY <2>1, <2>5, HappeningCounts DEF Counted
<1>6. ASSUME NEW p \in Peers, CloseAgreed(p) PROVE LoadInv'
  <2> DEFINE w == [v EXCEPT !.closes = v.closes \ {p}, !.closing = v.closing \ {p}]
  <2>1. \/ HappensWith(w, quiet, {}) /\ UNCHANGED link
        \/ HappensWith(Gone(w, p), quiet, {}) /\ link' = [link EXCEPT ![p] = "none"]
    BY <1>6 DEF CloseAgreed, Happens
  <2>2. SameLoads(v, w)
    BY DEF SameLoads, Fields
  <2> HIDE DEF w
  <2> QED BY <2>1, <2>2, StillCounts, GoneHappens
<1>7. ASSUME NEW p \in Peers, CloseRefused(p) PROVE LoadInv'
  <2> DEFINE w == [v EXCEPT !.closes = v.closes \ {p}]
  <2>1. HappensWith(w, quiet, {}) /\ UNCHANGED link
    BY <1>7 DEF CloseRefused, Happens, Elsewhere
  <2>2. SameLoads(v, w)
    BY DEF SameLoads, Fields
  <2> HIDE DEF w
  <2> QED BY <2>1, <2>2, StillCounts
<1> QED BY <1>1, <1>3, <1>4, <1>5, <1>6, <1>7 DEF Rounds

(***************************************************************************)
(* Lists of what peers hold, and transfers that end. The read of a peer    *)
(* that has gone ends without a slot; one of a connected peer frees its    *)
(* slot.                                                                   *)
(***************************************************************************)
LEMMA ContentCounts ==
  ASSUME LoadInv, CallInv, Content
  PROVE  LoadInv'
<1> USE CallInvFields
<1>1. ASSUME NEW q \in v.queries, HoldingsRefused(q) PROVE LoadInv'
  <2> DEFINE w == [v EXCEPT !.queries = v.queries \ {q}]
             u == Refused(w, q[1], q[2])
  <2>1. HappensWith(u, quiet, {}) /\ UNCHANGED link
    BY <1>1 DEF HoldingsRefused, Happens
  <2>2. SameLoads(v, w)
    BY DEF SameLoads, Fields
  <2> HIDE DEF w
  <2>3. Counted(w, Opening(link), v.connected)
    BY <2>2, CountsSame DEF LoadInv
  <2>4. Counted(u, Opening(link), v.connected)
    BY <2>3, RefusedCounts DEF Counted
  <2> HIDE DEF u
  <2> QED BY <2>1, <2>4, HappeningCounts DEF Counted
<1>2. ASSUME NEW q \in v.queries, NEW held \in SUBSET Paths, HoldingsAnswered(q, held)
      PROVE LoadInv'
  <2> DEFINE w == [v EXCEPT !.queries = v.queries \ {q}]
             u == Held(w, q[1], q[2], q[3], held)
  <2>1. HappensWith(u, quiet, {}) /\ UNCHANGED link /\ q[1] \in v.connected /\ q[1] \in Peers
    BY <1>2 DEF HoldingsAnswered, Happens, Elsewhere, CallInv
  <2>2. SameLoads(v, w)
    BY DEF SameLoads, Fields
  <2> HIDE DEF w
  <2>3. Counted(w, Opening(link), v.connected)
    BY <2>2, CountsSame DEF LoadInv
  <2>4. Counted(u, Opening(link), v.connected)
    BY <2>1, <2>3, HeldCounts DEF Counted
  <2> HIDE DEF u
  <2> QED BY <2>1, <2>4, HappeningCounts DEF Counted
<1>3. ASSUME NEW b \in v.blobs, NEW w, TransferEnds(w, b[1]),
             DOMAIN w = DOMAIN v, w.connected = v.connected, w.transfers = v.transfers,
             w.queued = v.queued, w.blobs = v.blobs \ {b}
      PROVE  LoadInv'
  <2>1. HappensWith(Freed(w, b[1]), quiet, {}) /\ UNCHANGED link
    BY <1>3 DEF TransferEnds, Happens
  <2>2. PICK x : x = v
    OBVIOUS
  <2>3. PICK u : u = Freed(w, b[1])
    OBVIOUS
  <2>4. CountsOK(x, Opening(link))
    BY <2>2 DEF LoadInv
  <2>5. Counted(u, Opening(link), x.connected)
    BY <1>3, <2>2, <2>3, <2>4, FreedCounts
  <2> QED BY <2>1, <2>3, <2>5, HappeningCounts DEF Counted
<1>4. ASSUME NEW b \in v.blobs, BlobDone(b) PROVE LoadInv'
  <2> DEFINE w == [v EXCEPT !.blobs = v.blobs \ {b}, !.missing = v.missing \ {b[2]}]
  <2>1. TransferEnds(w, b[1])
    BY <1>4 DEF BlobDone
  <2>2. /\ DOMAIN w = DOMAIN v /\ w.connected = v.connected /\ w.transfers = v.transfers
        /\ w.queued = v.queued /\ w.blobs = v.blobs \ {b}
    BY DEF Fields
  <2> HIDE DEF w
  <2> QED BY <1>3, <2>1, <2>2
<1>5. ASSUME NEW b \in v.blobs, NEW terminal, BlobFails(b, terminal) PROVE LoadInv'
  <2> DEFINE w == [v EXCEPT !.blobs = v.blobs \ {b},
                     !.denied = IF terminal THEN v.denied \union {<<b[1], b[2]>>}
                                ELSE v.denied]
  <2>1. TransferEnds(w, b[1])
    BY <1>5 DEF BlobFails
  <2>2. /\ DOMAIN w = DOMAIN v /\ w.connected = v.connected /\ w.transfers = v.transfers
        /\ w.queued = v.queued /\ w.blobs = v.blobs \ {b}
    BY DEF Fields
  <2> HIDE DEF w
  <2> QED BY <1>3, <2>1, <2>2
<1> QED BY <1>1, <1>2, <1>4, <1>5 DEF Content

(***************************************************************************)
(* What the commands and the other nodes change behind the supervisor.     *)
(***************************************************************************)
LEMMA UserCounts ==
  ASSUME LoadInv, CallInv, User
  PROVE  LoadInv'
<1> USE CallInvFields
<1>1. ASSUME NEW w, SameLoads(v, w), Happens(w), UNCHANGED link PROVE LoadInv'
  BY <1>1, StillCounts DEF Happens
<1>2. ASSUME NEW g \in Groups, NewsMade(g) PROVE LoadInv'
  <2> DEFINE w == [v EXCEPT !.news = v.news \union {g}]
  <2>1. SameLoads(v, w)
    BY DEF SameLoads, Fields
  <2>2. Happens(w) /\ UNCHANGED link
    BY <1>2 DEF NewsMade, Elsewhere
  <2> HIDE DEF w
  <2> QED BY <1>1, <2>1, <2>2
<1>3. ASSUME NEW f \in Files, FileWanted(f) PROVE LoadInv'
  <2> DEFINE w == [v EXCEPT !.missing = v.missing \union {f},
                        !.wanted = v.wanted \union {f[1]}]
  <2>1. SameLoads(v, w)
    BY DEF SameLoads, Fields
  <2>2. Happens(w) /\ UNCHANGED link
    BY <1>3 DEF FileWanted, Elsewhere
  <2> HIDE DEF w
  <2> QED BY <1>1, <2>1, <2>2
<1>4. ASSUME NEW f \in Files, FileSettled(f) PROVE LoadInv'
  <2> DEFINE w == [v EXCEPT !.missing = v.missing \ {f}]
  <2>1. SameLoads(v, w)
    BY DEF SameLoads, Fields
  <2>2. Happens(w) /\ UNCHANGED link
    BY <1>4 DEF FileSettled
  <2> HIDE DEF w
  <2> QED BY <1>1, <2>1, <2>2
<1>5. ASSUME NEW d \in Spaces, DiskChanges(d) PROVE LoadInv'
  <2>1. SameLoads(v, v)
    BY DEF SameLoads
  <2> QED BY <1>1, <1>5, <2>1 DEF DiskChanges
<1> QED BY <1>2, <1>3, <1>4, <1>5 DEF User

-----------------------------------------------------------------------------
(***************************************************************************)
(* The supervisor begins with no connection and no transfer.               *)
(***************************************************************************)
LEMMA LoadsStart == Init => LoadInv
<1> SUFFICES ASSUME Init PROVE LoadInv
  OBVIOUS
<1>1. /\ Fields \subseteq DOMAIN v /\ v.connected = {} /\ v.blobs = {}
      /\ v.transfers = [p \in Peers |-> 0] /\ v.queued = [p \in Peers |-> <<>>]
  BY DEF Init, Fields
<1>2. Slots(v) = {}
  BY <1>1 DEF Slots
<1>3. MaxTransfers \in Nat
  BY SupervisorAssumption DEF SupervisorAssumption
<1>4. IsFiniteSet({}) /\ Cardinality({}) = 0
  BY FS_EmptySet
<1> QED BY <1>1, <1>2, <1>3, <1>4, QueueEmpty DEF LoadInv, CountsOK, Of

(***************************************************************************)
(* The transfers counted for a connected peer are the reads of bytes that  *)
(* run with it, a peer that has gone counts none, and no more than         *)
(* MaxTransfers are counted at a time, whatever the order in which         *)
(* transfers end, connections break and come back (Supervisor::pump,       *)
(* PeerEvent::BlobDone, BlobFailed, Gone).                                 *)
(***************************************************************************)
THEOREM CountsStayTrue == Spec => []CountsTrue
<1>1. LoadInv /\ CallInv /\ [Next]_vars => LoadInv'
  <2> SUFFICES ASSUME LoadInv, CallInv, [Next]_vars PROVE LoadInv'
    OBVIOUS
  <2>1. CASE UNCHANGED vars
    BY <2>1 DEF LoadInv, CountsOK, Opening, vars
  <2>2. ASSUME NEW t \in Timers, Tick(t) PROVE LoadInv'
    BY <2>2, TickCounts
  <2> QED BY <2>1, <2>2, NetworkCounts, RoundsCount, ContentCounts, UserCounts DEF Next
<1>2. LoadInv /\ CallInv => CountsTrue
  BY DEF LoadInv, CallInv, CountsOK, CountsTrue, RunningTransfers, Of
<1> QED BY <1>1, <1>2, LoadsStart, CallsInvariant, PTL DEF Spec

-----------------------------------------------------------------------------
(***************************************************************************)
(* What the calls for news speak of: beside the rounds, the call list, and *)
(* the dials that were made for it.                                        *)
(***************************************************************************)
NewsFields == {"connected", "started", "retry", "asks", "rounds", "pending",
               "attempts", "dialing", "news"}

SameNews(w, u) ==
  /\ DOMAIN u = DOMAIN w
  /\ \A f \in NewsFields : u[f] = w[f]

(***************************************************************************)
(* Nothing is asked of p, nor waits to be asked again.                     *)
(***************************************************************************)
AtRest(w, p) ==
  /\ w.started[p] = "none" /\ w.retry[p] = Quiet
  /\ \A off \in Offering : <<p, off>> \notin w.rounds /\ <<p, off>> \notin w.asks

(***************************************************************************)
(* Dials are counted to the limit; at the limit one is under way, and a    *)
(* connected peer has none counted.                                        *)
(***************************************************************************)
DialsOK(w) ==
  /\ w.attempts \in [Peers -> Nat]
  /\ \A p \in Peers : /\ w.attempts[p] <= DialAttempts
                      /\ w.attempts[p] = DialAttempts => p \in w.dialing
                      /\ p \in w.connected => w.attempts[p] = 0

(***************************************************************************)
(* Only connected peers are asked.                                         *)
(***************************************************************************)
PutOK(w) == \A x \in w.asks : x[1] \in w.connected

(***************************************************************************)
(* The change from w to u takes nobody off the call list who is at rest or *)
(* without a connection, and leaves those at rest there.                   *)
(***************************************************************************)
Heeds(w, u) ==
  /\ NewsFields \subseteq DOMAIN w /\ DOMAIN u = DOMAIN w
  /\ u.connected = w.connected /\ u.rounds \subseteq w.rounds
  /\ u.news \subseteq w.news \union Groups
  /\ DialsOK(w) => DialsOK(u)
  /\ PutOK(w) => PutOK(u)
  /\ \A p \in Peers : AtRest(w, p) => AtRest(u, p)
  /\ \A p \in Peers : p \in w.pending /\ (p \notin w.connected \/ AtRest(w, p))
                      => p \in u.pending

(***************************************************************************)
(* So does a change of other things,                                       *)
(***************************************************************************)
LEMMA HeedsSame ==
  ASSUME NEW w, NEW u, NewsFields \subseteq DOMAIN w, SameNews(w, u)
  PROVE  Heeds(w, u)
<1>1. /\ u.connected = w.connected /\ u.started = w.started /\ u.retry = w.retry
      /\ u.asks = w.asks /\ u.rounds = w.rounds /\ u.pending = w.pending
      /\ u.attempts = w.attempts /\ u.dialing = w.dialing /\ u.news = w.news
      /\ DOMAIN u = DOMAIN w
  BY DEF SameNews, NewsFields
<1>2. DialsOK(w) => DialsOK(u)
  BY <1>1 DEF DialsOK
<1>3. PutOK(w) => PutOK(u)
  BY <1>1 DEF PutOK
<1>4. \A p : AtRest(w, p) <=> AtRest(u, p)
  BY <1>1 DEF AtRest
<1> QED BY <1>1, <1>2, <1>3, <1>4 DEF Heeds

(***************************************************************************)
(* and so do two of them in a row.                                         *)
(***************************************************************************)
LEMMA HeedsTransitive ==
  ASSUME NEW a, NEW b, NEW c, Heeds(a, b), Heeds(b, c)
  PROVE  Heeds(a, c)
  BY DEF Heeds

(***************************************************************************)
(* A dial that is made is one more (dial), below the limit as long as none *)
(* is under way.                                                           *)
(***************************************************************************)
LEMMA DialHeeds ==
  ASSUME NEW w, NewsFields \subseteq DOMAIN w, NEW p
  PROVE  Heeds(w, Dial(w, p))
<1> DEFINE u == [w EXCEPT !.resting = w.resting \union {p},
                          !.attempts[p] = w.attempts[p] + 1,
                          !.dialing = w.dialing \union {p}, !.dialed = w.dialed + 1,
                          !.dials = w.dials \union {p}]
<1>1. CASE Dial(w, p) = w
  BY <1>1, HeedsSame DEF SameNews
<1>2. CASE Dial(w, p) = u /\ p \notin w.connected \union w.dialing
  <2>1. /\ u.connected = w.connected /\ u.started = w.started /\ u.retry = w.retry
        /\ u.asks = w.asks /\ u.rounds = w.rounds /\ u.pending = w.pending
        /\ u.attempts = [w.attempts EXCEPT ![p] = w.attempts[p] + 1]
        /\ u.dialing = w.dialing \union {p} /\ u.news = w.news /\ DOMAIN u = DOMAIN w
    BY DEF NewsFields
  <2> HIDE DEF u
  <2>2. ASSUME DialsOK(w) PROVE DialsOK(u)
    <3>1. DialAttempts \in Nat
      BY SupervisorAssumption DEF SupervisorAssumption
    <3>2. u.attempts \in [Peers -> Nat]
      <4>1. ASSUME NEW f \in [Peers -> Nat]
            PROVE  [f EXCEPT ![p] = f[p] + 1] \in [Peers -> Nat]
        <5>1. CASE p \in Peers
          <6>1. f[p] + 1 \in Nat
            BY <5>1
          <6> QED BY <6>1
        <5>2. CASE p \notin Peers
          BY <5>2
        <5> QED BY <5>1, <5>2
      <4> QED BY <2>1, <2>2, <4>1 DEF DialsOK
    <3>3. ASSUME NEW q \in Peers
          PROVE  /\ u.attempts[q] <= DialAttempts
                 /\ u.attempts[q] = DialAttempts => q \in u.dialing
                 /\ q \in u.connected => u.attempts[q] = 0
      <4>1. /\ w.attempts[q] \in Nat /\ w.attempts[q] <= DialAttempts
            /\ w.attempts[q] = DialAttempts => q \in w.dialing
            /\ q \in w.connected => w.attempts[q] = 0
        BY <2>2 DEF DialsOK
      <4>2. CASE q = p
        <5>1. u.attempts[q] = w.attempts[q] + 1
          BY <2>1, <2>2, <4>2 DEF DialsOK
        <5> QED BY <1>2, <2>1, <3>1, <4>1, <4>2, <5>1
      <4>3. CASE q # p
        <5>1. u.attempts[q] = w.attempts[q]
          BY <2>1, <2>2, <4>3 DEF DialsOK
        <5> QED BY <2>1, <4>1, <5>1
      <4> QED BY <4>2, <4>3
    <3> QED BY <3>2, <3>3 DEF DialsOK
  <2>3. PutOK(w) => PutOK(u)
    BY <2>1 DEF PutOK
  <2>4. \A q : AtRest(w, q) <=> AtRest(u, q)
    BY <2>1 DEF AtRest
  <2>5. Heeds(w, u)
    BY <2>1, <2>2, <2>3, <2>4 DEF Heeds
  <2> QED BY <1>2, <2>5
<1> QED BY <1>1, <1>2 DEF Dial

(***************************************************************************)
(* So do the dials of a tick (queue_dials).                                *)
(***************************************************************************)
LEMMA QueueDialsHeeds ==
  ASSUME NEW w, NewsFields \subseteq DOMAIN w, NEW order
  PROVE  Heeds(w, QueueDials(w, order))
<1>1. Heeds(w, w)
  BY HeedsSame DEF SameNews
<1>2. \E p : QueueDials(w, order) \in {w, Dial(w, p)}
  BY DEF QueueDials
<1> QED BY <1>1, <1>2, DialHeeds

(***************************************************************************)
(* Spending a peer, and asking it for holdings, touch none of it;          *)
(***************************************************************************)
LEMMA SpendPeerNews ==
  \A w, p, g : NewsFields \subseteq DOMAIN w => SameNews(w, SpendPeer(w, p, g))
  BY DEF SpendPeer, ReleaseSource, LetGo, DropQueued, SameNews, NewsFields

(***************************************************************************)
(* nor does asking what it holds (ask_holdings),                           *)
(***************************************************************************)
LEMMA AskHoldingsNews ==
  \A w, p, g : NewsFields \subseteq DOMAIN w => SameNews(w, AskHoldings(w, p, g))
  BY SpendPeerNews DEF AskHoldings, SameNews, NewsFields

(***************************************************************************)
(* opening a pull (open_pull),                                             *)
(***************************************************************************)
LEMMA OpenPullNews ==
  ASSUME NEW w, NewsFields \subseteq DOMAIN w, NEW p, NEW g
  PROVE  SameNews(w, OpenPull(w, p, g))
<1> DEFINE u == [w EXCEPT !.source[g] = p]
<1>1. SameNews(w, u) /\ NewsFields \subseteq DOMAIN u
  BY DEF SameNews, NewsFields
<1>2. OpenPull(w, p, g) = w \/ OpenPull(w, p, g) = AskHoldings(u, p, g)
  BY DEF OpenPull
<1> HIDE DEF u
<1>3. SameNews(u, AskHoldings(u, p, g))
  BY <1>1, AskHoldingsNews
<1> QED BY <1>1, <1>2, <1>3 DEF SameNews

(***************************************************************************)
(* and turning the page of one group (continue_pull).                      *)
(***************************************************************************)
LEMMA NextPageNews ==
  ASSUME NEW w, NewsFields \subseteq DOMAIN w, NEW p, NEW g
  PROVE  SameNews(w, NextPage(w, p, g))
<1>1. SameNews(w, w)
  BY DEF SameNews
<1>2. NextPage(w, p, g) \in {w, AskHoldings(w, p, g), OpenPull(w, p, g)}
  BY DEF NextPage
<1> QED BY <1>1, <1>2, AskHoldingsNews, OpenPullNews

(***************************************************************************)
(* Nor does turning it of all (continue_pull).                             *)
(***************************************************************************)
LEMMA NextPagesNews ==
  ASSUME NEW w, NEW p, NEW seq, Len(seq) \in Nat
  PROVE  NewsFields \subseteq DOMAIN w => SameNews(w, NextPages(w, p, seq))
<1>1. PICK run : /\ run[0] = w
                 /\ \A i \in 1 .. Len(seq) : run[i] = NextPage(run[i - 1], p, seq[i])
                 /\ NextPages(w, p, seq) = run[Len(seq)]
  BY NextPagesRun
<1> HAVE NewsFields \subseteq DOMAIN w
<1> DEFINE T == {i \in 0 .. Len(seq) : SameNews(w, run[i])}
<1>2. 0 \in T
  BY <1>1 DEF SameNews
<1>3. ASSUME NEW i \in 1 .. Len(seq), i - 1 \in T PROVE i \in T
  <2>1. SameNews(w, run[i - 1]) /\ NewsFields \subseteq DOMAIN run[i - 1]
    BY <1>3 DEF SameNews
  <2>2. SameNews(run[i - 1], run[i])
    BY <1>1, <2>1, NextPageNews
  <2>3. SameNews(w, run[i])
    BY <2>1, <2>2 DEF SameNews
  <2> QED BY <2>3
<1> HIDE DEF T
<1>4. Len(seq) \in T
  <2>1. 0 .. Len(seq) \subseteq T
    BY <1>2, <1>3, UpTo
  <2> QED BY <2>1
<1> QED BY <1>1, <1>4 DEF T

(***************************************************************************)
(* Nor does starting transfers (pump), letting go of what stalls           *)
(* (resolve_stalled), or both (pump_queues, one step of its loop).         *)
(***************************************************************************)
LEMMA PumpNews ==
  ASSUME NEW w, NewsFields \subseteq DOMAIN w, NEW p
  PROVE  /\ SameNews(w, Pump(w, p)) /\ SameNews(w, ResolveStalled(w, p))
         /\ SameNews(w, PumpQueue(w, p))
<1>1. \A x : NewsFields \subseteq DOMAIN x => SameNews(x, Pump(x, p))
  BY DEF Pump, SameNews, NewsFields
<1>2. \A x : NewsFields \subseteq DOMAIN x => SameNews(x, ResolveStalled(x, p))
  BY DEF ResolveStalled, SameNews, NewsFields
<1>3. PICK a : a = Pump(w, p)
  OBVIOUS
<1>4. SameNews(w, a) /\ NewsFields \subseteq DOMAIN a
  BY <1>1, <1>3 DEF SameNews
<1>5. SameNews(a, ResolveStalled(a, p))
  BY <1>2, <1>4
<1>6. SameNews(w, ResolveStalled(a, p)) /\ SameNews(w, w)
  BY <1>4, <1>5 DEF SameNews
<1>7. PumpQueue(w, p) \in {w, ResolveStalled(a, p)}
  BY <1>3 DEF PumpQueue
<1> QED BY <1>2, <1>3, <1>4, <1>6, <1>7

(***************************************************************************)
(* Nor do the queues of a tick (pump_queues).                              *)
(***************************************************************************)
LEMMA PumpQueuesNews ==
  ASSUME NEW w, NewsFields \subseteq DOMAIN w, NEW seq, Len(seq) \in Nat
  PROVE  SameNews(w, PumpQueues(w, seq))
<1>1. PICK run : /\ run[0] = w
                 /\ \A i \in 1 .. Len(seq) : run[i] = PumpQueue(run[i - 1], seq[i])
                 /\ PumpQueues(w, seq) = run[Len(seq)]
  BY PumpQueuesRun
<1> DEFINE T == {i \in 0 .. Len(seq) : SameNews(w, run[i])}
<1>2. 0 \in T
  BY <1>1 DEF SameNews
<1>3. ASSUME NEW i \in 1 .. Len(seq), i - 1 \in T PROVE i \in T
  <2>1. SameNews(w, run[i - 1]) /\ NewsFields \subseteq DOMAIN run[i - 1]
    BY <1>3 DEF SameNews
  <2>2. SameNews(run[i - 1], run[i])
    BY <1>1, <2>1, PumpNews
  <2>3. SameNews(w, run[i])
    BY <2>1, <2>2 DEF SameNews
  <2> QED BY <2>3
<1> HIDE DEF T
<1>4. Len(seq) \in T
  <2>1. 0 .. Len(seq) \subseteq T
    BY <1>2, <1>3, UpTo
  <2> QED BY <2>1
<1> QED BY <1>1, <1>4 DEF T

(***************************************************************************)
(* Nor does asking again what a peer holds (retries),                      *)
(***************************************************************************)
LEMMA RequeryNews ==
  ASSUME NEW w, NewsFields \subseteq DOMAIN w, NEW x
  PROVE  SameNews(w, Requery(w, x))
<1> DEFINE u == [w EXCEPT !.again[x].armed = FALSE]
<1>1. SameNews(w, u) /\ NewsFields \subseteq DOMAIN u
  BY DEF SameNews, NewsFields
<1>2. Requery(w, x) \in {w, AskHoldings(u, x[1], x[2])}
  BY DEF Requery
<1> HIDE DEF u
<1>3. SameNews(u, AskHoldings(u, x[1], x[2])) /\ SameNews(w, w)
  BY <1>1, AskHoldingsNews DEF SameNews
<1> QED BY <1>1, <1>2, <1>3 DEF SameNews

(***************************************************************************)
(* of any number of them.                                                  *)
(***************************************************************************)
LEMMA RequeriesNews ==
  ASSUME NEW w, NewsFields \subseteq DOMAIN w, NEW seq, Len(seq) \in Nat
  PROVE  SameNews(w, Requeries(w, seq))
<1>1. PICK run : /\ run[0] = w
                 /\ \A i \in 1 .. Len(seq) : run[i] = Requery(run[i - 1], seq[i])
                 /\ Requeries(w, seq) = run[Len(seq)]
  BY RequeriesRun
<1> DEFINE T == {i \in 0 .. Len(seq) : SameNews(w, run[i])}
<1>2. 0 \in T
  BY <1>1 DEF SameNews
<1>3. ASSUME NEW i \in 1 .. Len(seq), i - 1 \in T PROVE i \in T
  <2>1. SameNews(w, run[i - 1]) /\ NewsFields \subseteq DOMAIN run[i - 1]
    BY <1>3 DEF SameNews
  <2>2. SameNews(run[i - 1], run[i])
    BY <1>1, <2>1, RequeryNews
  <2>3. SameNews(w, run[i])
    BY <2>1, <2>2 DEF SameNews
  <2> QED BY <2>3
<1> HIDE DEF T
<1>4. Len(seq) \in T
  <2>1. 0 .. Len(seq) \subseteq T
    BY <1>2, <1>3, UpTo
  <2> QED BY <2>1
<1> QED BY <1>1, <1>4 DEF T

(***************************************************************************)
(* What a tick does about one group (arm) only adds to the call list.      *)
(***************************************************************************)
LEMMA ArmHeeds ==
  ASSUME NEW w, NewsFields \subseteq DOMAIN w, NEW g
  PROVE  Heeds(w, Arm(w, g))
<1> DEFINE new == IF g \notin w.wanted THEN w
                  ELSE [Reconsider(w, {g}) EXCEPT
                      !.wanted = w.wanted \ {g},
                      !.asked = [x \in Peers \X Groups |->
                                   IF x[2] = g THEN 0 ELSE w.asked[x]]]
           told == IF g \notin w.news THEN new
                   ELSE [new EXCEPT !.news = new.news \ {g},
                      !.pending = new.pending \union
                        (MembersOf[g] \intersect (w.connected \union w.online))]
           next == NextMember(told, g, {})
           least == {"connected", "started", "retry", "asks", "rounds", "attempts", "dialing"}
           More(u) == /\ DOMAIN u = DOMAIN w /\ w.pending \subseteq u.pending
                      /\ u.news \subseteq w.news
                      /\ \A f \in least : u[f] = w[f]
<1>1. More(new)
  BY DEF Reconsider, NewsFields
<1>2. More(told)
  <2>1. CASE g \notin w.news
    BY <1>1, <2>1
  <2>2. CASE g \in w.news
    <3>1. told = [new EXCEPT !.news = new.news \ {g},
                      !.pending = new.pending \union
                        (MembersOf[g] \intersect (w.connected \union w.online))]
      BY <2>2
    <3> HIDE DEF new, told
    <3> QED BY <1>1, <3>1 DEF NewsFields
  <2> QED BY <2>1, <2>2
<1>3. \/ Arm(w, g) = told
      \/ Arm(w, g) = [told EXCEPT !.due = told.due \ {g}]
      \/ Arm(w, g) = [told EXCEPT !.due = told.due \ {g}, !.turn[g] = next.turn,
                                  !.pending = told.pending \union {next.peer}]
  BY DEF Arm
<1> HIDE DEF new, told, next
<1>4. More(Arm(w, g))
  <2>1. ASSUME NEW due PROVE More([told EXCEPT !.due = due])
    BY <1>2 DEF NewsFields
  <2>2. ASSUME NEW due, NEW turn, NEW pending, told.pending \subseteq pending
        PROVE  More([told EXCEPT !.due = due, !.turn[g] = turn, !.pending = pending])
    BY <1>2, <2>2 DEF NewsFields
  <2> HIDE DEF More
  <2>3. CASE Arm(w, g) = told
    BY <1>2, <2>3
  <2>4. CASE Arm(w, g) = [told EXCEPT !.due = told.due \ {g}]
    <3>1. More([told EXCEPT !.due = told.due \ {g}])
      BY <2>1
    <3> QED BY <2>4, <3>1
  <2>5. CASE Arm(w, g) = [told EXCEPT !.due = told.due \ {g}, !.turn[g] = next.turn,
                                      !.pending = told.pending \union {next.peer}]
    <3>1. told.pending \subseteq told.pending \union {next.peer}
      OBVIOUS
    <3>2. More([told EXCEPT !.due = told.due \ {g}, !.turn[g] = next.turn,
                            !.pending = told.pending \union {next.peer}])
      BY <2>2, <3>1
    <3> QED BY <2>5, <3>2
  <2> QED BY <1>3, <2>3, <2>4, <2>5
<1> HIDE DEF More
<1>5. ASSUME NEW u, More(u) PROVE Heeds(w, u)
  <2>1. /\ u.connected = w.connected /\ u.started = w.started /\ u.retry = w.retry
        /\ u.asks = w.asks /\ u.rounds = w.rounds /\ w.pending \subseteq u.pending
        /\ u.attempts = w.attempts /\ u.dialing = w.dialing /\ u.news \subseteq w.news
        /\ DOMAIN u = DOMAIN w
    BY <1>5 DEF More
  <2>2. DialsOK(w) => DialsOK(u)
    BY <2>1 DEF DialsOK
  <2>3. PutOK(w) => PutOK(u)
    BY <2>1 DEF PutOK
  <2>4. \A p : AtRest(w, p) <=> AtRest(u, p)
    BY <2>1 DEF AtRest
  <2> QED BY <2>1, <2>2, <2>3, <2>4 DEF Heeds
<1> QED BY <1>4, <1>5

(***************************************************************************)
(* So does the tick about all groups.                                      *)
(***************************************************************************)
LEMMA ArmsHeeds ==
  ASSUME NEW w, NewsFields \subseteq DOMAIN w, NEW seq, Len(seq) \in Nat
  PROVE  Heeds(w, Arms(w, seq))
<1>1. PICK run : /\ run[0] = w
                 /\ \A i \in 1 .. Len(seq) : run[i] = Arm(run[i - 1], seq[i])
                 /\ Arms(w, seq) = run[Len(seq)]
  BY ArmsRun
<1> DEFINE T == {i \in 0 .. Len(seq) : Heeds(w, run[i])}
<1>2. 0 \in T
  BY <1>1, HeedsSame DEF SameNews
<1>3. ASSUME NEW i \in 1 .. Len(seq), i - 1 \in T PROVE i \in T
  <2>1. Heeds(w, run[i - 1]) /\ NewsFields \subseteq DOMAIN run[i - 1]
    BY <1>3 DEF Heeds
  <2>2. Heeds(run[i - 1], run[i])
    BY <1>1, <2>1, ArmHeeds
  <2>3. Heeds(w, run[i])
    BY <2>1, <2>2, HeedsTransitive
  <2> QED BY <2>3
<1> HIDE DEF T
<1>4. Len(seq) \in T
  <2>1. 0 .. Len(seq) \subseteq T
    BY <1>2, <1>3, UpTo
  <2> QED BY <2>1
<1> QED BY <1>1, <1>4 DEF T

(***************************************************************************)
(* Looking for a source of one group (content_pulls, one step of its loop) *)
(* may dial;                                                               *)
(***************************************************************************)
LEMMA PullForHeeds ==
  ASSUME NEW w, NewsFields \subseteq DOMAIN w, NEW g
  PROVE  Heeds(w, PullFor(w, g))
<1>1. Heeds(w, w)
  BY HeedsSame DEF SameNews
<1>2. Heeds(w, ExhaustGroup(w, g))
  <2>1. SameNews(w, ExhaustGroup(w, g))
    BY DEF ExhaustGroup, SameNews, NewsFields
  <2> QED BY <2>1, HeedsSame
<1>3. \A p : Heeds(w, OpenPull(w, p, g))
  BY OpenPullNews, HeedsSame
<1>4. ASSUME NEW turn, NEW p
      PROVE  Heeds(w, Dial([w EXCEPT !.turn[g] = turn], p))
  <2> DEFINE u == [w EXCEPT !.turn[g] = turn]
  <2>1. SameNews(w, u) /\ NewsFields \subseteq DOMAIN u
    BY DEF SameNews, NewsFields
  <2> HIDE DEF u
  <2>2. Heeds(w, u) /\ Heeds(u, Dial(u, p))
    BY <2>1, HeedsSame, DialHeeds
  <2>3. Heeds(w, Dial(u, p))
    BY <2>2, HeedsTransitive
  <2> QED BY <2>3 DEF u
<1>5. \E p, turn : PullFor(w, g) \in {w, ExhaustGroup(w, g), OpenPull(w, p, g),
                                      Dial([w EXCEPT !.turn[g] = turn], p)}
  BY DEF PullFor
<1> QED BY <1>1, <1>2, <1>3, <1>4, <1>5

(***************************************************************************)
(* so may looking for one of every group (content_pulls).                  *)
(***************************************************************************)
LEMMA ContentPullsHeeds ==
  ASSUME NEW w, NewsFields \subseteq DOMAIN w
  PROVE  Heeds(w, ContentPulls(w))
<1> DEFINE seq == InOrder(Groups)
<1>1. Len(seq) \in Nat
  BY InOrderLength, SupervisorAssumption DEF SupervisorAssumption
<1> HIDE DEF seq
<1>2. PICK run : /\ run[0] = w
                 /\ \A i \in 1 .. Len(seq) : run[i] = PullFor(run[i - 1], seq[i])
                 /\ Pulls(w, seq) = run[Len(seq)]
  BY <1>1, PullsRun
<1> DEFINE T == {i \in 0 .. Len(seq) : Heeds(w, run[i])}
<1>3. 0 \in T /\ Heeds(w, w)
  BY <1>1, <1>2, HeedsSame DEF SameNews
<1>4. ASSUME NEW i \in 1 .. Len(seq), i - 1 \in T PROVE i \in T
  <2>1. Heeds(w, run[i - 1]) /\ NewsFields \subseteq DOMAIN run[i - 1]
    BY <1>4 DEF Heeds
  <2>2. Heeds(run[i - 1], run[i])
    BY <1>2, <2>1, PullForHeeds
  <2>3. Heeds(w, run[i])
    BY <2>1, <2>2, HeedsTransitive
  <2> QED BY <2>3
<1> HIDE DEF T
<1>5. Len(seq) \in T
  <2>1. 0 .. Len(seq) \subseteq T
    BY <1>1, <1>3, <1>4, UpTo
  <2> QED BY <1>1, <2>1
<1> QED BY <1>2, <1>3, <1>5 DEF T, ContentPulls, seq

-----------------------------------------------------------------------------
(***************************************************************************)
(* A round that did not come off (arm_retry) touches only peers something  *)
(* was asked of: others stay on the call list and are not asked again.     *)
(***************************************************************************)
LEMMA ArmRetryNews ==
  ASSUME NEW w, NewsFields \subseteq DOMAIN w, NEW ps
  PROVE  LET u == ArmRetry(w, ps) IN
         /\ DOMAIN u = DOMAIN w /\ u.connected = w.connected /\ u.asks = w.asks
         /\ u.rounds = w.rounds /\ u.attempts = w.attempts /\ u.dialing = w.dialing /\ u.news = w.news
         /\ \A p \in Peers : w.started[p] = "none"
                             => u.started[p] = "none" /\ u.retry[p] = w.retry[p]
         /\ \A p \in w.pending \ u.pending :
              p \in ps /\ p \in w.connected /\ w.started[p] # "none"
<1> DEFINE ended == {p \in ps : w.started[p] # "none"}
           over  == {p \in ended \intersect w.connected : LeftOf(w, p) = 0}
           which == [p \in ended |-> "none"]
           s == StartRound(w, which)
           retry == [p \in Peers |->
                  IF p \notin ended \intersect w.connected THEN w.retry[p]
                  ELSE IF p \in over THEN Quiet
                  ELSE [of |-> w.started[p], armed |-> TRUE, left |-> LeftOf(w, p) - 1]]
           u == ArmRetry(w, ps)
<1>1. u = [s EXCEPT !.pending = w.pending \ over, !.retry = retry]
  BY DEF ArmRetry
<1>2. /\ DOMAIN s = DOMAIN w /\ s.connected = w.connected /\ s.asks = w.asks
      /\ s.rounds = w.rounds /\ s.attempts = w.attempts /\ s.dialing = w.dialing /\ s.news = w.news
      /\ s.started = [p \in Peers |-> IF p \in DOMAIN which THEN which[p] ELSE w.started[p]]
  <2> HIDE DEF which
  <2> QED BY DEF StartRound, NewsFields
<1>3. \A p \in Peers : w.started[p] = "none" => s.started[p] = "none"
  BY <1>2
<1>4. \A p \in Peers : w.started[p] = "none" => retry[p] = w.retry[p]
  OBVIOUS
<1>5. \A p \in over : p \in ps /\ p \in w.connected /\ w.started[p] # "none"
  OBVIOUS
<1> HIDE DEF over, retry, s, u
<1>6. /\ DOMAIN u = DOMAIN s /\ u.connected = s.connected /\ u.asks = s.asks
      /\ u.rounds = s.rounds /\ u.attempts = s.attempts /\ u.dialing = s.dialing /\ u.news = s.news
      /\ u.started = s.started /\ u.retry = retry /\ u.pending = w.pending \ over
  BY <1>1, <1>2 DEF NewsFields
<1> QED BY <1>2, <1>3, <1>4, <1>5, <1>6 DEF u

(***************************************************************************)
(* So it heeds the list.                                                   *)
(***************************************************************************)
LEMMA ArmRetryHeeds ==
  ASSUME NEW w, NewsFields \subseteq DOMAIN w, NEW ps
  PROVE  Heeds(w, ArmRetry(w, ps))
<1> DEFINE u == ArmRetry(w, ps)
<1>1. /\ DOMAIN u = DOMAIN w /\ u.connected = w.connected /\ u.asks = w.asks
      /\ u.rounds = w.rounds /\ u.attempts = w.attempts /\ u.dialing = w.dialing /\ u.news = w.news
      /\ \A p \in Peers : w.started[p] = "none"
                          => u.started[p] = "none" /\ u.retry[p] = w.retry[p]
      /\ \A p \in w.pending \ u.pending :
           p \in ps /\ p \in w.connected /\ w.started[p] # "none"
  BY ArmRetryNews
<1> HIDE DEF u
<1>2. DialsOK(w) => DialsOK(u)
  BY <1>1 DEF DialsOK
<1>3. PutOK(w) => PutOK(u)
  BY <1>1 DEF PutOK
<1>4. \A p \in Peers : AtRest(w, p) => AtRest(u, p)
  BY <1>1 DEF AtRest
<1>5. \A p \in Peers : p \in w.pending /\ (p \notin w.connected \/ AtRest(w, p)) => p \in u.pending
  BY <1>1 DEF AtRest
<1>6. Heeds(w, u)
  BY <1>1, <1>2, <1>3, <1>4, <1>5 DEF Heeds
<1> QED BY <1>6 DEF u

(***************************************************************************)
(* Asking connected peers that are not at rest heeds it.                   *)
(***************************************************************************)
LEMMA AskHeeds ==
  ASSUME NEW w, NEW x, Heeds(w, x), NEW which,
         \A p \in DOMAIN which : p \in w.connected /\ ~AtRest(w, p)
  PROVE  Heeds(w, Ask(x, which))
<1> DEFINE s == StartRound(x, which)
           u == Ask(x, which)
<1>1. NewsFields \subseteq DOMAIN x
  BY DEF Heeds
<1>2. /\ DOMAIN s = DOMAIN x /\ s.connected = x.connected /\ s.retry = x.retry
      /\ s.rounds = x.rounds /\ s.attempts = x.attempts /\ s.dialing = x.dialing /\ s.news = x.news
      /\ s.pending = x.pending
      /\ s.started = [p \in Peers |-> IF p \in DOMAIN which THEN which[p] ELSE x.started[p]]
  BY <1>1 DEF StartRound, NewsFields
<1>3. u = [s EXCEPT !.asks = x.asks \union {<<p, which[p]>> : p \in DOMAIN which}]
  BY DEF Ask
<1> HIDE DEF s, u
<1>4. /\ DOMAIN u = DOMAIN x /\ u.connected = x.connected /\ u.retry = x.retry
      /\ u.rounds = x.rounds /\ u.attempts = x.attempts /\ u.dialing = x.dialing /\ u.news = x.news
      /\ u.pending = x.pending /\ u.started = s.started
      /\ u.asks = x.asks \union {<<p, which[p]>> : p \in DOMAIN which}
  BY <1>1, <1>2, <1>3 DEF NewsFields
<1>5. DialsOK(x) => DialsOK(u)
  BY <1>4 DEF DialsOK
<1>6. PutOK(w) => PutOK(u)
  BY <1>4 DEF PutOK, Heeds
<1>7. ASSUME NEW p \in Peers, AtRest(w, p) PROVE AtRest(u, p)
  <2>1. p \notin DOMAIN which /\ AtRest(x, p)
    BY <1>7 DEF Heeds
  <2>2. u.started[p] = x.started[p]
    BY <1>2, <1>4, <2>1
  <2>3. ASSUME NEW off \in Offering PROVE <<p, off>> \notin u.asks
    BY <1>4, <2>1 DEF AtRest
  <2> QED BY <1>4, <2>1, <2>2, <2>3 DEF AtRest
<1>8. Heeds(w, u)
  BY <1>4, <1>5, <1>6, <1>7 DEF Heeds
<1> QED BY <1>8 DEF u

(***************************************************************************)
(* What is armed is asked again (retries): never of a peer at rest.        *)
(***************************************************************************)
LEMMA RetriesHeeds ==
  ASSUME NEW w, NewsFields \subseteq DOMAIN w,
         NEW armed, armed \subseteq Peers, NEW queries, IsFiniteSet(queries)
  PROVE  Heeds(w, Retries(w, armed, queries))
<1> DEFINE again == {p \in armed \intersect w.connected :
                       w.started[p] = "none" /\ w.retry[p].armed}
           put == [w EXCEPT !.retry = [p \in Peers |->
                     IF p \in again THEN [w.retry[p] EXCEPT !.armed = FALSE]
                     ELSE w.retry[p]]]
           which == [p \in again |-> w.retry[p].of]
           a == Ask(put, which)
           u == Retries(w, armed, queries)
<1>1. u = Requeries(a, SetToSeq(queries))
  BY DEF Retries
<1>2. DOMAIN which = again
  OBVIOUS
<1>3. \A p \in again : p \in Peers /\ p \in w.connected /\ w.retry[p].armed
  OBVIOUS
<1>4. /\ DOMAIN put = DOMAIN w /\ put.connected = w.connected /\ put.started = w.started
      /\ put.rounds = w.rounds /\ put.attempts = w.attempts /\ put.dialing = w.dialing /\ put.news = w.news
      /\ put.pending = w.pending /\ put.asks = w.asks
      /\ put.retry = [p \in Peers |-> IF p \in again THEN [w.retry[p] EXCEPT !.armed = FALSE]
                                      ELSE w.retry[p]]
  <2> HIDE DEF again
  <2> QED BY DEF NewsFields
<1> HIDE DEF put, which, again, u
<1>5. \A p \in again : ~AtRest(w, p)
  BY <1>3, NewRetry DEF AtRest
<1>6. \A p \in Peers : AtRest(w, p) => AtRest(put, p)
  BY <1>4, <1>5 DEF AtRest
<1>7. Heeds(w, put)
  <2>1. DialsOK(w) => DialsOK(put)
    BY <1>4 DEF DialsOK
  <2>2. PutOK(w) => PutOK(put)
    BY <1>4 DEF PutOK
  <2> QED BY <1>4, <1>5, <1>6, <2>1, <2>2 DEF Heeds, AtRest
<1>8. Heeds(w, a)
  <2>1. \A p \in DOMAIN which : p \in w.connected /\ ~AtRest(w, p)
    BY <1>2, <1>3, <1>5
  <2> QED BY <1>7, <2>1, AskHeeds
<1> HIDE DEF a
<1>9. Heeds(a, u)
  <2>1. Len(SetToSeq(queries)) \in Nat
    BY SetToSeqLength
  <2>2. NewsFields \subseteq DOMAIN a
    BY <1>8 DEF Heeds
  <2> QED BY <1>1, <2>1, <2>2, RequeriesNews, HeedsSame
<1>10. Heeds(w, u)
  BY <1>8, <1>9, HeedsTransitive
<1> QED BY <1>10 DEF u

(***************************************************************************)
(* An event that ends there (NodeLink::dispatch) puts what it asked, and a *)
(* question that waits for the chain counts as failed: nobody else leaves  *)
(* the list, and nobody at rest is asked.                                  *)
(***************************************************************************)
LEMMA DispatchNews ==
  ASSUME NEW w, NewsFields \subseteq DOMAIN w
  PROVE  LET u == Dispatch(w) IN
         /\ DOMAIN u = DOMAIN w /\ u.connected = w.connected /\ u.news = w.news
         /\ u.rounds \subseteq w.rounds \union w.asks
         /\ DialsOK(w) => DialsOK(u)
         /\ \A p \in Peers : AtRest(w, p) => AtRest(u, p)
         /\ \A p \in w.pending \ u.pending :
              \E x \in w.asks : x[1] = p /\ ChainBusy(w, p)
<1> DEFINE late == {a \in w.asks : ChainBusy(w, a[1])}
           idle == {p \in w.proposals :
                      Drained(w, p) /\ ~FilesBusy(w, p) /\ ~ChainBusy(w, p)}
           sent == [w EXCEPT !.rounds = w.rounds \union (w.asks \ late),
                        !.asks = {}, !.closes = w.closes \union idle,
                        !.proposals = {}]
           ps == {a[1] : a \in late}
           u == Dispatch(w)
<1>1. u = ArmRetry(sent, ps)
  BY DEF Dispatch
<1>2. \A p \in ps : \E x \in w.asks : x[1] = p /\ ChainBusy(w, p)
  OBVIOUS
<1>3. /\ DOMAIN sent = DOMAIN w /\ sent.connected = w.connected
      /\ sent.started = w.started /\ sent.retry = w.retry /\ sent.asks = {}
      /\ sent.rounds = w.rounds \union (w.asks \ late)
      /\ sent.pending = w.pending /\ sent.attempts = w.attempts /\ sent.dialing = w.dialing
      /\ sent.news = w.news
  <2> HIDE DEF late, idle
  <2> QED BY DEF NewsFields
<1>4. sent.rounds \subseteq w.rounds \union w.asks
  BY <1>3
<1> HIDE DEF sent, ps, u, late
<1>5. /\ DOMAIN u = DOMAIN sent /\ u.connected = sent.connected /\ u.asks = sent.asks
      /\ u.rounds = sent.rounds /\ u.attempts = sent.attempts /\ u.dialing = sent.dialing /\ u.news = sent.news
      /\ \A p \in Peers : sent.started[p] = "none"
                          => u.started[p] = "none" /\ u.retry[p] = sent.retry[p]
      /\ \A p \in sent.pending \ u.pending :
           p \in ps /\ p \in sent.connected /\ sent.started[p] # "none"
  <2>1. NewsFields \subseteq DOMAIN sent
    BY <1>3
  <2> QED BY <1>1, <2>1, ArmRetryNews
<1>6. DialsOK(w) => DialsOK(u)
  BY <1>3, <1>5 DEF DialsOK
<1>7. \A p \in Peers : AtRest(w, p) => AtRest(u, p)
  BY <1>3, <1>4, <1>5 DEF AtRest
<1>8. \A p \in w.pending \ u.pending : \E x \in w.asks : x[1] = p /\ ChainBusy(w, p)
  BY <1>2, <1>3, <1>5
<1> QED BY <1>3, <1>4, <1>5, <1>6, <1>7, <1>8 DEF u

-----------------------------------------------------------------------------
(***************************************************************************)
(* The invariant of the calls for news, beside CallInv: a peer whose       *)
(* connection is being made is asked nothing, and a connected peer listed  *)
(* for news while nothing was under way is still at rest. Such a peer has  *)
(* no round that could fail, so it stays on the list until it is called.   *)
(***************************************************************************)
NewsInv ==
  /\ NewsFields \subseteq DOMAIN v /\ DialsOK(v)
  /\ \A p \in Peers : link[p] = "open" => \A off \in Offering : <<p, off>> \notin v.rounds
  /\ owed \subseteq Peers
  /\ \A p \in owed : p \in v.connected => AtRest(v, p)
  /\ v.news \subseteq Groups

(***************************************************************************)
(* What NewsKept says of a step.                                           *)
(***************************************************************************)
NewsStep ==
  \A p \in owed : (p \in v.pending /\ p \notin v'.pending) =>
        p \notin v.connected /\ v.attempts[p] = DialAttempts

(***************************************************************************)
(* Asking nothing leaves the peers without a connection, and those at      *)
(* rest, alone.                                                            *)
(***************************************************************************)
Listed(w, news) ==
  /\ NewsFields \subseteq DOMAIN w /\ DialsOK(w) /\ PutOK(w)
  /\ w.rounds \subseteq v.rounds /\ w.news \subseteq Groups
  /\ \A p \in owed \union news : p \in w.connected /\ <<p, "chain">> \notin w.asks
                                 => AtRest(w, p)
  /\ \A p \in owed : (p \in v.pending /\ p \notin w.pending) =>
        p \notin v.connected /\ v.attempts[p] = DialAttempts
  /\ \A x \in w.asks : x[1] \in owed => ~ChainBusy(w, x[1])

(***************************************************************************)
(* The end of an event whose changes keep to that (NodeLink::dispatch).    *)
(***************************************************************************)
LEMMA ListedOK ==
  ASSUME CallInv, CallInv', NewsInv, NEW w, NEW news, Listed(w, news), news \subseteq Peers,
         v' = Dispatch(w),
         owed' \subseteq {p \in owed \union news : <<p, "chain">> \notin w.asks},
         \A p \in Peers : link'[p] = "open"
                          => link[p] = "open" \/ \A off \in Offering : <<p, off>> \notin v.rounds
  PROVE  NewsInv' /\ NewsStep
<1>1. /\ DOMAIN v' = DOMAIN w /\ v'.connected = w.connected /\ v'.news = w.news
      /\ v'.rounds \subseteq w.rounds \union w.asks
      /\ DialsOK(v')
      /\ \A p \in Peers : AtRest(w, p) => AtRest(v', p)
      /\ \A p \in w.pending \ v'.pending :
              \E x \in w.asks : x[1] = p /\ ChainBusy(w, p)
  BY DispatchNews DEF Listed
<1>2. NewsFields \subseteq DOMAIN v'
  BY <1>1 DEF Listed
<1>3. ASSUME NEW p \in Peers, link'[p] = "open", NEW off \in Offering
      PROVE  <<p, off>> \notin v'.rounds
  <2>1. p \notin w.connected
    BY <1>1, <1>3 DEF CallInv
  <2>2. <<p, off>> \notin v.rounds
    BY <1>3 DEF NewsInv
  <2>3. <<p, off>> \notin w.asks
    BY <2>1 DEF Listed, PutOK
  <2> QED BY <1>1, <2>2, <2>3 DEF Listed
<1>4. ASSUME NEW p \in owed', p \in v'.connected PROVE AtRest(v', p)
  <2>1. p \in owed \union news /\ <<p, "chain">> \notin w.asks /\ p \in Peers
    BY DEF NewsInv
  <2> QED BY <1>1, <1>4, <2>1 DEF Listed
<1>5. owed' \subseteq Peers /\ v'.news \subseteq Groups
  BY <1>1 DEF NewsInv, Listed
<1>6. NewsInv'
  BY <1>1, <1>2, <1>3, <1>4, <1>5 DEF NewsInv
<1>7. NewsStep
  <2> SUFFICES ASSUME NEW p \in owed, p \in v.pending, p \notin v'.pending
               PROVE  p \notin v.connected /\ v.attempts[p] = DialAttempts
    BY DEF NewsStep
  <2>1. p \notin w.pending
    BY <1>1 DEF Listed
  <2> QED BY <2>1 DEF Listed
<1> QED BY <1>6, <1>7

(***************************************************************************)
(* A change that heeds the list keeps to it.                               *)
(***************************************************************************)
LEMMA HeedsListed ==
  ASSUME CallInv, NewsInv, NEW w, Heeds(v, w),
         NEW news, news \subseteq Peers, \A p \in news : AtRest(v, p)
  PROVE  Listed(w, news)
<1>1. v.asks = {} /\ PutOK(v)
  BY DEF CallInv, PutOK
<1>2. /\ NewsFields \subseteq DOMAIN w /\ DialsOK(w) /\ PutOK(w) /\ w.rounds \subseteq v.rounds
      /\ w.connected = v.connected /\ w.news \subseteq Groups
  BY <1>1 DEF Heeds, NewsInv
<1>3. ASSUME NEW p \in owed \union news, p \in w.connected PROVE AtRest(w, p)
  <2>1. p \in Peers /\ AtRest(v, p)
    BY <1>2, <1>3 DEF NewsInv
  <2> QED BY <2>1 DEF Heeds
<1>4. ASSUME NEW p \in owed, p \in v.pending PROVE p \in w.pending
  <2>1. p \in Peers /\ (p \notin v.connected \/ AtRest(v, p))
    BY DEF NewsInv
  <2> QED BY <1>4, <2>1 DEF Heeds
<1>5. ASSUME NEW x \in w.asks, x[1] \in owed PROVE ~ChainBusy(w, x[1])
  <2>1. AtRest(w, x[1])
    BY <1>2, <1>3, <1>5 DEF PutOK
  <2> QED BY <2>1 DEF AtRest, ChainBusy, Offering
<1> QED BY <1>2, <1>3, <1>4, <1>5 DEF Listed

(***************************************************************************)
(* So an event of such a change keeps the invariant, and takes nobody off  *)
(* the list.                                                               *)
(***************************************************************************)
LEMMA HeedsOK ==
  ASSUME CallInv, CallInv', NewsInv, NEW w, Heeds(v, w), Happens(w),
         \A p \in Peers : link'[p] = "open" => link[p] = "open" \/ NothingWith(v, p)
  PROVE  NewsInv' /\ NewsStep
<1>1. /\ v' = Dispatch(w)
      /\ owed' = {p \in owed \union {} : <<p, "chain">> \notin w.asks}
  BY DEF Happens, HappensWith
<1>2. Listed(w, {})
  BY HeedsListed
<1>3. \A p \in Peers : link'[p] = "open"
                       => link[p] = "open" \/ \A off \in Offering : <<p, off>> \notin v.rounds
  BY DEF NothingWith
<1> QED BY <1>1, <1>2, <1>3, ListedOK

-----------------------------------------------------------------------------
(***************************************************************************)
(* A tick: a timer, the call list, the dials and the rounds asked again.   *)
(***************************************************************************)
LEMMA TickHeeds ==
  ASSUME CallInv, CallInv', NewsInv, NEW t \in Timers, Tick(t)
  PROVE  NewsInv' /\ NewsStep
<1>1. PICK order \in Orders :
        HappensWith(Ticked(t, order).v, {p \in v.connected : NothingWith(v, p)},
                    Ticked(t, order).news)
  BY DEF Tick
<1> DEFINE armed   == {p \in Peers : v.retry[p].armed}
           queries == {x \in Peers \X Groups : v.again[x].armed}
           is(k) == IF t[1] = k THEN {t[2]} ELSE {}
           a == [v EXCEPT !.space = disk]
           u == [a EXCEPT !.dialed  = IF t[1] = "window" THEN 0 ELSE a.dialed,
                     !.resting = a.resting \ is("rest"),
                     !.waiting = a.waiting \ is("wait"),
                     !.due     = a.due \union is("heartbeat"),
                     !.closing = a.closing \ is("close")]
           out == ArmRetry(u, is("round"))
           begun == Arms(out, InOrder(Groups))
           dialed == QueueDials(begun, order)
           calls == PumpQueues(dialed, order)
           pulled == ContentPulls(calls)
           tried == Retries(pulled, armed, queries)
           w == Ticked(t, order).v
           news == Ticked(t, order).news
<1>2. w = Closes(tried)
  BY DEF Ticked, RunOut
<1>3. news = {p \in begun.pending : BetweenRounds(p) /\ \E g \in v.news : p \in MembersOf[g]}
  BY DEF Ticked, RunOut
<1> HIDE DEF w, news
<1>4. SameNews(v, u) /\ NewsFields \subseteq DOMAIN u
  <2>1. SameNews(v, a) /\ NewsFields \subseteq DOMAIN a
    BY DEF NewsInv, SameNews, NewsFields
  <2> HIDE DEF a, is
  <2> QED BY <2>1 DEF SameNews, NewsFields
<1> HIDE DEF u
<1>5. Heeds(v, out) /\ NewsFields \subseteq DOMAIN out
  <2> PICK ps : ps = is("round")
    OBVIOUS
  <2> HIDE DEF is
  <2>1. Heeds(v, u) /\ Heeds(u, out)
    BY <1>4, HeedsSame, ArmRetryHeeds DEF NewsInv
  <2>2. Heeds(v, out)
    BY <2>1, HeedsTransitive
  <2> QED BY <2>2 DEF Heeds
<1> HIDE DEF out
<1>6. IsFiniteSet(Groups) /\ IsFiniteSet(Peers) /\ Len(InOrder(Groups)) \in Nat
      /\ Len(order) \in Nat /\ IsFiniteSet(Peers \X Groups)
  <2>1. IsFiniteSet(Groups) /\ IsFiniteSet(Peers)
    BY SupervisorAssumption DEF SupervisorAssumption
  <2> QED BY <2>1, InOrderLength, FS_CardinalityType, FS_Product DEF Orders
<1>7. Heeds(v, begun) /\ NewsFields \subseteq DOMAIN begun
  <2>1. Heeds(out, begun)
    BY <1>5, <1>6, ArmsHeeds
  <2>2. Heeds(v, begun)
    BY <1>5, <2>1, HeedsTransitive
  <2> QED BY <2>2 DEF Heeds
<1> HIDE DEF begun
<1>8. Heeds(v, dialed) /\ NewsFields \subseteq DOMAIN dialed
  <2>1. Heeds(begun, dialed)
    BY <1>7, QueueDialsHeeds
  <2>2. Heeds(v, dialed)
    BY <1>7, <2>1, HeedsTransitive
  <2> QED BY <2>2 DEF Heeds
<1> HIDE DEF dialed
<1>9. Heeds(v, calls) /\ NewsFields \subseteq DOMAIN calls
  <2>1. Heeds(dialed, calls)
    BY <1>6, <1>8, PumpQueuesNews, HeedsSame
  <2>2. Heeds(v, calls)
    BY <1>8, <2>1, HeedsTransitive
  <2> QED BY <2>2 DEF Heeds
<1> HIDE DEF calls
<1>10. Heeds(v, pulled) /\ NewsFields \subseteq DOMAIN pulled
  <2>1. Heeds(calls, pulled)
    BY <1>9, ContentPullsHeeds
  <2>2. Heeds(v, pulled)
    BY <1>9, <2>1, HeedsTransitive
  <2> QED BY <2>2 DEF Heeds
<1> HIDE DEF pulled
<1>11. Heeds(v, tried) /\ NewsFields \subseteq DOMAIN tried
  <2>1. IsFiniteSet(queries)
    BY <1>6, FS_Subset
  <2>2. armed \subseteq Peers
    OBVIOUS
  <2>3. Heeds(pulled, tried)
    <3> HIDE DEF armed, queries
    <3> QED BY <1>10, <2>1, <2>2, RetriesHeeds
  <2> HIDE DEF tried
  <2>4. Heeds(v, tried)
    BY <1>10, <2>3, HeedsTransitive
  <2> QED BY <2>4 DEF Heeds
<1> HIDE DEF tried
<1>12. Heeds(v, w)
  <2>1. SameNews(tried, Closes(tried))
    BY <1>11 DEF Closes, SameNews, NewsFields
  <2>2. Heeds(tried, w)
    BY <1>2, <1>11, <2>1, HeedsSame
  <2> QED BY <1>11, <2>2, HeedsTransitive
<1>13. /\ news \subseteq Peers
       /\ \A p \in news : AtRest(v, p)
  <2>1. ASSUME NEW p \in news PROVE p \in Peers /\ AtRest(v, p)
    <3>1. BetweenRounds(p) /\ \E g \in v.news : p \in MembersOf[g]
      BY <1>3
    <3>2. p \in Peers
      BY <3>1, SupervisorAssumption DEF NewsInv, SupervisorAssumption
    <3> QED BY <3>1, <3>2 DEF BetweenRounds, AtRest, CallInv
  <2> QED BY <2>1
<1>14. Listed(w, news)
  BY <1>12, <1>13, HeedsListed
<1>15. /\ v' = Dispatch(w)
       /\ owed' = {p \in owed \union news : <<p, "chain">> \notin w.asks}
  BY <1>1 DEF HappensWith, w, news
<1>16. UNCHANGED link
  BY DEF Tick, Elsewhere
<1> QED BY <1>13, <1>14, <1>15, <1>16, ListedOK

(***************************************************************************)
(* A connection that goes, after a change of other things, puts its peer   *)
(* back on the list if it was to be asked again (PeerEvent::Gone).         *)
(***************************************************************************)
LEMMA GoneListed ==
  ASSUME CallInv, CallInv', NewsInv, NEW w, SameNews(v, w), NEW p \in Peers,
         Happens(Gone(w, p)), link' = [link EXCEPT ![p] = "none"]
  PROVE  NewsInv' /\ NewsStep
<1> DEFINE u == Gone(w, p)
<1>1. /\ w.connected = v.connected /\ w.started = v.started /\ w.retry = v.retry
      /\ w.asks = v.asks /\ w.rounds = v.rounds /\ w.pending = v.pending
      /\ w.attempts = v.attempts /\ w.dialing = v.dialing /\ w.news = v.news
      /\ DOMAIN w = DOMAIN v /\ NewsFields \subseteq DOMAIN w
  BY DEF SameNews, NewsFields, NewsInv
<1>2. /\ NewsFields \subseteq DOMAIN u /\ u.connected = w.connected \ {p}
      /\ u.started = [w.started EXCEPT ![p] = "none"] /\ u.retry = [w.retry EXCEPT ![p] = Quiet]
      /\ u.asks = w.asks /\ u.rounds = w.rounds /\ w.pending \subseteq u.pending
      /\ u.attempts = [w.attempts EXCEPT ![p] = 0] /\ u.dialing = w.dialing \ {p}
      /\ u.news = w.news
  <2>1. /\ DOMAIN u = DOMAIN w /\ u.connected = w.connected \ {p}
        /\ u.started = [w.started EXCEPT ![p] = "none"]
        /\ u.retry = [w.retry EXCEPT ![p] = Quiet]
    BY <1>1, ZenonT(60) DEF Gone, NewsFields
  <2>2. /\ u.asks = w.asks /\ u.rounds = w.rounds /\ u.news = w.news
        /\ u.attempts = [w.attempts EXCEPT ![p] = 0]
    BY <1>1 DEF Gone, NewsFields
  <2>3. u.dialing = w.dialing \ {p}
    BY <1>1 DEF Gone, NewsFields
  <2>4. w.pending \subseteq u.pending
    BY <1>1 DEF Gone, NewsFields
  <2> QED BY <1>1, <2>1, <2>2, <2>3, <2>4
<1> HIDE DEF u
<1>3. DialsOK(u)
  <2>1. DialsOK(v) /\ DialAttempts \in Nat \ {0}
    BY SupervisorAssumption DEF NewsInv, SupervisorAssumption
  <2>2. u.attempts \in [Peers -> Nat]
    BY <1>1, <1>2, <2>1 DEF DialsOK
  <2>3. ASSUME NEW q \in Peers
        PROVE  /\ u.attempts[q] <= DialAttempts
               /\ u.attempts[q] = DialAttempts => q \in u.dialing
               /\ q \in u.connected => u.attempts[q] = 0
    <3>1. u.attempts[q] = IF q = p THEN 0 ELSE v.attempts[q]
      BY <1>1, <1>2, <2>1 DEF DialsOK
    <3> QED BY <1>1, <1>2, <2>1, <3>1 DEF DialsOK
  <2> QED BY <2>2, <2>3 DEF DialsOK
<1>4. u.asks = {} /\ PutOK(u)
  BY <1>1, <1>2 DEF CallInv, PutOK
<1>5. ASSUME NEW q \in owed, q \in u.connected PROVE AtRest(u, q)
  <2>1. AtRest(v, q) /\ q # p
    BY <1>1, <1>2, <1>5 DEF NewsInv
  <2> QED BY <1>1, <1>2, <2>1 DEF AtRest
<1>6. Listed(u, {})
  BY <1>1, <1>2, <1>3, <1>4, <1>5 DEF Listed, NewsInv
<1>7. /\ v' = Dispatch(u)
      /\ owed' = {q \in owed \union {} : <<q, "chain">> \notin u.asks}
  BY DEF Happens, HappensWith, u
<1>8. \A q \in Peers : link'[q] = "open" => link[q] = "open"
  BY DEF CallInv
<1> QED BY <1>6, <1>7, <1>8, ListedOK

(***************************************************************************)
(* A dial that fails (DialFailed) takes its peer off the list once as many *)
(* have as may.                                                            *)
(***************************************************************************)
LEMMA DialFailedListed ==
  ASSUME CallInv, CallInv', NewsInv, NEW p \in Peers, DialFails(p)
  PROVE  NewsInv' /\ NewsStep
<1> DEFINE w == [v EXCEPT !.dials = v.dials \ {p}]
           u == DialFailed(w, p)
<1>1. Happens(u) /\ UNCHANGED link
  BY DEF DialFails, Elsewhere
<1>2. /\ w.connected = v.connected /\ w.started = v.started /\ w.retry = v.retry
      /\ w.asks = v.asks /\ w.rounds = v.rounds /\ w.pending = v.pending
      /\ w.attempts = v.attempts /\ w.dialing = v.dialing /\ w.news = v.news
      /\ DOMAIN w = DOMAIN v /\ NewsFields \subseteq DOMAIN w
  BY DEF NewsFields, NewsInv
<1> HIDE DEF w
<1> DEFINE over == ~(w.attempts[p] < DialAttempts)
<1>3. /\ NewsFields \subseteq DOMAIN u /\ u.connected = w.connected
      /\ u.started = w.started /\ u.retry = w.retry
      /\ u.asks = w.asks /\ u.rounds = w.rounds /\ u.news = w.news
      /\ u.dialing = w.dialing \ {p}
      /\ u.pending = IF over THEN w.pending \ {p} ELSE w.pending
      /\ u.attempts = IF over THEN [w.attempts EXCEPT ![p] = 0] ELSE w.attempts
  BY <1>2 DEF DialFailed, NewsFields
<1> HIDE DEF u
<1>4. DialsOK(v) /\ DialAttempts \in Nat \ {0}
  BY SupervisorAssumption DEF NewsInv, SupervisorAssumption
<1>5. DialsOK(u)
  <2>2. u.attempts \in [Peers -> Nat]
    BY <1>2, <1>3, <1>4 DEF DialsOK
  <2>3. ASSUME NEW q \in Peers
        PROVE  /\ u.attempts[q] <= DialAttempts
               /\ u.attempts[q] = DialAttempts => q \in u.dialing
               /\ q \in u.connected => u.attempts[q] = 0
    <3>1. u.attempts[q] = IF q = p /\ over THEN 0 ELSE v.attempts[q]
      BY <1>2, <1>3, <1>4 DEF DialsOK
    <3> QED BY <1>2, <1>3, <1>4, <3>1 DEF DialsOK
  <2> QED BY <2>2, <2>3 DEF DialsOK
<1>6. u.asks = {} /\ PutOK(u)
  BY <1>2, <1>3 DEF CallInv, PutOK
<1>7. ASSUME NEW q \in owed, q \in u.connected PROVE AtRest(u, q)
  BY <1>2, <1>3, <1>7 DEF AtRest, NewsInv
<1>8. ASSUME NEW q \in owed, q \in v.pending, q \notin u.pending
      PROVE  q \notin v.connected /\ v.attempts[q] = DialAttempts
  <2>1. q = p /\ over
    BY <1>2, <1>3, <1>8
  <2> QED BY <1>2, <1>4, <2>1 DEF DialsOK
<1>9. Listed(u, {})
  BY <1>2, <1>3, <1>5, <1>6, <1>7, <1>8 DEF Listed, NewsInv
<1>10. /\ v' = Dispatch(u)
       /\ owed' = {q \in owed \union {} : <<q, "chain">> \notin u.asks}
  BY <1>1 DEF Happens, HappensWith
<1> QED BY <1>1, <1>9, <1>10, ListedOK

(***************************************************************************)
(* A peer that connects is asked at once (PeerEvent::Verified), and the    *)
(* link can put the question: it has none of the peer under way.           *)
(***************************************************************************)
LEMMA VerifiedListed ==
  ASSUME CallInv, CallInv', NewsInv, NEW p \in Peers, BecomesReady(p)
  PROVE  NewsInv' /\ NewsStep
<1> DEFINE u == Verified(v, p)
           which == With(p, "chain")
<1>1. Happens(u) /\ link[p] = "open" /\ link' = [link EXCEPT ![p] = "ready"]
  BY DEF BecomesReady
<1>2. /\ NewsFields \subseteq DOMAIN u /\ u.connected = v.connected \union {p}
      /\ u.started = [q \in Peers |-> IF q \in DOMAIN which THEN which[q] ELSE v.started[q]]
      /\ u.retry = v.retry /\ u.rounds = v.rounds /\ u.news = v.news
      /\ u.asks = v.asks \union {<<q, which[q]>> : q \in DOMAIN which}
      /\ u.dialing = v.dialing \ {p} /\ u.pending = v.pending
      /\ u.attempts = [v.attempts EXCEPT ![p] = 0]
  <2> DEFINE a == [v EXCEPT !.dialing = v.dialing \ {p},
                !.connected = v.connected \union {p},
                !.online = v.online \union {p},
                !.resting = v.resting \ {p}, !.attempts[p] = 0]
             s == StartRound(a, which)
  <2>1. /\ DOMAIN a = DOMAIN v /\ a.connected = v.connected \union {p}
        /\ a.started = v.started /\ a.retry = v.retry /\ a.rounds = v.rounds
        /\ a.news = v.news /\ a.asks = v.asks
        /\ a.dialing = v.dialing \ {p} /\ a.pending = v.pending
        /\ a.attempts = [v.attempts EXCEPT ![p] = 0]
    BY DEF NewsFields, NewsInv
  <2>2. u = Ask(a, which)
    BY DEF Verified
  <2> HIDE DEF a, which, u
  <2>3. NewsFields \subseteq DOMAIN a
    BY <2>1 DEF NewsInv
  <2>4. /\ DOMAIN s = DOMAIN a /\ s.connected = a.connected /\ s.retry = a.retry
        /\ s.rounds = a.rounds /\ s.attempts = a.attempts /\ s.dialing = a.dialing
        /\ s.news = a.news /\ s.pending = a.pending
        /\ s.started = [q \in Peers |-> IF q \in DOMAIN which THEN which[q] ELSE a.started[q]]
    BY <2>3 DEF StartRound, NewsFields
  <2>5. u = [s EXCEPT !.asks = a.asks \union {<<q, which[q]>> : q \in DOMAIN which}]
    BY <2>2 DEF Ask
  <2> HIDE DEF s
  <2>6. /\ DOMAIN u = DOMAIN a /\ u.connected = a.connected /\ u.retry = a.retry
        /\ u.rounds = a.rounds /\ u.attempts = a.attempts /\ u.dialing = a.dialing
        /\ u.news = a.news /\ u.pending = a.pending /\ u.started = s.started
        /\ u.asks = a.asks \union {<<q, which[q]>> : q \in DOMAIN which}
    BY <2>3, <2>4, <2>5 DEF NewsFields
  <2> QED BY <2>1, <2>3, <2>4, <2>6
<1>3. DOMAIN which = {p} /\ which[p] = "chain"
  BY DEF With
<1> HIDE DEF u, which
<1>4. u.asks = {<<p, "chain">>}
  BY <1>2, <1>3 DEF CallInv
<1>5. p \notin v.connected /\ ~ChainBusy(u, p)
  BY <1>1, <1>2 DEF CallInv, NewsInv, ChainBusy, Offering
<1>6. DialsOK(u)
  <2>1. DialsOK(v) /\ DialAttempts \in Nat \ {0}
    BY SupervisorAssumption DEF NewsInv, SupervisorAssumption
  <2>2. u.attempts \in [Peers -> Nat]
    BY <1>2, <2>1 DEF DialsOK
  <2>3. ASSUME NEW q \in Peers
        PROVE  /\ u.attempts[q] <= DialAttempts
               /\ u.attempts[q] = DialAttempts => q \in u.dialing
               /\ q \in u.connected => u.attempts[q] = 0
    <3>1. u.attempts[q] = IF q = p THEN 0 ELSE v.attempts[q]
      BY <1>2, <2>1 DEF DialsOK
    <3> QED BY <1>2, <2>1, <3>1 DEF DialsOK
  <2> QED BY <2>2, <2>3 DEF DialsOK
<1>7. PutOK(u)
  BY <1>2, <1>4 DEF PutOK
<1>8. ASSUME NEW q \in owed, q \in u.connected, <<q, "chain">> \notin u.asks PROVE AtRest(u, q)
  <2>1. q # p /\ q \in Peers /\ AtRest(v, q)
    BY <1>2, <1>4, <1>8 DEF NewsInv
  <2>2. u.started[q] = v.started[q]
    BY <1>2, <1>3, <2>1
  <2> QED BY <1>2, <1>4, <2>1, <2>2 DEF AtRest
<1>9. \A x \in u.asks : ~ChainBusy(u, x[1])
  BY <1>4, <1>5
<1>10. Listed(u, {})
  BY <1>2, <1>6, <1>7, <1>8, <1>9 DEF Listed, NewsInv
<1>11. /\ v' = Dispatch(u)
       /\ owed' = {q \in owed \union {} : <<q, "chain">> \notin u.asks}
  BY <1>1 DEF Happens, HappensWith
<1>12. \A q \in Peers : link'[q] = "open" => link[q] = "open"
  BY <1>1 DEF CallInv
<1> QED BY <1>10, <1>11, <1>12, ListedOK

(***************************************************************************)
(* Presence, dials and connections.                                        *)
(***************************************************************************)
LEMMA NetworkHeeds ==
  ASSUME CallInv, CallInv', NewsInv, Network
  PROVE  NewsInv' /\ NewsStep
<1>0. NewsFields \subseteq DOMAIN v
  BY DEF NewsInv
<1>1. ASSUME NEW w, SameNews(v, w), Happens(w),
             \A p \in Peers : link'[p] = "open" => link[p] = "open" \/ NothingWith(v, p)
      PROVE  NewsInv' /\ NewsStep
  BY <1>0, <1>1, HeedsSame, HeedsOK
<1>2. ASSUME NEW asked, NEW up, PresenceAnswered(asked, up) PROVE NewsInv' /\ NewsStep
  <2> DEFINE w == [v EXCEPT !.online = (v.online \ asked) \union up,
                     !.pending = v.pending \union (up \intersect Strangers)]
             r == Reconsider(w, Groups)
             u == IF up \subseteq v.online THEN w ELSE r
  <2>1. Happens(u) /\ UNCHANGED link
    BY <1>2 DEF PresenceAnswered, Elsewhere
  <2>2. /\ w.connected = v.connected /\ w.started = v.started /\ w.retry = v.retry
        /\ w.asks = v.asks /\ w.rounds = v.rounds /\ v.pending \subseteq w.pending
        /\ w.attempts = v.attempts /\ w.dialing = v.dialing /\ w.news = v.news
        /\ DOMAIN w = DOMAIN v /\ NewsFields \subseteq DOMAIN w
    BY <1>0 DEF NewsFields
  <2> HIDE DEF w
  <2>3. DialsOK(v) => DialsOK(w)
    BY <2>2 DEF DialsOK
  <2>4. PutOK(v) => PutOK(w)
    BY <2>2 DEF PutOK
  <2>5. \A p : AtRest(v, p) <=> AtRest(w, p)
    BY <2>2 DEF AtRest
  <2>6. Heeds(v, w)
    BY <1>0, <2>2, <2>3, <2>4, <2>5 DEF Heeds
  <2>7. SameNews(w, r)
    BY <2>2 DEF Reconsider, SameNews, NewsFields
  <2>8. Heeds(v, r)
    BY <2>2, <2>6, <2>7, HeedsSame, HeedsTransitive
  <2>9. Heeds(v, u)
    BY <2>6, <2>8
  <2> HIDE DEF u
  <2> QED BY <2>1, <2>9, HeedsOK
<1>3. ASSUME NEW p \in Peers, link[p] = "none", NothingWith(v, p),
             NEW w, SameNews(v, w), Happens(w), link' = [link EXCEPT ![p] = "open"]
      PROVE  NewsInv' /\ NewsStep
  <2>1. \A q \in Peers : link'[q] = "open" => link[q] = "open" \/ NothingWith(v, q)
    BY <1>3 DEF CallInv
  <2> QED BY <1>1, <1>3, <2>1
<1>4. ASSUME NEW p \in Peers, PeerConnects(p) PROVE NewsInv' /\ NewsStep
  BY <1>3, <1>4 DEF PeerConnects, SameNews
<1>5. ASSUME NEW p \in Peers, Connects(p) PROVE NewsInv' /\ NewsStep
  <2> DEFINE w == [v EXCEPT !.dials = v.dials \ {p}]
  <2>1. SameNews(v, w)
    BY <1>0 DEF SameNews, NewsFields
  <2>2. /\ Happens(w) /\ link[p] = "none" /\ NothingWith(v, p)
        /\ link' = [link EXCEPT ![p] = "open"]
    BY <1>5 DEF Connects
  <2> HIDE DEF w
  <2> QED BY <1>3, <2>1, <2>2
<1>6. ASSUME NEW p \in Peers, Happens([v EXCEPT !.dials = v.dials \ {p}]), UNCHANGED link
      PROVE  NewsInv' /\ NewsStep
  <2> DEFINE w == [v EXCEPT !.dials = v.dials \ {p}]
  <2>1. SameNews(v, w)
    BY <1>0 DEF SameNews, NewsFields
  <2>2. Happens(w)
    BY <1>6
  <2> HIDE DEF w
  <2> QED BY <1>1, <1>6, <2>1, <2>2
<1>7. ASSUME NEW p \in Peers, DialConnects(p) PROVE NewsInv' /\ NewsStep
  BY <1>5, <1>6, <1>7 DEF DialConnects, Elsewhere
<1>8. ASSUME NEW p \in Peers, DialUnaddressed(p) PROVE NewsInv' /\ NewsStep
  BY <1>6, <1>8 DEF DialUnaddressed
<1>9. ASSUME NEW p \in Peers, ClosesUnready(p) PROVE NewsInv' /\ NewsStep
  <2>1. Happens(v) /\ link' = [link EXCEPT ![p] = "none"]
    BY <1>9 DEF ClosesUnready
  <2>2. \A q \in Peers : link'[q] = "open" => link[q] = "open" \/ NothingWith(v, q)
    BY <2>1 DEF CallInv
  <2> QED BY <1>1, <2>1, <2>2 DEF SameNews
<1>10. ASSUME NEW p \in Peers, Drops(p) PROVE NewsInv' /\ NewsStep
  <2>1. Happens(Gone(v, p)) /\ link' = [link EXCEPT ![p] = "none"]
    BY <1>10 DEF Drops
  <2>2. SameNews(v, v)
    BY DEF SameNews
  <2> QED BY <2>1, <2>2, GoneListed
<1> QED
  BY <1>2, <1>4, <1>7, <1>8, <1>9, <1>10, DialFailedListed, VerifiedListed
     DEF Network, IdleCloses, ConnectionLost

(***************************************************************************)
(* A peer that answers (PeerEvent::Asked) was asked, so it is not at rest; *)
(* it leaves the list when its catalogues have answered.                   *)
(***************************************************************************)

(***************************************************************************)
(* A peer that answers (PeerEvent::Asked) was asked, so it is not at rest; *)
(* it leaves the list when its catalogues have answered.                   *)
(***************************************************************************)
LEMMA AskedListed ==
  ASSUME CallInv, CallInv', NewsInv, NEW p \in Peers, NEW off \in Offering, RoundAnswered(p, off)
  PROVE  NewsInv' /\ NewsStep
<1> DEFINE w == [v EXCEPT !.rounds = v.rounds \ {<<p, off>>}]
           which == With(p, "none")
           s == StartRound(w, which)
           a == [s EXCEPT !.retry[p] = Quiet]
           b == [a EXCEPT !.pending = a.pending \ {p}]
           c == Ask(a, With(p, "catalogue"))
           u == Asked(w, p, off)
           read == IF off = "chain" \/ p \in Strangers THEN {}
                   ELSE {<<p, g>> : g \in {h \in Groups : p \in MembersOf[h]}}
           x == [u EXCEPT !.reads = u.reads \union read]
<1>1. NewsFields \subseteq DOMAIN v /\ p \in v.connected /\ ~AtRest(v, p) /\ v.asks = {}
  BY DEF RoundAnswered, NewsInv, CallInv, AtRest
<1>2. v' = Dispatch(x) /\ UNCHANGED <<link, owed>>
  BY DEF RoundAnswered, Elsewhere
<1>3. u \in {a, b, c}
  BY DEF Asked
<1>4. /\ DOMAIN w = DOMAIN v /\ w.rounds \subseteq v.rounds
      /\ \A f \in NewsFields \ {"rounds"} : w[f] = v[f]
  BY <1>1 DEF NewsFields
<1>5. DOMAIN which = {p} /\ which[p] = "none"
  BY DEF With
<1> HIDE DEF w, which
<1>6. /\ DOMAIN s = DOMAIN w /\ s.rounds = w.rounds
      /\ \A f \in NewsFields \ {"rounds", "started"} : s[f] = w[f]
      /\ s.started = [q \in Peers |-> IF q \in DOMAIN which THEN which[q] ELSE w.started[q]]
  BY <1>1, <1>4 DEF StartRound, NewsFields
<1> HIDE DEF s
<1>7. /\ DOMAIN a = DOMAIN s /\ a.started = s.started
      /\ \A f \in NewsFields \ {"retry"} : a[f] = s[f]
      /\ a.retry = [s.retry EXCEPT ![p] = Quiet]
  BY <1>1, <1>4, <1>6 DEF NewsFields
<1> HIDE DEF a
<1>8. /\ DOMAIN a = DOMAIN v /\ a.connected = v.connected /\ a.asks = v.asks
      /\ a.rounds \subseteq v.rounds /\ a.pending = v.pending /\ a.attempts = v.attempts
      /\ a.dialing = v.dialing /\ a.news = v.news
      /\ a.retry = [v.retry EXCEPT ![p] = Quiet]
      /\ a.started = [q \in Peers |-> IF q = p THEN "none" ELSE v.started[q]]
  BY <1>4, <1>5, <1>6, <1>7 DEF NewsFields
<1>9. Heeds(v, a)
  <2>1. DialsOK(v) => DialsOK(a)
    BY <1>8 DEF DialsOK
  <2>2. PutOK(v) => PutOK(a)
    BY <1>8 DEF PutOK
  <2>3. ASSUME NEW q \in Peers, AtRest(v, q) PROVE AtRest(a, q)
    <3>1. q # p
      BY <1>1, <2>3
    <3> QED BY <1>8, <2>3, <3>1 DEF AtRest
  <2> QED BY <1>1, <1>8, <2>1, <2>2, <2>3 DEF Heeds
<1>10. Heeds(v, b)
  <2>1. /\ DOMAIN b = DOMAIN a /\ b.connected = a.connected /\ b.asks = a.asks
        /\ b.rounds = a.rounds /\ b.pending = a.pending \ {p} /\ b.attempts = a.attempts
        /\ b.dialing = a.dialing /\ b.news = a.news
        /\ b.retry = a.retry /\ b.started = a.started
    BY <1>1, <1>8 DEF NewsFields
  <2> HIDE DEF b
  <2>2. DialsOK(a) => DialsOK(b)
    BY <2>1 DEF DialsOK
  <2>3. PutOK(a) => PutOK(b)
    BY <2>1 DEF PutOK
  <2>4. \A q : AtRest(a, q) <=> AtRest(b, q)
    BY <2>1 DEF AtRest
  <2> QED BY <1>1, <1>8, <1>9, <2>1, <2>2, <2>3, <2>4 DEF Heeds
<1>11. Heeds(v, c)
  <2>1. DOMAIN With(p, "catalogue") = {p}
    BY DEF With
  <2>2. \A q \in DOMAIN With(p, "catalogue") : q \in v.connected /\ ~AtRest(v, q)
    BY <1>1, <2>1
  <2> QED BY <1>9, <2>2, AskHeeds
<1>12. c.asks = {<<p, "catalogue">>}
  <2> DEFINE z == With(p, "catalogue")
  <2>1. DOMAIN z = {p} /\ z[p] = "catalogue"
    BY DEF With
  <2> HIDE DEF z
  <2>2. Ask(a, z).asks = a.asks \union {<<q, z[q]>> : q \in DOMAIN z}
    <3> DEFINE t == StartRound(a, z)
    <3>1. DOMAIN t = DOMAIN a
      BY <1>1, <1>8 DEF StartRound, NewsFields
    <3>2. Ask(a, z) = [t EXCEPT !.asks = a.asks \union {<<q, z[q]>> : q \in DOMAIN z}]
      BY DEF Ask
    <3> HIDE DEF t
    <3> QED BY <1>1, <1>8, <3>1, <3>2 DEF NewsFields
  <2> QED BY <1>1, <1>8, <2>1, <2>2 DEF z
<1> HIDE DEF b, c, u, read
<1>13. u.asks \subseteq {<<p, "catalogue">>} /\ Heeds(v, u)
  <2>1. CASE u = a
    BY <1>1, <1>8, <1>9, <2>1
  <2>2. CASE u = b
    <3>1. b.asks = a.asks
      BY <1>1, <1>8 DEF NewsFields, b
    <3> QED BY <1>1, <1>8, <1>10, <2>2, <3>1
  <2>3. CASE u = c
    BY <1>11, <1>12, <2>3
  <2> QED BY <1>3, <2>1, <2>2, <2>3
<1>14. Heeds(v, x) /\ x.asks = u.asks
  <2>1. NewsFields \subseteq DOMAIN u
    BY <1>13 DEF Heeds
  <2>2. SameNews(u, x) /\ x.asks = u.asks
    BY <2>1 DEF SameNews, NewsFields
  <2> HIDE DEF x
  <2>3. Heeds(u, x)
    BY <2>1, <2>2, HeedsSame
  <2> QED BY <1>13, <2>2, <2>3, HeedsTransitive
<1> HIDE DEF x
<1>15. Listed(x, {})
  BY <1>14, HeedsListed
<1>16. owed' \subseteq {q \in owed \union {} : <<q, "chain">> \notin x.asks}
  BY <1>2, <1>13, <1>14
<1> QED BY <1>2, <1>15, <1>16, ListedOK

(***************************************************************************)
(* Rounds and reads that end, and closing.                                 *)
(***************************************************************************)
LEMMA RoundsHeed ==
  ASSUME CallInv, CallInv', NewsInv, Rounds
  PROVE  NewsInv' /\ NewsStep
<1>0. NewsFields \subseteq DOMAIN v
  BY DEF NewsInv
<1>1. ASSUME NEW w, Heeds(v, w), Happens(w), UNCHANGED link PROVE NewsInv' /\ NewsStep
  BY <1>1, HeedsOK
<1>2. ASSUME NEW p \in Peers, NEW off \in Offering, RoundFails(p, off) PROVE NewsInv' /\ NewsStep
  <2> DEFINE w == [v EXCEPT !.rounds = v.rounds \ {<<p, off>>}]
             u == ArmRetry(w, {p})
  <2>1. Happens(u) /\ UNCHANGED link /\ <<p, off>> \in v.rounds
    BY <1>2 DEF RoundFails, Elsewhere
  <2>2. /\ w.connected = v.connected /\ w.started = v.started /\ w.retry = v.retry
        /\ w.asks = v.asks /\ w.rounds \subseteq v.rounds /\ w.pending = v.pending
        /\ w.attempts = v.attempts /\ w.dialing = v.dialing /\ w.news = v.news
        /\ DOMAIN w = DOMAIN v /\ NewsFields \subseteq DOMAIN w
    BY <1>0 DEF NewsFields
  <2> HIDE DEF w
  <2>3. DialsOK(v) => DialsOK(w)
    BY <2>2 DEF DialsOK
  <2>4. PutOK(v) => PutOK(w)
    BY <2>2 DEF PutOK
  <2>5. \A q : AtRest(v, q) => AtRest(w, q)
    BY <2>2 DEF AtRest
  <2>6. Heeds(v, w)
    BY <1>0, <2>2, <2>3, <2>4, <2>5 DEF Heeds
  <2>7. Heeds(w, u)
    BY <2>2, ArmRetryHeeds
  <2> HIDE DEF u
  <2>8. Heeds(v, u)
    BY <2>6, <2>7, HeedsTransitive
  <2> QED BY <1>1, <2>1, <2>8
<1>3. ASSUME NEW p \in Peers, NEW g \in Groups, ReadFails(p, g) PROVE NewsInv' /\ NewsStep
  <2> DEFINE w == [v EXCEPT !.reads = v.reads \ {<<p, g>>}]
             u == ArmRetry(w, {p})
  <2>1. Happens(u) /\ UNCHANGED link
    BY <1>3 DEF ReadFails, Elsewhere
  <2>2. SameNews(v, w) /\ NewsFields \subseteq DOMAIN w
    BY <1>0 DEF SameNews, NewsFields
  <2> HIDE DEF w
  <2>3. Heeds(v, w) /\ Heeds(w, u)
    BY <1>0, <2>2, HeedsSame, ArmRetryHeeds
  <2> HIDE DEF u
  <2>4. Heeds(v, u)
    BY <2>3, HeedsTransitive
  <2> QED BY <1>1, <2>1, <2>4
<1>4. ASSUME NEW p \in Peers, NEW g \in Groups, GroupSettles(p, g) PROVE NewsInv' /\ NewsStep
  <2> DEFINE which == With(p, "none")
             e == StartRound(v, which)
             t == [v EXCEPT !.outstanding = v.outstanding \ {<<p, g>>}]
             s == Synced(v, p, g)
             w == [s EXCEPT !.reads = v.reads \ {<<p, g>>},
                            !.reconciled = v.reconciled \union {<<p, g>>}]
             u == OpenPull(w, p, g)
  <2>1. Happens(u) /\ UNCHANGED link
    BY <1>4 DEF GroupSettles, Elsewhere
  <2>2. s \in {v, e, t}
    BY DEF Synced
  <2>3. SameNews(v, v) /\ SameNews(v, t)
    BY <1>0 DEF SameNews, NewsFields
  <2>4. DOMAIN which = {p} /\ which[p] = "none"
    BY DEF With
  <2> HIDE DEF which
  <2>5. /\ e.connected = v.connected /\ e.retry = v.retry
        /\ e.asks = v.asks /\ e.rounds = v.rounds /\ e.pending = v.pending
        /\ e.attempts = v.attempts /\ e.dialing = v.dialing /\ e.news = v.news
        /\ DOMAIN e = DOMAIN v
        /\ e.started = [q \in Peers |-> IF q \in DOMAIN which THEN which[q] ELSE v.started[q]]
    BY <1>0 DEF StartRound, NewsFields
  <2> HIDE DEF e
  <2>6. Heeds(v, e)
    <3>1. DialsOK(v) => DialsOK(e)
      BY <2>5 DEF DialsOK
    <3>2. PutOK(v) => PutOK(e)
      BY <2>5 DEF PutOK
    <3>3. ASSUME NEW q \in Peers, AtRest(v, q) PROVE AtRest(e, q)
      <4>1. e.started[q] = "none"
        BY <2>4, <2>5, <3>3 DEF AtRest
      <4> QED BY <2>5, <3>3, <4>1 DEF AtRest
    <3> QED BY <1>0, <2>5, <3>1, <3>2, <3>3 DEF Heeds
  <2> HIDE DEF s, t
  <2>7. Heeds(v, s) /\ NewsFields \subseteq DOMAIN s
    <3>1. Heeds(v, s)
      BY <1>0, <2>2, <2>3, <2>6, HeedsSame
    <3> QED BY <3>1 DEF Heeds
  <2>8. SameNews(s, w) /\ NewsFields \subseteq DOMAIN w
    BY <2>7 DEF SameNews, NewsFields
  <2> HIDE DEF w
  <2>9. Heeds(s, w) /\ Heeds(w, u)
    BY <2>7, <2>8, OpenPullNews, HeedsSame
  <2> HIDE DEF u
  <2>10. Heeds(v, u)
    BY <2>7, <2>9, HeedsTransitive
  <2> QED BY <1>1, <2>1, <2>10
<1>5. ASSUME NEW p \in Peers, CloseAgreed(p) PROVE NewsInv' /\ NewsStep
  <2> DEFINE w == [v EXCEPT !.closes = v.closes \ {p}, !.closing = v.closing \ {p}]
  <2>1. \/ Happens(w) /\ UNCHANGED link
        \/ Happens(Gone(w, p)) /\ link' = [link EXCEPT ![p] = "none"]
    BY <1>5 DEF CloseAgreed
  <2>2. SameNews(v, w)
    BY <1>0 DEF SameNews, NewsFields
  <2> HIDE DEF w
  <2>3. Heeds(v, w)
    BY <1>0, <2>2, HeedsSame
  <2> QED BY <1>1, <2>1, <2>2, <2>3, GoneListed
<1>6. ASSUME NEW p \in Peers, CloseRefused(p) PROVE NewsInv' /\ NewsStep
  <2> DEFINE w == [v EXCEPT !.closes = v.closes \ {p}]
  <2>1. Happens(w) /\ UNCHANGED link
    BY <1>6 DEF CloseRefused, Elsewhere
  <2>2. SameNews(v, w)
    BY <1>0 DEF SameNews, NewsFields
  <2> HIDE DEF w
  <2>3. Heeds(v, w)
    BY <1>0, <2>2, HeedsSame
  <2> QED BY <1>1, <2>1, <2>3
<1> QED BY <1>2, <1>3, <1>4, <1>5, <1>6, AskedListed DEF Rounds

-----------------------------------------------------------------------------
(***************************************************************************)
(* A list of what a peer holds touches nothing of the calls (on_holdings), *)
(***************************************************************************)
LEMMA HeldNews ==
  ASSUME NEW w, NewsFields \subseteq DOMAIN w, NEW p, NEW g, NEW paths, NEW held
  PROVE  SameNews(w, Held(w, p, g, paths, held))
<1> DEFINE u == [w EXCEPT !.again[<<p, g>>] = Quiet]
           wanted == {x \in paths \intersect held : <<p, <<g, x>>>> \notin w.denied}
           files  == [i \in 1 .. Cardinality(wanted) |-> <<g, InOrder(wanted)[i]>>]
           more == [u EXCEPT !.queued[p] = u.queued[p] \o files]
           pumped == Pump(more, p)
           t == Held(w, p, g, paths, held)
<1>1. t \in {AskHoldings(u, p, g), pumped, ResolveStalled(pumped, p), SpendPeer(pumped, p, g)}
  BY DEF Held
<1>2. SameNews(w, u) /\ NewsFields \subseteq DOMAIN u
  BY DEF SameNews, NewsFields
<1>3. SameNews(u, more) /\ NewsFields \subseteq DOMAIN more
  <2> HIDE DEF u, files
  <2> QED BY <1>2 DEF SameNews, NewsFields
<1> HIDE DEF u, more, t
<1>4. SameNews(w, pumped) /\ NewsFields \subseteq DOMAIN pumped
  <2>1. SameNews(more, pumped)
    BY <1>3, PumpNews
  <2> QED BY <1>2, <1>3, <2>1 DEF SameNews
<1> HIDE DEF pumped
<1>5. SameNews(u, AskHoldings(u, p, g))
  BY <1>2, AskHoldingsNews
<1>6. SameNews(pumped, ResolveStalled(pumped, p)) /\ SameNews(pumped, SpendPeer(pumped, p, g))
  BY <1>4, PumpNews, SpendPeerNews
<1>7. SameNews(w, t)
  BY <1>1, <1>2, <1>4, <1>5, <1>6 DEF SameNews
<1> QED BY <1>7 DEF t

(***************************************************************************)
(* nor does a refusal to say (arm_holdings_retry),                         *)
(***************************************************************************)
LEMMA RefusedNews ==
  ASSUME NEW w, NewsFields \subseteq DOMAIN w, NEW p, NEW g
  PROVE  SameNews(w, Refused(w, p, g))
<1> DEFINE u == DropQueued(w, p, g)
           a == [u EXCEPT !.again[<<p, g>>] = Quiet]
           b == [u EXCEPT !.again[<<p, g>>] = [of |-> "holdings", armed |-> TRUE,
                                          left |-> u.again[<<p, g>>].left - 1]]
           t == Refused(w, p, g)
<1>1. t = SpendPeer(a, p, g) \/ t = b
  BY DEF Refused
<1>2. SameNews(w, u) /\ NewsFields \subseteq DOMAIN u
  BY DEF DropQueued, SameNews, NewsFields
<1> HIDE DEF u, t
<1>3. SameNews(u, a) /\ SameNews(u, b) /\ NewsFields \subseteq DOMAIN a
  BY <1>2 DEF SameNews, NewsFields
<1> HIDE DEF a, b
<1>4. SameNews(a, SpendPeer(a, p, g))
  BY <1>3, SpendPeerNews
<1>5. SameNews(w, t)
  BY <1>1, <1>2, <1>3, <1>4 DEF SameNews
<1> QED BY <1>5 DEF t

(***************************************************************************)
(* nor does a transfer that ends (PeerEvent::BlobDone, BlobFailed).        *)
(***************************************************************************)
LEMMA FreedNews ==
  ASSUME NEW w, NewsFields \subseteq DOMAIN w, NEW p
  PROVE  SameNews(w, Freed(w, p))
<1> DEFINE a == [w EXCEPT !.transfers[p] = IF w.transfers[p] = 0 THEN 0
                                           ELSE w.transfers[p] - 1]
           b == Pump(a, p)
           u == Used(w, p)
           t == Freed(w, p)
<1>1. u = ResolveStalled(b, p)
  BY DEF Used
<1>2. SameNews(w, a) /\ NewsFields \subseteq DOMAIN a
  BY DEF SameNews, NewsFields
<1> HIDE DEF a
<1>3. SameNews(w, b) /\ NewsFields \subseteq DOMAIN b
  <2>1. SameNews(a, b)
    BY <1>2, PumpNews
  <2> QED BY <1>2, <2>1 DEF SameNews
<1> HIDE DEF b, u
<1>4. SameNews(w, u) /\ NewsFields \subseteq DOMAIN u
  <2>1. SameNews(b, u)
    BY <1>1, <1>3, PumpNews
  <2> QED BY <1>3, <2>1 DEF SameNews
<1>5. t = u \/ t = NextPages(u, p, InOrder(Groups))
  BY DEF Freed, ContinuePull, u
<1> HIDE DEF t
<1>6. Len(InOrder(Groups)) \in Nat
  BY InOrderLength, SupervisorAssumption DEF SupervisorAssumption
<1>7. SameNews(u, NextPages(u, p, InOrder(Groups)))
  BY <1>4, <1>6, NextPagesNews
<1>8. SameNews(w, t)
  BY <1>4, <1>5, <1>7 DEF SameNews
<1> QED BY <1>8 DEF t

(***************************************************************************)
(* So the events of the content keep the list,                             *)
(***************************************************************************)
LEMMA ContentHeeds ==
  ASSUME CallInv, CallInv', NewsInv, Content
  PROVE  NewsInv' /\ NewsStep
<1>0. NewsFields \subseteq DOMAIN v
  BY DEF NewsInv
<1>1. ASSUME NEW w, SameNews(v, w), Happens(w), UNCHANGED link PROVE NewsInv' /\ NewsStep
  BY <1>0, <1>1, HeedsSame, HeedsOK
<1>2. ASSUME NEW w, SameNews(v, w), NEW u, SameNews(w, u), Happens(u), UNCHANGED link
      PROVE  NewsInv' /\ NewsStep
  <2>1. SameNews(v, u)
    BY <1>2 DEF SameNews
  <2> QED BY <1>1, <1>2, <2>1
<1>3. ASSUME NEW q \in v.queries, HoldingsRefused(q) PROVE NewsInv' /\ NewsStep
  <2> DEFINE w == [v EXCEPT !.queries = v.queries \ {q}]
             u == Refused(w, q[1], q[2])
  <2>1. Happens(u) /\ UNCHANGED link
    BY <1>3 DEF HoldingsRefused
  <2>2. SameNews(v, w) /\ NewsFields \subseteq DOMAIN w
    BY <1>0 DEF SameNews, NewsFields
  <2> HIDE DEF w
  <2>3. SameNews(w, u)
    BY <2>2, RefusedNews
  <2> HIDE DEF u
  <2> QED BY <1>2, <2>1, <2>2, <2>3
<1>4. ASSUME NEW q \in v.queries, NEW held, HoldingsAnswered(q, held) PROVE NewsInv' /\ NewsStep
  <2> DEFINE w == [v EXCEPT !.queries = v.queries \ {q}]
             u == Held(w, q[1], q[2], q[3], held)
  <2>1. Happens(u) /\ UNCHANGED link
    BY <1>4 DEF HoldingsAnswered, Elsewhere
  <2>2. SameNews(v, w) /\ NewsFields \subseteq DOMAIN w
    BY <1>0 DEF SameNews, NewsFields
  <2> HIDE DEF w
  <2>3. SameNews(w, u)
    BY <2>2, HeldNews
  <2> HIDE DEF u
  <2> QED BY <1>2, <2>1, <2>2, <2>3
<1>5. ASSUME NEW w, SameNews(v, w), NEW p, TransferEnds(w, p) PROVE NewsInv' /\ NewsStep
  <2> DEFINE u == Freed(w, p)
  <2>1. Happens(u) /\ UNCHANGED link
    BY <1>5 DEF TransferEnds
  <2>2. SameNews(w, u)
    BY <1>0, <1>5, FreedNews DEF SameNews
  <2> HIDE DEF u
  <2> QED BY <1>2, <1>5, <2>1, <2>2
<1>6. ASSUME NEW b \in v.blobs, BlobDone(b) PROVE NewsInv' /\ NewsStep
  <2> DEFINE w == [v EXCEPT !.blobs = v.blobs \ {b}, !.missing = v.missing \ {b[2]}]
  <2>1. TransferEnds(w, b[1])
    BY <1>6 DEF BlobDone
  <2>2. SameNews(v, w)
    BY <1>0 DEF SameNews, NewsFields
  <2> HIDE DEF w
  <2> QED BY <1>5, <2>1, <2>2
<1>7. ASSUME NEW b \in v.blobs, NEW terminal, BlobFails(b, terminal) PROVE NewsInv' /\ NewsStep
  <2> DEFINE w == [v EXCEPT !.blobs = v.blobs \ {b},
                     !.denied = IF terminal THEN v.denied \union {<<b[1], b[2]>>}
                                ELSE v.denied]
  <2>1. TransferEnds(w, b[1])
    BY <1>7 DEF BlobFails
  <2>2. SameNews(v, w)
    BY <1>0 DEF SameNews, NewsFields
  <2> HIDE DEF w
  <2> QED BY <1>5, <2>1, <2>2
<1> QED BY <1>3, <1>4, <1>6, <1>7 DEF Content

(***************************************************************************)
(* and so does what the commands and the other nodes change.               *)
(***************************************************************************)
LEMMA UserHeeds ==
  ASSUME CallInv, CallInv', NewsInv, User
  PROVE  NewsInv' /\ NewsStep
<1>0. NewsFields \subseteq DOMAIN v
  BY DEF NewsInv
<1>1. ASSUME NEW w, SameNews(v, w), Happens(w), UNCHANGED link PROVE NewsInv' /\ NewsStep
  BY <1>0, <1>1, HeedsSame, HeedsOK
<1>2. ASSUME NEW g \in Groups, NewsMade(g) PROVE NewsInv' /\ NewsStep
  <2> DEFINE w == [v EXCEPT !.news = v.news \union {g}]
  <2>1. Happens(w) /\ UNCHANGED link
    BY <1>2 DEF NewsMade, Elsewhere
  <2>2. /\ w.connected = v.connected /\ w.started = v.started /\ w.retry = v.retry
        /\ w.asks = v.asks /\ w.rounds = v.rounds /\ w.pending = v.pending
        /\ w.attempts = v.attempts /\ w.dialing = v.dialing /\ w.news = v.news \union {g}
        /\ DOMAIN w = DOMAIN v
    BY <1>0 DEF NewsFields
  <2> HIDE DEF w
  <2>3. DialsOK(v) => DialsOK(w)
    BY <2>2 DEF DialsOK
  <2>4. PutOK(v) => PutOK(w)
    BY <2>2 DEF PutOK
  <2>5. \A q : AtRest(v, q) <=> AtRest(w, q)
    BY <2>2 DEF AtRest
  <2>6. Heeds(v, w)
    BY <1>0, <2>2, <2>3, <2>4, <2>5 DEF Heeds
  <2> QED BY <2>1, <2>6, HeedsOK
<1>3. ASSUME NEW f \in Files, FileWanted(f) PROVE NewsInv' /\ NewsStep
  <2> DEFINE w == [v EXCEPT !.missing = v.missing \union {f},
                        !.wanted = v.wanted \union {f[1]}]
  <2>1. SameNews(v, w)
    BY <1>0 DEF SameNews, NewsFields
  <2>2. Happens(w) /\ UNCHANGED link
    BY <1>3 DEF FileWanted, Elsewhere
  <2> HIDE DEF w
  <2> QED BY <1>1, <2>1, <2>2
<1>4. ASSUME NEW f \in Files, FileSettled(f) PROVE NewsInv' /\ NewsStep
  <2> DEFINE w == [v EXCEPT !.missing = v.missing \ {f}]
  <2>1. SameNews(v, w)
    BY <1>0 DEF SameNews, NewsFields
  <2>2. Happens(w) /\ UNCHANGED link
    BY <1>4 DEF FileSettled
  <2> HIDE DEF w
  <2> QED BY <1>1, <2>1, <2>2
<1>5. ASSUME NEW d \in Spaces, DiskChanges(d) PROVE NewsInv' /\ NewsStep
  BY <1>1, <1>5 DEF DiskChanges, SameNews
<1> QED BY <1>2, <1>3, <1>4, <1>5 DEF User

(***************************************************************************)
(* The supervisor begins with nobody listed.                               *)
(***************************************************************************)
LEMMA NewsStart == Init => NewsInv
<1> SUFFICES ASSUME Init PROVE NewsInv
  OBVIOUS
<1>1. /\ NewsFields \subseteq DOMAIN v /\ v.connected = {} /\ v.news = {} /\ v.rounds = {}
      /\ v.attempts = [p \in Peers |-> 0]
  BY DEF Init, NewsFields
<1>2. owed = {}
  BY DEF Init
<1>3. DialsOK(v)
  BY <1>1, SupervisorAssumption DEF DialsOK, SupervisorAssumption
<1> QED BY <1>1, <1>2, <1>3 DEF NewsInv

(***************************************************************************)
(* A peer listed for news while nothing was asked of it leaves the list    *)
(* only once it was asked, or without a connection once as many dials have *)
(* failed as may (PeerEvent::Asked, give_up, Gone). The rounds that fail   *)
(* are of other peers (arm_retry): this one has none under way.            *)
(***************************************************************************)
THEOREM NewsStaysKept == Spec => NewsKept
<1>1. NewsInv /\ CallInv /\ CallInv' /\ [Next]_vars => NewsInv' /\ [NewsStep]_vars
  <2> SUFFICES ASSUME NewsInv, CallInv, CallInv', [Next]_vars
               PROVE  NewsInv' /\ [NewsStep]_vars
    OBVIOUS
  <2>1. CASE UNCHANGED vars
    <3>1. NewsInv'
      BY <2>1 DEF NewsInv, DialsOK, AtRest, vars
    <3> QED BY <2>1, <3>1
  <2>2. ASSUME NEW t \in Timers, Tick(t) PROVE NewsInv' /\ NewsStep
    BY <2>2, TickHeeds
  <2> QED BY <2>1, <2>2, NetworkHeeds, RoundsHeed, ContentHeeds, UserHeeds DEF Next
<1>2. NewsInv /\ CallInv /\ CallInv' /\ [Next]_vars =>
        [\A p \in owed : (p \in v.pending /\ p \notin v'.pending) =>
          p \notin v.connected /\ v.attempts[p] = DialAttempts]_vars
  BY <1>1 DEF NewsStep
<1>3. Spec => []NewsInv
  BY <1>1, NewsStart, CallsInvariant, PTL DEF Spec
<1> QED BY <1>2, <1>3, CallsInvariant, PTL DEF Spec, NewsKept

=============================================================================
