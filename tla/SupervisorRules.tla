-------------------------- MODULE SupervisorRules --------------------------
(***************************************************************************)
(* What the supervisor (ac-supervisor/src/sync.rs) does with each event.   *)
(*                                                                         *)
(* The supervisor takes an event and returns actions, which supervisor_link*)
(* performs before it looks at the next event.  Here an event is a function*)
(* of a record v, which holds the supervisor's own memory, the two stores' *)
(* counters it reads, and what its actions have put under way.             *)
(*                                                                         *)
(* Peers, groups and paths are numbers, since members, groups and missing  *)
(* paths are walked in order.  A timer is the set of those whose time is   *)
(* not up; only a tick looks at the clock, so only a tick ends one.        *)
(*                                                                         *)
(* A definition with a longer name before the one it resembles is that     *)
(* definition with a plausible mistake; the specification does not use it. *)
(***************************************************************************)
EXTENDS Naturals, Sequences, FiniteSets, SequencesExt

CONSTANTS Peers, Groups, Paths,
          MembersOf,        \* the peers a group shares with, by its chain
          Strangers,        \* those who have answered no invitation
          DialAttempts,     \* dials before a peer is taken off the list (3)
          DialsPerWindow,   \* dials in one window of a minute (16)
          MaxConnections,   \* connections held or being made (16)
          MaxTransfers,     \* transfers at once (8)
          MaxSources,       \* groups pulling content at once (2)
          RetryAttempts,    \* goes after the first of a round or query (2)
          PageSize          \* paths in one query for holdings (512)

SupervisorAssumption ==
  /\ Peers \subseteq Nat \ {0} /\ IsFiniteSet(Peers)
  /\ Groups \subseteq Nat \ {0} /\ IsFiniteSet(Groups)
  /\ Paths \subseteq Nat \ {0} /\ IsFiniteSet(Paths)
  /\ MembersOf \in [Groups -> SUBSET Peers]
  /\ Strangers \subseteq Peers
  /\ {DialAttempts, DialsPerWindow, MaxConnections, MaxTransfers, MaxSources,
      PageSize} \subseteq Nat \ {0}
  /\ RetryAttempts \in Nat
ASSUME SupervisorAssumption

Offering == {"chain", "catalogue"}
Nobody == 0

(* A question waiting to be put again: armed until it is put, with left    *)
(* goes after that.  Quiet is no such question.                            *)
Quiet == [of |-> "none", armed |-> FALSE, left |-> RetryAttempts]
Retry == [of : {"none", "holdings"} \union Offering, armed : BOOLEAN,
          left : 0 .. RetryAttempts]

Files == Groups \X Paths

(* Queries and transfers are told apart by their ids, since the same may   *)
(* be under way twice: OneMore(S, x) is S with another x, under the first  *)
(* id that is free.                                                        *)
Ids == Nat \ {0}
OneMore(S, x) ==
  LET id == CHOOSE n \in 1 .. Cardinality(S) + 1 :
              /\ Append(x, n) \notin S
              /\ \A m \in 1 .. n - 1 : Append(x, m) \in S
  IN  S \union {Append(x, id)}

Views == [
  \* who
  connected : SUBSET Peers, online : SUBSET Peers, dialing : SUBSET Peers,
  pending   : SUBSET Peers, resting : SUBSET Peers,
  attempts  : [Peers -> 0 .. DialAttempts], dialed : 0 .. DialsPerWindow,
  \* rounds
  started   : [Peers -> {"none"} \union Offering],
  outstanding : SUBSET (Peers \X Groups),
  retry     : [Peers -> Retry], closing : SUBSET Peers,
  due       : SUBSET Groups, reconciled : SUBSET (Peers \X Groups),
  \* content
  source    : [Groups -> Peers \union {Nobody}],
  spent     : SUBSET (Peers \X Groups), waiting : SUBSET Groups,
  turn      : [Groups -> Nat], asked : [Peers \X Groups -> {0} \union Paths],
  denied    : SUBSET (Peers \X Files), again : [Peers \X Groups -> Retry],
  queued    : [Peers -> Seq(Files)], transfers : [Peers -> 0 .. MaxTransfers],
  space     : Nat,
  \* the stores: rows without their bytes, and counters the supervisor clears
  missing   : SUBSET Files, wanted : SUBSET Groups, news : SUBSET Groups,
  \* under way: dials, questions, reads of a log, queries, transfers, proposals
  asks      : SUBSET (Peers \X Offering), proposals : SUBSET Peers,
  dials     : SUBSET Peers, rounds : SUBSET (Peers \X Offering),
  reads     : SUBSET (Peers \X Groups),
  queries   : SUBSET (Peers \X Groups \X (SUBSET Paths) \X Ids),
  blobs     : SUBSET (Peers \X Files \X Ids), closes : SUBSET Peers]

-----------------------------------------------------------------------------
(* Small questions.                                                        *)
SharedPeers == UNION {MembersOf[g] : g \in Groups}
MissingOf(v, g) == {p \in Paths : <<g, p>> \in v.missing}
Callable(v, p) == p \in v.connected \/ p \notin v.resting
Reachable(v, g) ==
  {p \in MembersOf[g] : Callable(v, p) /\ p \in v.connected \union v.online}
Room(v) == v.space > 0
RoomFor(v) == v.space > 1
Slots(v) == UNION {{p} \X (1 .. v.transfers[p]) : p \in Peers}
RunningTransfers(v) == Cardinality(Slots(v))
ContentPeers(v) == Cardinality({g \in Groups : v.source[g] # Nobody})

(* Whether a group could still pull content through this peer.             *)
MayStillHelp(v, p) ==
  \E g \in Groups : /\ g \notin v.waiting /\ <<p, g>> \notin v.spent
                    /\ p \in MembersOf[g] /\ MissingOf(v, g) # {}

(* Nothing left that this peer can do for us, as the supervisor sees it.   *)
Drained(v, p) ==
  v.transfers[p] = 0 /\ v.started[p] = "none" /\ ~MayStillHelp(v, p)

(* What the links know besides: a question, a read or a transfer of ours.  *)
ChainBusy(v, p) == <<p, "chain">> \in v.rounds
FilesBusy(v, p) ==
  \/ <<p, "catalogue">> \in v.rounds
  \/ \E g \in Groups : <<p, g>> \in v.reads
  \/ \E q \in v.queries : q[1] = p
  \/ \E b \in v.blobs : b[1] = p

-----------------------------------------------------------------------------
(* Dialling.                                                               *)
Dial(v, p) ==
  IF \/ p \in v.connected \union v.dialing \union v.resting
     \/ Cardinality(v.connected) + Cardinality(v.dialing) >= MaxConnections
     \/ v.dialed >= DialsPerWindow
  THEN v
  ELSE [v EXCEPT !.resting = v.resting \union {p},
                 !.attempts[p] = v.attempts[p] + 1,
                 !.dialing = v.dialing \union {p}, !.dialed = v.dialed + 1,
                 !.dials = v.dials \union {p}]

(* One call for news in a tick, strangers first; a peer that cannot be     *)
(* dialed now is passed over.                                              *)
QueueDials(v, order) ==
  LET owed == {p \in v.pending \ v.connected : Dial(v, p) # v}
      first == IF owed \intersect Strangers # {} THEN owed \intersect Strangers
               ELSE owed
  IN  IF owed = {} THEN v
      ELSE Dial(v, SelectSeq(order, LAMBDA p : p \in first)[1])

(* The member to talk to next: a connected one, those who have answered    *)
(* first, else the next of the rotation.                                   *)
InOrder(S) ==
  [i \in 1 .. Cardinality(S) |->
     CHOOSE x \in S : Cardinality({y \in S : y < x}) = i - 1]
NextMember(v, g, skip) ==
  LET able == (Reachable(v, g) \ skip) \ v.dialing
      near == able \intersect v.connected
      all  == InOrder(MembersOf[g])
      at(i) == ((v.turn[g] + i) % Len(all)) + 1
      first == CHOOSE i \in 0 .. Len(all) - 1 :
                 /\ all[at(i)] \in able
                 /\ \A j \in 0 .. i - 1 : all[at(j)] \notin able
  IN  IF able = {} THEN [peer |-> Nobody, turn |-> v.turn[g]]
      ELSE IF near # {}
           THEN [peer |-> InOrder(IF near \ Strangers # {} THEN near \ Strangers
                                  ELSE near)[1],
                 turn |-> v.turn[g]]
           ELSE [peer |-> all[at(first)], turn |-> at(first) % Len(all)]

-----------------------------------------------------------------------------
(* Rounds: which[p] is the one that begins with p, or none.  The groups a  *)
(* catalogue round names are outstanding until each is settled or the      *)
(* round ends.                                                             *)
StartRound(v, which) ==
  [v EXCEPT !.started = [p \in Peers |-> IF p \in DOMAIN which THEN which[p]
                                         ELSE v.started[p]],
            !.outstanding = {x \in v.outstanding : x[1] \notin DOMAIN which}
              \union {x \in (DOMAIN which) \X Groups :
                        which[x[1]] = "catalogue" /\ x[1] \in MembersOf[x[2]]}]

Ask(v, which) ==
  [StartRound(v, which) EXCEPT
     !.asks = v.asks \union {<<p, which[p]>> : p \in DOMAIN which}]

With(p, off) == [q \in {p} |-> off]

(* Rounds with the peers ps did not come off: each is put back, unless it  *)
(* has had its goes.                                                       *)
LeftOf(v, p) ==
  IF v.retry[p].of = v.started[p] THEN v.retry[p].left ELSE RetryAttempts

ArmRetryForever(v, ps) ==
  LET ended == {p \in ps : v.started[p] # "none"}
      w == StartRound(v, [p \in ended |-> "none"])
  IN  [w EXCEPT !.retry = [p \in Peers |->
         IF p \notin ended \intersect v.connected THEN v.retry[p]
         ELSE [of |-> v.started[p], armed |-> TRUE, left |-> LeftOf(v, p)]]]

ArmRetry(v, ps) ==
  LET ended == {p \in ps : v.started[p] # "none"}
      over  == {p \in ended \intersect v.connected : LeftOf(v, p) = 0}
      w == StartRound(v, [p \in ended |-> "none"])
  IN  [w EXCEPT !.pending = v.pending \ over,
                !.retry = [p \in Peers |->
         IF p \notin ended \intersect v.connected THEN v.retry[p]
         ELSE IF p \in over THEN Quiet
         ELSE [of |-> v.started[p], armed |-> TRUE, left |-> LeftOf(v, p) - 1]]]

-----------------------------------------------------------------------------
(* Content.                                                                *)
DropQueued(v, p, g) ==
  LET files == v.queued[p]
      kept  == InOrder({i \in DOMAIN files : files[i][1] # g})
  IN  [v EXCEPT !.queued[p] = [i \in DOMAIN kept |-> files[kept[i]]]]

LetGo(v, p, g) ==
  IF v.source[g] = p THEN [v EXCEPT !.source[g] = Nobody] ELSE v

ReleaseSource(v, p, g) == LetGo(DropQueued(v, p, g), p, g)

SpendPeer(v, p, g) ==
  LET w == ReleaseSource(v, p, g)
  IN  [w EXCEPT !.asked[<<p, g>>] = 0, !.spent = v.spent \union {<<p, g>>}]

(* The next page of what is missing after the last one asked of this peer, *)
(* pages of nothing but denied paths passed over; at the end of the        *)
(* backlog the peer is spent.                                              *)
AskHoldings(v, p, g) ==
  LET rest == {x \in MissingOf(v, g) : x > v.asked[<<p, g>>]}
      page(k) == {x \in rest :
                    (Cardinality({y \in rest : y < x}) \div PageSize) = k}
      wanted(k) == {x \in page(k) : <<p, <<g, x>>>> \notin v.denied}
      asked == {k \in 0 .. Cardinality(rest) : wanted(k) # {}}
      k == CHOOSE i \in asked : \A j \in asked : i <= j
  IN  IF asked = {} THEN SpendPeer(v, p, g)
      ELSE [v EXCEPT !.asked[<<p, g>>] =
                        CHOOSE x \in page(k) : \A y \in page(k) : y <= x,
                     !.queries = OneMore(v.queries, <<p, g, wanted(k)>>)]

OpenPullTwice(v, p, g) ==
  IF \/ ContentPeers(v) >= MaxSources
     \/ <<p, g>> \in v.spent
     \/ g \in v.waiting \/ MissingOf(v, g) = {} \/ ~Room(v)
  THEN v ELSE AskHoldings([v EXCEPT !.source[g] = p], p, g)

(* Claim the group's pull for a peer whose catalogue has just reconciled.  *)
OpenPull(v, p, g) ==
  IF \/ ContentPeers(v) >= MaxSources
     \/ v.source[g] # Nobody \/ <<p, g>> \in v.spent
     \/ g \in v.waiting \/ MissingOf(v, g) = {} \/ ~Room(v)
  THEN v ELSE AskHoldings([v EXCEPT !.source[g] = p], p, g)

(* A batch of transfers ended: ask for the next of whatever this peer can  *)
(* still serve.                                                            *)
NextPageUnclaimed(v, p, g) ==
  IF p \notin MembersOf[g] THEN v ELSE AskHoldings(v, p, g)

NextPage(v, p, g) ==
  IF p \notin MembersOf[g] THEN v
  ELSE IF v.source[g] = p THEN AskHoldings(v, p, g)
  ELSE OpenPull(v, p, g)

NextPages(v, p, groups) ==
  LET run[i \in 0 .. Len(groups)] ==
        IF i = 0 THEN v ELSE NextPage(run[i - 1], p, groups[i])
  IN  run[Len(groups)]

ContinuePull(v, p) ==
  IF v.transfers[p] > 0 \/ v.queued[p] # <<>> THEN v
  ELSE NextPages(v, p, InOrder(Groups))

(* Start queued files while there is room, in order; those no longer       *)
(* wanted are passed over.                                                 *)
PumpFile(w, p, f) ==
  IF w.full \/ RunningTransfers(w.v) >= MaxTransfers
  THEN [w EXCEPT !.rest = Append(w.rest, f)]
  ELSE IF <<p, f>> \in w.v.denied \/ f \notin w.v.missing THEN w
  ELSE IF ~RoomFor(w.v) THEN [w EXCEPT !.rest = <<f>>, !.full = TRUE]
  ELSE [w EXCEPT !.v = [w.v EXCEPT
           !.space = w.v.space - 1,
           !.transfers[p] = w.v.transfers[p] + 1,
           !.blobs = OneMore(w.v.blobs, <<p, f>>)]]

PumpFiles(v, p, files) ==
  LET run[i \in 0 .. Len(files)] ==
        IF i = 0 THEN [v |-> v, rest |-> <<>>, full |-> FALSE]
        ELSE PumpFile(run[i - 1], p, files[i])
  IN  run[Len(files)]

Pump(v, p) ==
  LET done == PumpFiles(v, p, v.queued[p])
  IN  [v EXCEPT !.queued[p] = done.rest, !.space = done.v.space,
                !.transfers[p] = done.v.transfers[p], !.blobs = done.v.blobs]

(* Let go of the groups this peer sources but cannot be driven for.        *)
ResolveStalled(v, p) ==
  LET stalled == {v.queued[p][i][1] : i \in DOMAIN v.queued[p]}
  IN  IF v.transfers[p] > 0 \/ RunningTransfers(v) >= MaxTransfers THEN v
      ELSE [v EXCEPT !.queued[p] = <<>>,
                     !.source = [g \in Groups |->
                       IF g \in stalled /\ v.source[g] = p THEN Nobody
                       ELSE v.source[g]]]

PumpQueue(v, p) ==
  IF v.queued[p] = <<>> THEN v ELSE ResolveStalled(Pump(v, p), p)

PumpQueues(v, order) ==
  LET run[i \in 0 .. Len(order)] ==
        IF i = 0 THEN v ELSE PumpQueue(run[i - 1], order[i])
  IN  run[Len(order)]

(* Every reachable member has been asked to the end and none could help.   *)
ExhaustGroupForGood(v, g) ==
  [v EXCEPT !.waiting = v.waiting \union {g}, !.source[g] = Nobody]

ExhaustGroup(v, g) ==
  [v EXCEPT !.waiting = v.waiting \union {g}, !.source[g] = Nobody,
            !.spent = {x \in v.spent : x[2] # g}]

(* A new want, or somebody back online, lets a group try again.            *)
Reconsider(v, gs) ==
  [v EXCEPT !.waiting = v.waiting \ gs,
            !.spent = {x \in v.spent : x[2] \notin gs}]
=============================================================================
