---------------------------- MODULE Supervisor ----------------------------
(***************************************************************************)
(* The supervisor of one daemon, with what surrounds it: dials and         *)
(* connections (ac-node/src/daemon.rs, ac-net/src/admitted_peers.rs), the  *)
(* questions the links have under way, and the peers, which answer, fail   *)
(* or disappear as they like.  One event is one step: the daemon is one    *)
(* task, and supervisor_link performs what an event asks for before it     *)
(* takes the next.                                                         *)
(*                                                                         *)
(* A definition with a longer name before the one it resembles is that     *)
(* definition with a plausible mistake; the specification does not use it. *)
(***************************************************************************)
EXTENDS SupervisorRules

CONSTANTS Steady,       \* peers that are always online
          Holders,      \* those of them that hold every file
          MaxUpsets,    \* bounds the failures, refusals, losses, and changes
                        \* this node's user makes, together
          Spaces        \* what the disk may be measured as

BoundAssumption == /\ Holders \subseteq Steady /\ Steady \subseteq Peers
                   /\ MaxUpsets \in Nat
                   /\ Spaces \subseteq Nat /\ Spaces # {}
ASSUME BoundAssumption

VARIABLES v,        \* the supervisor, what it reads and what it has under way
          link,     \* how far each peer's connection has got
          disk,     \* what the next tick measures
          quiet,    \* peers with whom nothing was under way since a tick
          owed,     \* peers listed for news while idle, and not asked since
          tries,    \* how often a round was put to a peer since its answer
          spoiled,  \* "leak": a dial ended and the supervisor was not told;
                    \* "stray": a request or transfer ended after its peer
                    \* had gone; "twice": a peer was asked for a group while
                    \* a question about it was open; "vanished": a file was
                    \* had or removed by other means while it was being got
          upsets    \* how many so far

vars == <<v, link, quiet, disk, owed, tries, spoiled, upsets>>

Init ==
  /\ v = [connected |-> {}, online |-> {}, dialing |-> {}, pending |-> {},
          resting |-> {}, attempts |-> [p \in Peers |-> 0], dialed |-> 0,
          started |-> [p \in Peers |-> "none"], outstanding |-> {},
          retry |-> [p \in Peers |-> Quiet], closing |-> {}, due |-> Groups,
          reconciled |-> {}, source |-> [g \in Groups |-> Nobody],
          spent |-> {}, waiting |-> {}, turn |-> [g \in Groups |-> 0],
          asked |-> [x \in Peers \X Groups |-> 0], denied |-> {},
          again |-> [x \in Peers \X Groups |-> Quiet],
          queued |-> [p \in Peers |-> <<>>],
          transfers |-> [p \in Peers |-> 0], space |-> Max(Spaces),
          missing |-> Files, wanted |-> {}, news |-> {}, asks |-> {},
          proposals |-> {}, dials |-> {}, rounds |-> {}, reads |-> {},
          queries |-> {}, blobs |-> {}, closes |-> {}]
  /\ link = [p \in Peers |-> "none"]
  /\ disk = Max(Spaces)
  /\ quiet = {} /\ owed = {} /\ tries = [p \in Peers |-> 0] /\ spoiled = {}
  /\ upsets = 0

-----------------------------------------------------------------------------
(* What supervisor_link does with the actions of one event: a question is  *)
(* deferred while a chain exchange with the peer is outstanding, and an    *)
(* offer to hang up is not made while a link is busy with the peer.        *)
Dispatch(w) ==
  LET late == {a \in w.asks : ChainBusy(w, a[1])}
      idle == {p \in w.proposals :
                 Drained(w, p) /\ ~FilesBusy(w, p) /\ ~ChainBusy(w, p)}
      sent == [w EXCEPT !.rounds = w.rounds \union (w.asks \ late),
                        !.asks = {}, !.closes = w.closes \union idle,
                        !.proposals = {}]
  IN  ArmRetry(sent, {a[1] : a \in late})

NothingWith(w, p) ==
  /\ \A o \in Offering : <<p, o>> \notin w.rounds
  /\ ~FilesBusy(w, p) /\ p \notin w.closes

(* An event leaves the record w.  The peers in news were listed by it, of  *)
(* those in calm nothing has been heard since a tick.                      *)
HappensWith(w, calm, news) ==
  LET put == {a[1] : a \in w.asks}
  IN  /\ v' = Dispatch(w)
      /\ quiet' = {p \in calm \intersect w.connected : NothingWith(v', p)}
      /\ tries' = [p \in Peers |-> IF p \notin w.connected THEN 0
                                   ELSE IF p \in put THEN tries[p] + 1
                                   ELSE tries[p]]
      /\ owed' = {p \in owed \union news : <<p, "chain">> \notin w.asks}
Happens(w) == HappensWith(w, quiet, {})

Upset == upsets < MaxUpsets /\ upsets' = upsets + 1
Fine == UNCHANGED upsets
Elsewhere == UNCHANGED <<link, disk, spoiled>>

-----------------------------------------------------------------------------
(* The tick.  At most one timer runs out in it: t names which.             *)
Timers == {<<"none">>, <<"window">>}
          \union {<<k, p>> : k \in {"rest", "round", "close"}, p \in Peers}
          \union {<<k, g>> : k \in {"wait", "heartbeat"}, g \in Groups}

Running(t) ==
  CASE t[1] = "none"      -> TRUE
    [] t[1] = "window"    -> v.dialed > 0
    [] t[1] = "rest"      -> t[2] \in v.resting
    [] t[1] = "round"     -> v.started[t[2]] # "none"
    [] t[1] = "close"     -> t[2] \in v.closing
    [] t[1] = "wait"      -> t[2] \in v.waiting
    [] t[1] = "heartbeat" -> t[2] \notin v.due

RunOut(w, t) ==
  LET is(k) == IF t[1] = k THEN {t[2]} ELSE {}
      u == [w EXCEPT !.dialed  = IF t[1] = "window" THEN 0 ELSE w.dialed,
                     !.resting = w.resting \ is("rest"),
                     !.waiting = w.waiting \ is("wait"),
                     !.due     = w.due \union is("heartbeat"),
                     !.closing = w.closing \ is("close")]
  IN  ArmRetry(u, is("round"))

(* What changed about a group, and whether to tell anybody.                *)
Arm(w, g) ==
  LET new  == IF g \notin w.wanted THEN w
              ELSE [Reconsider(w, {g}) EXCEPT
                      !.wanted = w.wanted \ {g},
                      !.asked = [x \in Peers \X Groups |->
                                   IF x[2] = g THEN 0 ELSE w.asked[x]]]
      told == IF g \notin w.news THEN new
              ELSE [new EXCEPT !.news = new.news \ {g},
                      !.pending = new.pending \union
                        (MembersOf[g] \intersect (w.connected \union w.online))]
      next == NextMember(told, g, {})
  IN  IF g \notin told.due THEN told
      ELSE IF MembersOf[g] \intersect told.pending # {}
           THEN [told EXCEPT !.due = told.due \ {g}]
      ELSE IF next.peer = Nobody THEN told
      ELSE [told EXCEPT !.due = told.due \ {g}, !.turn[g] = next.turn,
                        !.pending = told.pending \union {next.peer}]

Arms(w, groups) ==
  LET run[i \in 0 .. Len(groups)] ==
        IF i = 0 THEN w ELSE Arm(run[i - 1], groups[i])
  IN  run[Len(groups)]

(* Give each group that misses something a source, or a call to one.       *)
PullFor(w, g) ==
  LET usable == {p \in MembersOf[g] : p \in w.connected /\ <<p, g>> \notin w.spent}
      ready  == {p \in usable : <<p, g>> \in w.reconciled}
      next   == NextMember(w, g, {p \in Peers : <<p, g>> \in w.spent})
  IN  IF \/ ContentPeers(w) >= MaxSources \/ g \in w.waiting
         \/ w.source[g] # Nobody \/ MissingOf(w, g) = {}
         \/ Reachable(w, g) = {} THEN w
      ELSE IF \A p \in Reachable(w, g) : <<p, g>> \in w.spent
           THEN ExhaustGroup(w, g)
      ELSE IF ready # {} THEN OpenPull(w, InOrder(ready)[1], g)
      ELSE IF usable # {} \/ MembersOf[g] \intersect w.dialing # {} THEN w
      ELSE IF next.peer = Nobody THEN w
      ELSE Dial([w EXCEPT !.turn[g] = next.turn], next.peer)

Pulls(w, groups) ==
  LET run[i \in 0 .. Len(groups)] ==
        IF i = 0 THEN w ELSE PullFor(run[i - 1], groups[i])
  IN  run[Len(groups)]

ContentPulls(w) == IF Room(w) THEN Pulls(w, InOrder(Groups)) ELSE w

(* Put again what was armed before this tick: rounds, then queries.        *)
Requery(w, x) ==
  IF x[1] \in w.connected /\ w.again[x].armed
  THEN AskHoldings([w EXCEPT !.again[x].armed = FALSE], x[1], x[2])
  ELSE w

Requeries(w, queries) ==
  LET run[i \in 0 .. Len(queries)] ==
        IF i = 0 THEN w ELSE Requery(run[i - 1], queries[i])
  IN  run[Len(queries)]

Retries(w, armed, queries) ==
  LET again == {p \in armed \intersect w.connected :
                  w.started[p] = "none" /\ w.retry[p].armed}
      put == [w EXCEPT !.retry = [p \in Peers |->
                IF p \in again THEN [w.retry[p] EXCEPT !.armed = FALSE]
                ELSE w.retry[p]]]
  IN  Requeries(Ask(put, [p \in again |-> w.retry[p].of]), SetToSeq(queries))

Closes(w) ==
  LET idle == {p \in w.connected \ w.closing : Drained(w, p)}
  IN  [w EXCEPT !.closing = w.closing \union idle, !.proposals = idle]

Orders == {s \in [1 .. Cardinality(Peers) -> Peers] :
             \A i, j \in DOMAIN s : i # j => s[i] # s[j]}

(* Between a connected peer and us nothing is asked or waiting.            *)
BetweenRounds(p) ==
  /\ v.started[p] = "none" /\ v.retry[p] = Quiet
  /\ \A o \in Offering : <<p, o>> \notin v.rounds

(* What one tick leads to: what it makes of the record, and the peers it   *)
(* lists for news that nothing is asked of meanwhile.                      *)
Ticked(t, order) ==
  LET armed   == {p \in Peers : v.retry[p].armed}
      queries == {x \in Peers \X Groups : v.again[x].armed}
      begun == Arms(RunOut([v EXCEPT !.space = disk], t), InOrder(Groups))
      calls == PumpQueues(QueueDials(begun, order), order)
  IN  [v    |-> Closes(Retries(ContentPulls(calls), armed, queries)),
       news |-> {p \in begun.pending :
                   BetweenRounds(p) /\ \E g \in v.news : p \in MembersOf[g]}]

Tick(t) ==
  /\ Running(t)
  /\ \E order \in Orders :
       LET next == Ticked(t, order)
       IN  HappensWith(next.v, {p \in v.connected : NothingWith(v, p)}, next.news)
  /\ Elsewhere /\ Fine

-----------------------------------------------------------------------------
(* Presence, dials and connections.                                        *)
(* The server says who of the peers we asked about is online; somebody     *)
(* back lets every group try again, and an invitation is owed a call.      *)
PresenceAnswered(asked, up) ==
  LET w == [v EXCEPT !.online = (v.online \ asked) \union up,
                     !.pending = v.pending \union (up \intersect Strangers)]
  IN  /\ asked # {} /\ asked \subseteq SharedPeers \ v.connected
      /\ up \subseteq asked /\ Steady \intersect asked \subseteq up
      /\ Happens(IF up \subseteq v.online THEN w ELSE Reconsider(w, Groups))
      /\ Elsewhere
      /\ IF v.online \intersect asked \subseteq up THEN Fine ELSE Upset

(* A connection is made, by our dial or theirs; the peers then prove       *)
(* themselves and it settles.  What was under way with the peer before has *)
(* failed by then.                                                         *)
Connects(p) ==
  /\ link[p] = "none" /\ NothingWith(v, p)
  /\ link' = [link EXCEPT ![p] = "open"]
  /\ Happens([v EXCEPT !.dials = v.dials \ {p}])
  /\ UNCHANGED <<disk, spoiled>> /\ Fine

PeerConnects(p) ==
  /\ link[p] = "none" /\ NothingWith(v, p) /\ p \notin v.dials
  /\ link' = [link EXCEPT ![p] = "open"]
  /\ Happens(v) /\ UNCHANGED <<disk, spoiled>> /\ Upset

DialConnects(p) ==
  /\ p \in v.dials
  /\ IF link[p] = "none" THEN Connects(p)
     ELSE Happens([v EXCEPT !.dials = v.dials \ {p}]) /\ Elsewhere /\ Fine

DialFailed(w, p) ==
  LET u == [w EXCEPT !.dialing = w.dialing \ {p}]
  IN  IF w.attempts[p] < DialAttempts THEN u
      ELSE [u EXCEPT !.pending = u.pending \ {p}, !.attempts[p] = 0]

DialFails(p) ==
  /\ p \in v.dials
  /\ Happens(DialFailed([v EXCEPT !.dials = v.dials \ {p}], p))
  /\ Elsewhere /\ Upset

(* There is no address to dial the peer at: the call is dropped.           *)
DialUnaddressed(p) ==
  /\ p \in v.dials
  /\ Happens([v EXCEPT !.dials = v.dials \ {p}])
  /\ spoiled' = spoiled \union {"leak"}
  /\ UNCHANGED <<link, disk>> /\ Upset

(* Admitted and settled: the supervisor hears of the peer.                 *)
Verified(w, p) ==
  Ask([w EXCEPT !.dialing = w.dialing \ {p},
                !.connected = w.connected \union {p},
                !.online = w.online \union {p},
                !.resting = w.resting \ {p}, !.attempts[p] = 0],
      With(p, "chain"))

BecomesReady(p) ==
  /\ link[p] = "open"
  /\ link' = [link EXCEPT ![p] = "ready"]
  /\ Happens(Verified(v, p))
  /\ UNCHANGED <<disk, spoiled>> /\ Fine

(* A connection that ends before it was ready is not reported.             *)
ClosesUnready(p) ==
  /\ link[p] = "open"
  /\ link' = [link EXCEPT ![p] = "none"]
  /\ spoiled' = IF p \in v.dialing \ v.dials THEN spoiled \union {"leak"}
                ELSE spoiled
  /\ Happens(v) /\ UNCHANGED disk /\ Upset

GoneForgetting(w, p) ==
  [w EXCEPT !.reconciled = {x \in w.reconciled : x[1] # p},
            !.dialing = w.dialing \ {p}, !.connected = w.connected \ {p},
            !.pending = w.pending \ {p}, !.started[p] = "none",
            !.outstanding = {x \in w.outstanding : x[1] # p},
            !.retry[p] = Quiet, !.transfers[p] = 0, !.queued[p] = <<>>,
            !.source = [g \in Groups |-> IF w.source[g] = p THEN Nobody
                                         ELSE w.source[g]]]

GoneSourcing(w, p) ==
  [w EXCEPT !.reconciled = {x \in w.reconciled : x[1] # p},
            !.dialing = w.dialing \ {p}, !.connected = w.connected \ {p},
            !.started[p] = "none",
            !.outstanding = {x \in w.outstanding : x[1] # p},
            !.retry[p] = Quiet, !.queued[p] = <<>>, !.transfers[p] = 0]

Gone(w, p) ==
  [w EXCEPT !.reconciled = {x \in w.reconciled : x[1] # p},
            !.dialing = w.dialing \ {p}, !.connected = w.connected \ {p},
            !.pending = IF \/ w.retry[p] # Quiet
                           \/ \E g \in Groups : w.again[<<p, g>>] # Quiet
                        THEN w.pending \union {p} ELSE w.pending,
            !.resting = w.resting \ {p}, !.attempts[p] = 0,
            !.transfers[p] = 0, !.closing = w.closing \ {p},
            !.retry[p] = Quiet,
            !.again = [x \in Peers \X Groups |->
                         IF x[1] = p THEN Quiet ELSE w.again[x]],
            !.asked = [x \in Peers \X Groups |->
                         IF x[1] = p THEN 0 ELSE w.asked[x]],
            !.denied = {x \in w.denied : x[1] # p},
            !.started[p] = "none",
            !.outstanding = {x \in w.outstanding : x[1] # p},
            !.queued[p] = <<>>,
            !.source = [g \in Groups |-> IF w.source[g] = p THEN Nobody
                                         ELSE w.source[g]]]

Drops(p) ==
  /\ link[p] = "ready"
  /\ link' = [link EXCEPT ![p] = "none"]
  /\ Happens(Gone(v, p))
  /\ UNCHANGED <<disk, spoiled>>

(* The swarm closes a connection that carried nothing for a minute, which  *)
(* many ticks had nothing to add to; else the connection is lost.          *)
IdleCloses(p) == p \in quiet /\ Drops(p) /\ Fine
ConnectionLost(p) == p \notin quiet /\ Drops(p) /\ Upset

-----------------------------------------------------------------------------
(* Rounds.                                                                 *)
AskedStill(w, p, off) ==
  LET u == [StartRound(w, With(p, "none")) EXCEPT !.retry[p] = Quiet]
  IN  IF off = "chain" /\ p \in u.connected THEN Ask(u, With(p, "catalogue")) ELSE u

Asked(w, p, off) ==
  LET u == [StartRound(w, With(p, "none")) EXCEPT !.retry[p] = Quiet]
  IN  IF off = "catalogue" THEN [u EXCEPT !.pending = u.pending \ {p}]
      ELSE IF p \in u.connected THEN Ask(u, With(p, "catalogue"))
      ELSE u

(* The heads of the catalogues come back: same are settled, others read.   *)
RoundAnswered(p, off) ==
  LET w == [v EXCEPT !.rounds = v.rounds \ {<<p, off>>}]
      u == Asked(w, p, off)
      read == IF off = "chain" \/ p \in Strangers THEN {}
              ELSE {<<p, g>> : g \in {h \in Groups : p \in MembersOf[h]}}
  IN  /\ <<p, off>> \in v.rounds /\ link[p] = "ready"
      /\ v' = Dispatch([u EXCEPT !.reads = u.reads \union read])
      /\ quiet' = quiet \ {p}
      /\ tries' = [tries EXCEPT ![p] = Cardinality(u.asks)]
      /\ UNCHANGED owed /\ Elsewhere /\ Fine

RoundFails(p, off) ==
  /\ <<p, off>> \in v.rounds
  /\ Happens(ArmRetry([v EXCEPT !.rounds = v.rounds \ {<<p, off>>}], {p}))
  /\ Elsewhere
  /\ IF link[p] = "ready" THEN Upset ELSE Fine

(* A catalogue is read to its end, or a page of it never came.  Reads of   *)
(* an earlier round can settle the round now in flight.                    *)
Synced(w, p, g) ==
  LET left == w.outstanding \ {<<p, g>>}
  IN  IF w.started[p] # "catalogue" THEN w
      ELSE IF \A x \in left : x[1] # p THEN StartRound(w, With(p, "none"))
      ELSE [w EXCEPT !.outstanding = left]

GroupSettles(p, g) ==
  LET w == [Synced(v, p, g) EXCEPT !.reads = v.reads \ {<<p, g>>},
                     !.reconciled = v.reconciled \union {<<p, g>>}]
  IN  /\ <<p, g>> \in v.reads /\ link[p] = "ready"
      /\ Happens(OpenPull(w, p, g))
      /\ Elsewhere /\ Fine

ReadFails(p, g) ==
  /\ <<p, g>> \in v.reads
  /\ Happens(ArmRetry([v EXCEPT !.reads = v.reads \ {<<p, g>>}], {p}))
  /\ Elsewhere
  /\ IF link[p] = "ready" THEN Upset ELSE Fine

-----------------------------------------------------------------------------
(* Content.                                                                *)
Held(w, p, g, paths, held) ==
  LET u == [w EXCEPT !.again[<<p, g>>] = Quiet]
      wanted == {x \in paths \intersect held : <<p, <<g, x>>>> \notin w.denied}
      files  == [i \in 1 .. Cardinality(wanted) |-> <<g, InOrder(wanted)[i]>>]
      pumped == Pump([u EXCEPT !.queued[p] = u.queued[p] \o files], p)
  IN  IF wanted = {} THEN AskHoldings(u, p, g)
      ELSE IF pumped.transfers # u.transfers \/ RunningTransfers(pumped) > 0
           THEN pumped
      ELSE IF pumped.queued[p] # <<>> THEN ResolveStalled(pumped, p)
      ELSE SpendPeer(pumped, p, g)

HoldingsAnswered(q, held) ==
  /\ q \in v.queries /\ q[1] \in v.connected \ Strangers
  /\ q[1] \in Holders => held = q[3]
  /\ held \subseteq q[3]
  /\ Happens(Held([v EXCEPT !.queries = v.queries \ {q}], q[1], q[2], q[3], held))
  /\ Elsewhere /\ Fine

Refused(w, p, g) ==
  LET u == DropQueued(w, p, g)
      left == u.again[<<p, g>>].left
  IN  IF left = 0
      THEN SpendPeer([u EXCEPT !.again[<<p, g>>] = Quiet], p, g)
      ELSE [u EXCEPT !.again[<<p, g>>] = [of |-> "holdings", armed |-> TRUE,
                                          left |-> left - 1]]

HoldingsRefused(q) ==
  /\ q \in v.queries
  /\ Happens(Refused([v EXCEPT !.queries = v.queries \ {q}], q[1], q[2]))
  /\ spoiled' = IF link[q[1]] = "ready" THEN spoiled ELSE spoiled \union {"stray"}
  /\ UNCHANGED <<link, disk>>
  /\ IF link[q[1]] = "ready" /\ q[1] \notin Strangers THEN Upset ELSE Fine

(* A transfer ends: what it frees is used again, and then the next page of *)
(* every group this peer can serve is asked for, whichever group the       *)
(* transfer was for.                                                       *)
UsedUncounted(w, p) == ResolveStalled(Pump(w, p), p)

Used(w, p) ==
  LET u == [w EXCEPT !.transfers[p] = IF w.transfers[p] = 0 THEN 0
                                      ELSE w.transfers[p] - 1]
  IN  ResolveStalled(Pump(u, p), p)

Freed(w, p) == ContinuePull(Used(w, p), p)

(* So a group this peer is the source of may be asked about again although *)
(* a question about it is open.                                            *)
Twice(w, p) ==
  LET u == Used(w, p)
  IN  /\ u.transfers[p] = 0 /\ u.queued[p] = <<>>
      /\ \E g \in Groups :
           /\ u.source[g] = p /\ p \in MembersOf[g]
           /\ u.again[<<p, g>>].armed \/ \E q \in u.queries : q[1] = p /\ q[2] = g

TransferEnds(w, p) ==
  /\ Happens(Freed(w, p))
  /\ spoiled' = spoiled \union (IF link[p] = "ready" THEN {} ELSE {"stray"})
                        \union (IF Twice(w, p) THEN {"twice"} ELSE {})
  /\ UNCHANGED <<link, disk>>

BlobDone(b) ==
  /\ b \in v.blobs
  /\ TransferEnds([v EXCEPT !.blobs = v.blobs \ {b},
                            !.missing = v.missing \ {b[2]}], b[1])
  /\ Fine

BlobFails(b, terminal) ==
  LET w == [v EXCEPT !.blobs = v.blobs \ {b},
                     !.denied = IF terminal THEN v.denied \union {<<b[1], b[2]>>}
                                ELSE v.denied]
  IN  /\ b \in v.blobs
      /\ TransferEnds(w, b[1])
      /\ IF link[b[1]] = "ready" THEN Upset ELSE Fine

-----------------------------------------------------------------------------
(* Hanging up.                                                             *)
(* The peer agreed and nothing has come up since: we disconnect.           *)
CloseAgreed(p) ==
  LET w == [v EXCEPT !.closes = v.closes \ {p}, !.closing = v.closing \ {p}]
      cut == p \in v.closing /\ Drained(w, p)
  IN  /\ p \in v.closes /\ link[p] = "ready"
      /\ IF cut THEN /\ link' = [link EXCEPT ![p] = "none"]
                     /\ Happens(Gone(w, p))
         ELSE Happens(w) /\ UNCHANGED link
      /\ UNCHANGED <<disk, spoiled>> /\ Fine

CloseRefused(p) ==
  /\ p \in v.closes
  /\ Happens([v EXCEPT !.closes = v.closes \ {p}]) /\ Elsewhere
  /\ IF link[p] = "ready" THEN Upset ELSE Fine

-----------------------------------------------------------------------------
(* The stores and the disk change under the supervisor.                    *)
NewsMade(g) ==
  /\ Happens([v EXCEPT !.news = v.news \union {g}]) /\ Elsewhere /\ Upset

FileWanted(f) ==
  /\ f \notin v.missing
  /\ Happens([v EXCEPT !.missing = v.missing \union {f},
                        !.wanted = v.wanted \union {f[1]}])
  /\ Elsewhere /\ Upset

(* The file has been asked for or is queued.                               *)
Sought(f) ==
  \/ \E q \in v.queries : q[2] = f[1] /\ f[2] \in q[3]
  \/ \E p \in Peers : f \in {v.queued[p][i] : i \in DOMAIN v.queued[p]}

(* This node's user adds or removes a missing file, or a peer removes it.  *)
FileSettled(f) ==
  /\ f \in v.missing
  /\ Happens([v EXCEPT !.missing = v.missing \ {f}])
  /\ spoiled' = IF Sought(f) THEN spoiled \union {"vanished"} ELSE spoiled
  /\ UNCHANGED <<link, disk>> /\ Upset

DiskChanges(d) ==
  /\ d # disk /\ disk' = d
  /\ Happens(v) /\ UNCHANGED <<link, spoiled>> /\ Upset
-----------------------------------------------------------------------------
Network ==
  \/ \E asked \in SUBSET Peers : \E up \in SUBSET asked : PresenceAnswered(asked, up)
  \/ \E p \in Peers : \/ PeerConnects(p) \/ DialConnects(p) \/ DialFails(p)
                      \/ DialUnaddressed(p) \/ BecomesReady(p)
                      \/ ClosesUnready(p) \/ IdleCloses(p) \/ ConnectionLost(p)

Rounds ==
  \/ \E p \in Peers, off \in Offering : RoundAnswered(p, off) \/ RoundFails(p, off)
  \/ \E p \in Peers, g \in Groups : GroupSettles(p, g) \/ ReadFails(p, g)
  \/ \E p \in Peers : CloseAgreed(p) \/ CloseRefused(p)

Content ==
  \/ \E q \in v.queries : \/ HoldingsRefused(q)
                          \/ \E held \in SUBSET Paths : HoldingsAnswered(q, held)
  \/ \E b \in v.blobs : \/ BlobDone(b)
                        \/ \E terminal \in BOOLEAN : BlobFails(b, terminal)

User == \/ \E g \in Groups : NewsMade(g)
        \/ \E f \in Files : FileWanted(f) \/ FileSettled(f)
        \/ \E d \in Spaces : DiskChanges(d)

Next == \/ \E t \in Timers : Tick(t)
        \/ Network \/ Rounds \/ Content \/ User
Spec == Init /\ [][Next]_vars

(* The daemon ticks as long as a tick changes anything, and every timer    *)
(* runs out; what is under way ends one way or the other; the server says  *)
(* who is online; the swarm closes a connection that carries nothing.      *)
(* All of it is weak fairness: each condition is that of the step that     *)
(* ends it, and ends with it.  Of queries and transfers that are the same  *)
(* only the first two are said to end.                                     *)
TickIdle == \A order \in Orders : Dispatch(Ticked(<<"none">>, order).v) = v

Fairness ==
  /\ []<>TickIdle \/ []<><<Tick(<<"none">>)>>_vars
  /\ \A t \in Timers \ {<<"none">>} : []<>~Running(t) \/ []<><<Tick(t)>>_vars
  /\ []<>(Steady \subseteq v.online)
  /\ \A p \in Peers :
       /\ []<>(p \notin v.dials) /\ []<>(link[p] # "open")
       /\ []<>(p \notin v.closes) /\ []<>~(link[p] = "ready" /\ p \in quiet)
       /\ \A off \in Offering : []<>(<<p, off>> \notin v.rounds)
       /\ \A g \in Groups :
            /\ []<>(<<p, g>> \notin v.reads)
            /\ \A paths \in SUBSET Paths, id \in 1 .. 2 :
                 []<>(<<p, g, paths, id>> \notin v.queries)
            /\ \A x \in Paths, id \in 1 .. 2 : []<>(<<p, <<g, x>>, id>> \notin v.blobs)
FairSpec == Spec /\ Fairness

-----------------------------------------------------------------------------
(* The supervisor knows the peers whose connection is ready and no others, *)
(* never dials more in a window than it may, and every question it asked   *)
(* has been put by the time its event is over.                             *)
TypeOK ==
  /\ v \in Views /\ v.asks = {} /\ v.proposals = {}
  /\ link \in [Peers -> {"none", "open", "ready"}]
  /\ v.connected = {p \in Peers : link[p] = "ready"}
  /\ quiet \subseteq v.connected /\ disk \in Spaces /\ owed \subseteq Peers
  /\ tries \in [Peers -> Nat] /\ spoiled \subseteq {"leak", "stray", "twice", "vanished"}
  /\ upsets \in 0 .. MaxUpsets

(* However rounds fail, are deferred, time out and are answered late, no   *)
(* peer is put a round more than RETRY_ATTEMPTS times beyond the first     *)
(* before it answers one or is called anew (arm_retry, retries).           *)
TriesBounded == \A p \in Peers : tries[p] <= RetryAttempts + 1

(* What the supervisor counts as transfers of a connected peer is what is  *)
(* under way with it, and over all peers it keeps to MAX_TRANSFERS, however*)
(* connections end with transfers under way (pump, BlobDone, BlobFailed,   *)
(* Gone, Verified).                                                        *)
CountsTrue ==
  /\ \A p \in v.connected :
       v.transfers[p] = Cardinality({b \in v.blobs : b[1] = p})
  /\ RunningTransfers(v) <= MaxTransfers

(* A connected peer is asked for what it holds, and sends files, only for  *)
(* a group it is the source of: no group is pulled from two peers at once  *)
(* (open_pull, continue_pull, release_source), unless a peer was asked for *)
(* a group while a question about the group was open (Twice).              *)
OneSource ==
  spoiled \intersect {"stray", "twice"} = {} =>
    /\ \A q \in v.queries : q[1] \in v.connected => v.source[q[2]] = q[1]
    /\ \A b \in v.blobs : b[1] \in v.connected => v.source[b[2][1]] = b[1]

(* "Each active group missing files downloads from one member at a time,   *)
(* its source" (docs/ac-supervisor.md:121).  It need not: a transfer that  *)
(* ends makes continue_pull give up other groups of that peer, whose       *)
(* question is still open, and then the next source sends too.             *)
OneMember ==
  \A b, c \in v.blobs :
    b[2][1] = c[2][1] /\ {b[1], c[1]} \subseteq v.connected => b[1] = c[1]

(* A group never waits on a source that nothing will move: while it has    *)
(* one, that peer is connected and is asked or will be asked again, sends  *)
(* a file, or has files queued (ask_holdings, on_holdings, resolve_stalled,*)
(* Gone), unless what was asked for or queued came by other means.         *)
SourceDriven ==
  spoiled \intersect {"stray", "twice", "vanished"} = {} =>
    \A g \in Groups : LET p == v.source[g] IN
      p # Nobody =>
        /\ p \in v.connected
        /\ \/ v.transfers[p] > 0 \/ v.queued[p] # <<>>
           \/ v.again[<<p, g>>].armed
           \/ \E q \in v.queries : q[1] = p /\ q[2] = g

(* A peer listed for news while nothing was asked of it leaves the list    *)
(* only once asked, or without a connection once every dial failed (Asked, *)
(* give_up, Gone); no round that fails takes it off (arm_retry).           *)
NewsKept ==
  [][\A p \in owed : (p \in v.pending /\ p \notin v'.pending) =>
        p \notin v.connected /\ v.attempts[p] = DialAttempts]_vars

(* For the liveness properties: no event was lost on the supervisor or     *)
(* came after its peer had gone, and in the end the disk has room.         *)
Undisturbed == [](spoiled \intersect {"leak", "stray"} = {}) /\ <>[](disk = Max(Spaces))

(* No peer stays on the call list for ever: it is called and answers, or   *)
(* is taken off (queue_dials, retries, give_up).                           *)
CallsEnd ==
  Undisturbed => \A p \in Peers : (p \in v.pending) ~> (p \notin v.pending)

(* Whatever fails a bounded number of times, what the group misses arrives *)
(* when the one other member is always online and holds it (content_pulls, *)
(* open_pull, continue_pull, exhaust_group, closes).                       *)
WantedArrive == Undisturbed => <>[](v.missing = {})
=============================================================================
