------------------------------ MODULE Admission ------------------------------
(***************************************************************************)
(* Nodes admitting each other: each connection has both ends prove their   *)
(* enrolment before anything else is spoken (ac-net/src/admission.rs,      *)
(* admission_link.rs, admitted_peers.rs, attest.rs and the connection      *)
(* events of ac-node/src/daemon.rs), with the server of module Enrolment   *)
(* behind them.                                                            *)
(*                                                                         *)
(* The two ends see a connection open and end at their own times; a        *)
(* request travels on any connection its sender has open, is delivered     *)
(* while the other end is, and fails otherwise.  An attestation is its     *)
(* expiry, 0 when there is none.  The quarter of a minute a handshake has  *)
(* may pass between any two steps; when an admitted peer counts as settled *)
(* is left out.                                                            *)
(*                                                                         *)
(* A longer-named definition just before the one it resembles is a mutated *)
(* form that nothing else uses.                                            *)
(***************************************************************************)
EXTENDS Enrolment

CONSTANTS
  Slots,       \* connections two nodes have at a time
  RENEW        \* hours left at which an attestation is renewed

ASSUME AdmissionAssumption == RENEW \in Nat

VARIABLES
  joined, saved,      \* on the disk: the server's address, the attestation
  enrolled, mine,     \* in the daemon: the same
  renewing,           \* the daemons that asked the server for a new one
  peers,              \* each daemon's handshakes
  admitted,           \* whom each daemon has admitted
  due, open,          \* the ends of connections about to open, and open
  alive,              \* the connections that work
  asks, answers       \* attestations and verdicts under way

disk == <<joined, saved>>
credential == <<enrolled, mine, renewing>>
wires == <<due, open, alive>>
talk == <<peers, admitted, asks, answers>>
nodeVars == <<disk, credential, talk, wires>>
vars == <<serverVars, nodeVars>>

Pairs == {p \in Nodes \X Nodes : p[1] # p[2]}
NoHandshake == [here |-> FALSE, sent |-> FALSE, named |-> FALSE, passed |-> FALSE,
                announced |-> FALSE]
NewHandshake == [NoHandshake EXCEPT !.here = TRUE]

Init ==
  /\ EnrolmentInit
  /\ joined = Members /\ enrolled = Members
  /\ mine = [n \in Nodes |-> IF n \in Members THEN time + LIFETIME ELSE 0]
  /\ saved = mine
  /\ renewing = {}
  /\ peers = [p \in Pairs |-> NoHandshake]
  /\ admitted = {}
  /\ due = {} /\ open = {} /\ alive = {}
  /\ asks = {} /\ answers = {}

-----------------------------------------------------------------------------
Wire(n, m, i) == <<{n, m}, i>>
Open(n, m) == {i \in Slots : <<n, m, i>> \in open}
Complete(h) == h.named /\ h.passed
Incomplete(n) == {m \in Nodes \ {n} : peers[<<n, m>>].here /\ ~Complete(peers[<<n, m>>])}
Waiting(n) == {m \in Nodes \ {n} : peers[<<n, m>>].here /\ ~peers[<<n, m>>].sent}
Connecting(n) == {m \in Nodes : Open(n, m) # {}}

VerifiesAtAnyAge(e) == e # 0

Verifies(e) == time < e

NeedsRenewal(e) == e = 0 \/ e <= time + RENEW

(* send_ours: the attestation goes out once per handshake, on any of the   *)
(* connections that are open, when there is one to send.                   *)
Sent(h, e) == [h EXCEPT !.sent = h.sent \/ e # 0]
Offer(n, m, e, i) == [from |-> n, to |-> m, at |-> i, e |-> e]
Offers(n, m, h, e, via) ==
  IF h.sent \/ e = 0 THEN {{}} ELSE {{Offer(n, m, e, i)} : i \in via}

(* settle: a handshake that completes is announced, once, and the peer is  *)
(* then admitted.                                                          *)
Announced(h) == [h EXCEPT !.announced = Complete(h)]
Admitting(n, m, h) == IF Complete(h) /\ ~h.announced THEN {<<n, m>>} ELSE {}

(* close: the handshake is forgotten and every connection that is open     *)
(* ends.                                                                   *)
Cut(n, ms) == {w \in alive : \E m \in ms, i \in Slots : w = Wire(n, m, i) /\ i \in Open(n, m)}
Forget(n, ms) == [p \in Pairs |-> IF p[1] = n /\ p[2] \in ms THEN NoHandshake ELSE peers[p]]

-----------------------------------------------------------------------------
Unused(n, m, i) ==
  /\ Wire(n, m, i) \notin alive
  /\ {<<n, m, i>>, <<m, n, i>>} \intersect (due \union open) = {}
  /\ \A x \in asks \union answers : x.at # i

(* One of two nodes dials the other.                                       *)
Dial(n, m, i) ==
  /\ Change
  /\ Unused(n, m, i) /\ \A j \in 1 .. i - 1 : ~Unused(n, m, j)
  /\ alive' = alive \union {Wire(n, m, i)}
  /\ due' = due \union {<<n, m, i>>, <<m, n, i>>}
  /\ UNCHANGED <<server, disk, credential, talk, open>>

Greeted(h) == IF h.here THEN [h EXCEPT !.sent = FALSE] ELSE NewHandshake

(* An end opens: the exchange begins, or begins again.                     *)
Connected(n, m, i) ==
  /\ <<n, m, i>> \in due
  /\ n \in enrolled
  /\ due' = due \ {<<n, m, i>>} /\ open' = open \union {<<n, m, i>>}
  /\ \E new \in Offers(n, m, Greeted(peers[<<n, m>>]), mine[n], Open(n, m) \union {i}) :
       asks' = asks \union new
  /\ peers' = [peers EXCEPT ![<<n, m>>] = Sent(Greeted(@), mine[n])]
  /\ UNCHANGED <<serverVars, disk, credential, admitted, answers, alive>>

(* A node that has not joined can verify nobody.                           *)
ConnectedUnjoined(n, m, i) ==
  /\ <<n, m, i>> \in due
  /\ n \notin enrolled
  /\ due' = due \ {<<n, m, i>>} /\ open' = open \union {<<n, m, i>>}
  /\ alive' = alive \ (Cut(n, {m}) \union {Wire(n, m, i)})
  /\ peers' = Forget(n, {m})
  /\ UNCHANGED <<serverVars, disk, credential, admitted, asks, answers>>

StillConnectedNever(n, m) == FALSE

StillConnected(n, m) == Open(n, m)' # {}

(* An end sees its connection ended; with the last of them goes what was   *)
(* known of the peer.                                                      *)
Disconnected(n, m, i) ==
  /\ <<n, m, i>> \in open /\ Wire(n, m, i) \notin alive
  /\ open' = open \ {<<n, m, i>>}
  /\ IF StillConnected(n, m) THEN UNCHANGED <<peers, admitted>>
     ELSE /\ peers' = Forget(n, {m})
          /\ admitted' = admitted \ {<<n, m>>}
  /\ UNCHANGED <<serverVars, disk, credential, asks, answers, due, alive>>

(* It ended before it was seen to open.                                    *)
NeverOpens(n, m, i) ==
  /\ <<n, m, i>> \in due /\ Wire(n, m, i) \notin alive
  /\ due' = due \ {<<n, m, i>>}
  /\ UNCHANGED <<serverVars, disk, credential, talk, open, alive>>

WireBreaks(w) ==
  /\ Change
  /\ w \in alive
  /\ alive' = alive \ {w}
  /\ UNCHANGED <<server, disk, credential, talk, due, open>>

-----------------------------------------------------------------------------
Dead(x) == Wire(x.from, x.to, x.at) \notin alive
Arrives(x) == <<x.to, x.from, x.at>> \in open
Verdict(x, ok) == [from |-> x.to, to |-> x.from, at |-> x.at, ok |-> ok]

(* A peer's attestation arrives and is good: it is named, answered, and    *)
(* sent ours.                                                              *)
Accepts(x) ==
  LET n == x.to  m == x.from
      h == [(IF peers[<<n, m>>].here THEN peers[<<n, m>>] ELSE NewHandshake) EXCEPT !.named = TRUE] IN
  /\ x \in asks /\ Arrives(x) /\ ~Dead(x)
  /\ n \in enrolled /\ Verifies(x.e)
  /\ \E new \in Offers(n, m, h, mine[n], Open(n, m)) : asks' = (asks \ {x}) \union new
  /\ answers' = answers \union {Verdict(x, TRUE)}
  /\ peers' = [peers EXCEPT ![<<n, m>>] = Announced(Sent(h, mine[n]))]
  /\ admitted' = admitted \union Admitting(n, m, h)
  /\ UNCHANGED <<serverVars, disk, credential, wires>>

Rejects(x) ==
  LET n == x.to  m == x.from IN
  /\ x \in asks /\ Arrives(x) /\ ~Dead(x)
  /\ ~(n \in enrolled /\ Verifies(x.e))
  /\ asks' = asks \ {x}
  /\ answers' = answers \union {Verdict(x, FALSE)}
  /\ peers' = Forget(n, {m})
  /\ alive' = alive \ Cut(n, {m})
  /\ UNCHANGED <<serverVars, disk, credential, admitted, due, open>>

Accepted(x) ==
  LET n == x.to  m == x.from  h == [peers[<<n, m>>] EXCEPT !.passed = TRUE] IN
  /\ x \in answers /\ Arrives(x) /\ ~Dead(x)
  /\ x.ok
  /\ answers' = answers \ {x}
  /\ IF peers[<<n, m>>].here
     THEN /\ peers' = [peers EXCEPT ![<<n, m>>] = Announced(h)]
          /\ admitted' = admitted \union Admitting(n, m, h)
     ELSE UNCHANGED <<peers, admitted>>
  /\ UNCHANGED <<serverVars, disk, credential, asks, wires>>

(* The peer ends the connection as it answers so: the answer may come      *)
(* before that end is seen, or fail with it.                               *)
Rejected(x) ==
  /\ x \in answers /\ Arrives(x)
  /\ ~x.ok
  /\ answers' = answers \ {x}
  /\ peers' = Forget(x.to, {x.from})
  /\ alive' = alive \ Cut(x.to, {x.from})
  /\ UNCHANGED <<serverVars, disk, credential, admitted, asks, due, open>>

(* A request, or the answer to it, is lost with its connection: whoever    *)
(* asked is to ask again.                                                  *)
ExchangeFailed(n, m) ==
  IF peers[<<n, m>>].here THEN peers' = [peers EXCEPT ![<<n, m>>].sent = FALSE] ELSE UNCHANGED peers

AskFails(x) ==
  /\ x \in asks /\ Dead(x)
  /\ asks' = asks \ {x}
  /\ ExchangeFailed(x.from, x.to)
  /\ UNCHANGED <<serverVars, disk, credential, admitted, answers, wires>>

AnswerFails(x) ==
  /\ x \in answers /\ Dead(x)
  /\ answers' = answers \ {x}
  /\ ExchangeFailed(x.to, x.from)
  /\ UNCHANGED <<serverVars, disk, credential, admitted, asks, wires>>

-----------------------------------------------------------------------------
Between(n, m) == {x \in asks \union answers : {x.from, x.to} = {n, m}}
                 \union {d \in due : {d[1], d[2]} = {n, m}}

TimedOutNever(n) == {{}}

(* Those who have been incomplete for too long.  A request fails before    *)
(* that, so with one still under way this is a mishap.                     *)
TimedOut(n) == SUBSET Incomplete(n)

Reachable(n) == service[n].open # service[n].closing

(* The tick of five seconds: renew, send to who still waits for it, close  *)
(* those whose time is up.                                                 *)
Tick(n) ==
  /\ renewing' = renewing \union (IF n \in enrolled /\ NeedsRenewal(mine[n]) /\ Reachable(n)
                                  THEN {n} ELSE {})
  /\ \E late \in TimedOut(n), via \in [Waiting(n) -> Slots] :
       /\ \A m \in Waiting(n) : via[m] \in Open(n, m)
       /\ asks' = asks \union
            (IF mine[n] = 0 THEN {} ELSE {Offer(n, m, mine[n], via[m]) : m \in Waiting(n)})
       /\ peers' = [p \in Pairs |->
            IF p[1] # n \/ ~peers[p].here THEN peers[p]
            ELSE IF p[2] \in late THEN NoHandshake ELSE Sent(peers[p], mine[n])]
       /\ alive' = alive \ Cut(n, late)
       /\ IF \E m \in late \union Waiting(n) : Between(n, m) # {} THEN Change ELSE UNCHANGED changes
  /\ UNCHANGED <<server, disk, enrolled, mine, admitted, due, open, answers>>

(* The server answers, and the answer arrives: one for the enrolled, none  *)
(* for the rest.                                                           *)
UsernameOf(n) == IsEnrolled(n)

Renewed(n) ==
  /\ n \in renewing /\ Reachable(n)
  /\ UsernameOf(n)
  /\ renewing' = renewing \ {n}
  /\ mine' = [mine EXCEPT ![n] = time + LIFETIME]
  /\ saved' = [saved EXCEPT ![n] = time + LIFETIME]
  /\ \E via \in [Waiting(n) -> Slots] :
       /\ \A m \in Waiting(n) : via[m] \in Open(n, m)
       /\ asks' = asks \union {Offer(n, m, time + LIFETIME, via[m]) : m \in Waiting(n)}
  /\ peers' = [p \in Pairs |-> IF p[1] = n /\ peers[p].here THEN [peers[p] EXCEPT !.sent = TRUE]
                               ELSE peers[p]]
  /\ UNCHANGED <<serverVars, joined, enrolled, admitted, wires, answers>>

NotRenewed(n) ==
  /\ n \in renewing
  /\ ~(Reachable(n) /\ UsernameOf(n))
  /\ renewing' = renewing \ {n}
  /\ UNCHANGED <<serverVars, disk, enrolled, mine, talk, wires>>

-----------------------------------------------------------------------------
(* The command, which may be given again, ends with the server's address   *)
(* and the attestation on the disk, or without the answer that has them.   *)
Joins(n, c) ==
  /\ Redeem(n, c)
  /\ joined' = joined \union {n}
  /\ saved' = [saved EXCEPT ![n] = time + LIFETIME]
  /\ UNCHANGED <<changes, credential, talk, wires>>

JoinUnanswered(n, c) ==
  /\ Change
  /\ Redeem(n, c)
  /\ UNCHANGED <<disk, credential, talk, wires>>

(* The daemon starts again, at any time or to find what the command left.  *)
Restart(n) ==
  /\ IF n \in joined \ enrolled THEN UNCHANGED changes ELSE Change
  /\ enrolled' = enrolled \union ({n} \intersect joined)
  /\ mine' = [mine EXCEPT ![n] = IF n \in joined /\ Verifies(saved[n]) THEN saved[n] ELSE 0]
  /\ renewing' = renewing \ {n}
  /\ peers' = Forget(n, Nodes)
  /\ admitted' = {p \in admitted : p[1] # n}
  /\ due' = {d \in due : d[1] # n} /\ open' = {o \in open : o[1] # n}
  /\ alive' = {w \in alive : n \notin w[1]}
  /\ asks' = {x \in asks : x.from # n} /\ answers' = {x \in answers : x.to # n}
  /\ service' = [service EXCEPT ![n].closing = service[n].open]
  /\ UNCHANGED <<time, tables, atGate, disk>>

(* A client dials the server's service listener, which it may have to do   *)
(* before the server has seen the connection it had end.                   *)
ReachesServer(n, way) ==
  /\ n \in enrolled
  /\ IF Reachable(n) THEN Change ELSE UNCHANGED changes
  /\ ServiceOpens(n, way)
  /\ UNCHANGED <<disk, credential, talk, wires>>

LosesServer(n, way) ==
  /\ IF way \in service[n].closing THEN UNCHANGED changes ELSE Change
  /\ ServiceCloses(n, way)
  /\ UNCHANGED <<disk, credential, talk, wires>>

Quiet ==
  /\ due = {} /\ asks = {} /\ answers = {} /\ renewing = {}
  /\ \A o \in open : Wire(o[1], o[2], o[3]) \in alive
  /\ \A n \in Nodes : Incomplete(n) = {}

HourPasses == Quiet /\ TimePasses /\ UNCHANGED nodeVars

ServerAlone ==
  /\ \/ \E c \in Codes : Invite(c)
     \/ \E n \in Nodes : Revoke(n) \/ Unrevoke(n) \/ EntersGate(n) \/ LeavesGate(n)
     \/ DisconnectRevoked
  /\ UNCHANGED nodeVars

Links ==
  \E p \in Pairs, i \in Slots :
    \/ Connected(p[1], p[2], i) \/ ConnectedUnjoined(p[1], p[2], i)
    \/ Disconnected(p[1], p[2], i) \/ NeverOpens(p[1], p[2], i)

Exchange ==
  \/ \E x \in asks : Accepts(x) \/ Rejects(x) \/ AskFails(x)
  \/ \E x \in answers : Accepted(x) \/ Rejected(x) \/ AnswerFails(x)

Next ==
  \/ Links \/ Exchange
  \/ \E p \in Pairs, i \in Slots : Dial(p[1], p[2], i)
  \/ \E w \in alive : WireBreaks(w)
  \/ \E n \in Nodes :
       \/ Tick(n) \/ Renewed(n) \/ NotRenewed(n) \/ Restart(n)
       \/ \E c \in Codes : Joins(n, c) \/ JoinUnanswered(n, c)
       \/ \E way \in Ways : ReachesServer(n, way) \/ LosesServer(n, way)
  \/ HourPasses
  \/ ServerAlone

Spec == Init /\ [][Next]_vars

(* The daemon's loop handles every event of the swarm and every tick, and  *)
(* a handshake that goes on gets as old as it may.                         *)
Seeing == due # {} \/ \E o \in open : Wire(o[1], o[2], o[3]) \notin alive
Talking == asks # {} \/ answers # {}
Overdue(n) == {m \in Incomplete(n) : Between(n, m) = {}}
CloseLate(n) == Overdue(n) # {} /\ Tick(n) /\ Incomplete(n)' \subseteq Incomplete(n) \ Overdue(n)

FairSpec ==
  /\ Spec
  /\ []<>~Seeing \/ []<><<Links>>_vars
  /\ []<>~Talking \/ []<><<Exchange>>_vars
  /\ \A n \in Nodes : WF_vars(CloseLate(n))

-----------------------------------------------------------------------------
TypeOK ==
  /\ EnrolmentTypeOK
  /\ joined \subseteq Nodes /\ enrolled \subseteq joined /\ renewing \subseteq enrolled
  /\ saved \in [Nodes -> 0 .. MaxTime + LIFETIME] /\ mine \in [Nodes -> 0 .. MaxTime + LIFETIME]
  /\ peers \in [Pairs -> [here : BOOLEAN, sent : BOOLEAN, named : BOOLEAN, passed : BOOLEAN,
                          announced : BOOLEAN]]
  /\ admitted \subseteq Pairs
  /\ due \subseteq Nodes \X Nodes \X Slots /\ open \subseteq Nodes \X Nodes \X Slots

(* Whoever is connected is watched: an open end of a working connection    *)
(* has a handshake, which is complete or has a deadline, and nothing is    *)
(* known of, or spoken with, a peer whose last connection is gone          *)
(* (connected, disconnected, close and dispatch, whatever the order the    *)
(* two ends see connections come and go in).                               *)
EveryoneWatched ==
  \A p \in Pairs :
    /\ (\E i \in Open(p[1], p[2]) : Wire(p[1], p[2], i) \in alive) => peers[p].here
    /\ Complete(peers[p]) => p \in admitted
    /\ peers[p].here \/ p \in admitted => Open(p[1], p[2]) # {}

(* A revoked client is newly admitted for as long as an attestation lasts  *)
(* and no longer (username_of, verify, load).                              *)
RevokedShutOut ==
  [][\A p \in admitted' \ admitted : IsRevoked(p[2]) => time < clients[p[2]].revoked + LIFETIME]_vars

(* A connection is never left open with one side proven, or neither: both  *)
(* ends admit each other or it is closed (HANDSHAKE_TIMEOUT, tick,         *)
(* exchange_failed).                                                       *)
LinksDecided ==
  \A p \in Pairs, i \in Slots :
    i \in Open(p[1], p[2]) ~> \/ i \notin Open(p[1], p[2])
                              \/ {p, <<p[2], p[1]>>} \subseteq admitted
=============================================================================
