--------------------------- MODULE AdmissionProofs ---------------------------
(***************************************************************************)
(* Admission and the server behind it, for any nodes, codes, connections   *)
(* and lifetimes.  The invariant IInv has, besides the types and the two   *)
(* properties it carries, what the server's tables say of each client, how *)
(* long an attestation that is kept or under way can last, and what a      *)
(* handshake stands for.  One lemma for each action; NodeStep is what they *)
(* all end with.                                                           *)
(***************************************************************************)
EXTENDS Admission, TLAPS

Attestation == 0 .. MaxTime + LIFETIME
Handshake == [here : BOOLEAN, sent : BOOLEAN, named : BOOLEAN, passed : BOOLEAN,
              announced : BOOLEAN]
Asking == {x \in [from : Nodes, to : Nodes, at : Slots, e : Attestation] : x.from # x.to}
Answering == {x \in [from : Nodes, to : Nodes, at : Slots, ok : BOOLEAN] : x.from # x.to}

Typed == TypeOK /\ asks \subseteq Asking /\ answers \subseteq Answering

(* Whoever was revoked has a row, was revoked in the past, and, when still *)
(* at the gate, this hour.                                                 *)
Recorded ==
  \A n \in Nodes :
    /\ clients[n].revoked # 0 => clients[n].row
    /\ clients[n].revoked <= time
    /\ n \in atGate /\ IsRevoked(n) => clients[n].revoked = time

(* An attestation of n may last until e, and a revoked client's was issued *)
(* before it was revoked.                                                  *)
MayLast(n, e) ==
  /\ e <= time + LIFETIME
  /\ IsRevoked(n) => e <= clients[n].revoked + LIFETIME

Lasting ==
  /\ \A n \in Nodes : MayLast(n, mine[n]) /\ MayLast(n, saved[n])
  /\ \A x \in asks : MayLast(x.from, x.e)

(* Whom it is not yet too late to admit.                                   *)
Entitled(m) == IsRevoked(m) => time < clients[m].revoked + LIFETIME

(* A handshake says nothing when there is none, is announced when and only *)
(* when complete, and names only who may still be admitted as long as it   *)
(* is not complete.                                                        *)
Sound(m, h) ==
  /\ h \in Handshake
  /\ ~h.here => ~h.named /\ ~h.passed
  /\ h.announced <=> Complete(h)
  /\ h.named /\ ~h.passed => Entitled(m)

Handshakes ==
  \A p \in Pairs : Sound(p[2], peers[p]) /\ (Complete(peers[p]) => p \in admitted)

IInv == Typed /\ OneWayIn /\ Recorded /\ Lasting /\ Handshakes /\ EveryoneWatched

-----------------------------------------------------------------------------
LEMMA PairIs ==
  /\ \A p \in Pairs : p = <<p[1], p[2]>> /\ p[1] \in Nodes /\ p[2] \in Nodes /\ p[1] # p[2]
  /\ \A n, m \in Nodes : n # m => <<n, m>> \in Pairs
  BY DEF Pairs

LEMMA SentHandshake ==
  ASSUME NEW h \in Handshake, NEW e, NEW m, Sound(m, h)
  PROVE  /\ Sound(m, Sent(h, e))
         /\ Sent(h, e).here = h.here /\ (Complete(Sent(h, e)) <=> Complete(h))
         /\ Sent(h, e).announced = h.announced
  BY DEF Sent, Sound, Handshake, Complete

LEMMA GreetedHandshake ==
  ASSUME NEW h \in Handshake, NEW m, Sound(m, h)
  PROVE  /\ Greeted(h) \in Handshake /\ Sound(m, Greeted(h)) /\ Greeted(h).here
         /\ Complete(Greeted(h)) <=> Complete(h)
  BY DEF Greeted, Sound, Handshake, Complete, NewHandshake, NoHandshake

LEMMA WireSame ==
  ASSUME NEW a, NEW b, NEW i, NEW n, NEW m, NEW j, Wire(a, b, i) = Wire(n, m, j)
  PROVE  i = j /\ ((a = n /\ b = m) \/ (a = m /\ b = n))
  BY DEF Wire

(* What the nodes rely on of a step of the server: nobody loses the right  *)
(* to be admitted, and no attestation lasts longer than it may.            *)
Relied ==
  /\ EnrolmentTypeOK' /\ OneWayIn' /\ Recorded'
  /\ \A m \in Nodes : /\ Entitled(m) => Entitled(m)'
                      /\ \A e \in Attestation : MayLast(m, e) => MayLast(m, e)'

LEMMA ServerStays ==
  ASSUME IInv, UNCHANGED server, changes' \in 0 .. MaxChanges
  PROVE  Relied
  BY DEF Relied, IInv, Typed, TypeOK, EnrolmentTypeOK, OneWayIn, Recorded, Entitled, MayLast,
         IsRevoked, server

(* The parts of EveryoneWatched, for a pair.                               *)
Attached(p) == \E i \in Slots : <<p[1], p[2], i>> \in open
Live(p) == \E i \in Slots : <<p[1], p[2], i>> \in open /\ Wire(p[1], p[2], i) \in alive
Watched(p) ==
  /\ Live(p) => peers[p].here
  /\ Complete(peers[p]) => p \in admitted
  /\ peers[p].here \/ p \in admitted => Attached(p)

LEMMA WatchedIs == EveryoneWatched <=> \A p \in Pairs : Watched(p)
  BY DEF EveryoneWatched, Watched, Attached, Live, Open

LEMMA WatchedIsThen == EveryoneWatched' <=> \A p \in Pairs : Watched(p)'
  BY DEF EveryoneWatched, Watched, Attached, Live, Open

LEMMA Changing == ASSUME IInv PROVE changes \in 0 .. MaxChanges /\ (Change => changes' \in 0 .. MaxChanges)
  BY EnrolmentAssumption DEF IInv, Typed, TypeOK, EnrolmentTypeOK, Change

(* What is kept on the disk and in the daemons.                            *)
Credentials ==
  /\ joined \subseteq Nodes /\ enrolled \subseteq joined /\ renewing \subseteq enrolled
  /\ saved \in [Nodes -> Attestation] /\ mine \in [Nodes -> Attestation]
  /\ \A n \in Nodes : MayLast(n, mine[n]) /\ MayLast(n, saved[n])

LEMMA CredentialsHold == ASSUME IInv PROVE Credentials
  BY DEF IInv, Typed, TypeOK, Credentials, Lasting, Attestation

LEMMA CredentialsStay ==
  ASSUME IInv, Relied, UNCHANGED <<disk, credential>>
  PROVE  Credentials'
<1>1. Credentials
  BY CredentialsHold
<1> QED BY <1>1 DEF Credentials, disk, credential, Relied

LEMMA ServerAside ==
  ASSUME IInv, UNCHANGED <<server, disk, credential>>, changes' \in 0 .. MaxChanges
  PROVE  Relied /\ Credentials'
  BY ServerStays, CredentialsStay

(* What is left to show of a step of the nodes.                            *)
LEMMA NodeStep ==
  ASSUME IInv, Relied, Credentials',
         peers' \in [Pairs -> Handshake], admitted' \subseteq Pairs,
         due' \subseteq Nodes \X Nodes \X Slots, open' \subseteq Nodes \X Nodes \X Slots,
         asks' \subseteq Asking, answers' \subseteq Answering,
         \A x \in asks' : x \in asks \/ MayLast(x.from, x.e),
         \A p \in Pairs : Sound(p[2], peers'[p]) /\ Watched(p)'
  PROVE  IInv'
<1>1. Typed'
  BY DEF Typed, TypeOK, Credentials, Handshake, Attestation, Relied
<1>2. Lasting'
  <2>1. ASSUME NEW x \in asks' PROVE MayLast(x.from, x.e)'
    <3>1. x.from \in Nodes /\ x.e \in Attestation /\ MayLast(x.from, x.e)
      BY <2>1 DEF Asking, IInv, Lasting
    <3> QED BY <3>1 DEF Relied
  <2> QED BY <2>1 DEF Lasting, Credentials
<1>3. Handshakes'
  <2>1. ASSUME NEW m \in Nodes, NEW h, Sound(m, h) PROVE Sound(m, h)'
    BY <2>1 DEF Sound, Relied
  <2>2. ASSUME NEW p \in Pairs PROVE Sound(p[2], peers[p])'
    BY <2>1, PairIs
  <2> QED BY <2>2 DEF Handshakes, Watched
<1>4. EveryoneWatched'
  BY WatchedIsThen
<1> QED BY <1>1, <1>2, <1>3, <1>4 DEF IInv, Relied

LEMMA OfferTyped ==
  ASSUME IInv, NEW n \in Nodes, NEW m \in Nodes, n # m, NEW e \in Attestation, MayLast(n, e),
         NEW h, NEW via \in SUBSET Slots, NEW new \in Offers(n, m, h, e, via)
  PROVE  new \subseteq Asking /\ \A x \in new : MayLast(x.from, x.e)
<1>1. CASE h.sent \/ e = 0
  BY <1>1 DEF Offers
<1>2. CASE ~(h.sent \/ e = 0)
  <2>1. PICK i \in via : new = {Offer(n, m, e, i)}
    BY <1>2 DEF Offers
  <2> QED BY <2>1 DEF Offer, Asking
<1> QED BY <1>1, <1>2

(* What is known before a step, of a pair and of its handshake.            *)
LEMMA Before ==
  ASSUME IInv
  PROVE  /\ peers \in [Pairs -> Handshake] /\ admitted \subseteq Pairs
         /\ due \subseteq Nodes \X Nodes \X Slots /\ open \subseteq Nodes \X Nodes \X Slots
         /\ asks \subseteq Asking /\ answers \subseteq Answering
         /\ \A p \in Pairs : Sound(p[2], peers[p]) /\ Watched(p)
         /\ \A n, m : Open(n, m) \subseteq Slots
         /\ \A n \in Nodes : mine[n] \in Attestation /\ MayLast(n, mine[n])
  BY WatchedIs DEF IInv, Typed, TypeOK, Handshake, Handshakes, Open, Lasting, Attestation

(* A handshake forgotten is sound, and no other changes.                   *)
LEMMA Forgotten ==
  ASSUME IInv, NEW n, NEW ms
  PROVE  /\ Forget(n, ms) \in [Pairs -> Handshake]
         /\ \A p \in Pairs : /\ Sound(p[2], Forget(n, ms)[p])
                             /\ Complete(Forget(n, ms)[p]) => Complete(peers[p])
                             /\ Forget(n, ms)[p].here =>
                                  peers[p].here /\ ~(p[1] = n /\ p[2] \in ms)
                             /\ ~(p[1] = n /\ p[2] \in ms) => Forget(n, ms)[p] = peers[p]
<1>1. NoHandshake \in Handshake /\ ~Complete(NoHandshake) /\ ~NoHandshake.here /\ \A m : Sound(m, NoHandshake)
  BY DEF NoHandshake, Handshake, Complete, Sound
<1>2. \A p \in Pairs : Sound(p[2], peers[p]) /\ peers[p] \in Handshake
  BY Before
<1> QED BY <1>1, <1>2 DEF Forget

(* An end opens: the handshake begins, or is as complete as before.        *)
LEMMA ConnectedStep ==
  ASSUME IInv, NEW n \in Nodes, NEW m \in Nodes, n # m, NEW i \in Slots, Connected(n, m, i)
  PROVE  IInv'
<1> DEFINE h == peers[<<n, m>>]
           g == Sent(Greeted(h), mine[n])
<1>1. <<n, m>> \in Pairs /\ h \in Handshake /\ Sound(m, h)
  BY PairIs, Before
<1>2. PICK new \in Offers(n, m, Greeted(h), mine[n], Open(n, m) \union {i}) : asks' = asks \union new
  BY DEF Connected
<1>3. new \subseteq Asking /\ \A x \in new : MayLast(x.from, x.e)
  BY <1>2, Before, OfferTyped
<1>4. /\ UNCHANGED server /\ changes' = changes /\ UNCHANGED <<disk, credential, admitted, answers, alive>>
      /\ open' = open \union {<<n, m, i>>} /\ due' \subseteq due
      /\ peers' = [peers EXCEPT ![<<n, m>>] = g]
  BY DEF Connected, serverVars
<1>5. Sound(m, g) /\ g.here /\ (Complete(g) <=> Complete(h)) /\ g \in Handshake
  BY <1>1, SentHandshake, GreetedHandshake DEF Sound
<1> HIDE DEF h, g
<1>6. ASSUME NEW p \in Pairs PROVE Sound(p[2], peers'[p]) /\ Watched(p)'
  <2>1. Watched(p) /\ Sound(p[2], peers[p])
    BY Before
  <2>2. CASE p = <<n, m>>
    BY <1>4, <1>5, <2>1, <2>2, Before DEF Watched, Attached, Live, h
  <2>3. CASE p # <<n, m>>
    <3>1. peers'[p] = peers[p] /\ (Attached(p)' <=> Attached(p)) /\ (Live(p)' <=> Live(p))
      BY <1>4, <2>3, PairIs, Before DEF Attached, Live
    <3> QED BY <1>4, <2>1, <3>1 DEF Watched
  <2> QED BY <2>2, <2>3
<1>7. peers' \in [Pairs -> Handshake] /\ asks' \subseteq Asking
      /\ open' \subseteq Nodes \X Nodes \X Slots /\ due' \subseteq Nodes \X Nodes \X Slots
  BY <1>1, <1>2, <1>3, <1>4, <1>5, Before
<1>8. Relied /\ Credentials'
  BY <1>4, Changing, ServerAside
<1> QED BY <1>2, <1>3, <1>4, <1>6, <1>7, <1>8, Before, NodeStep

(* Whoever is cut off has no live connection, and nobody gets one.         *)
LEMMA CutLive ==
  ASSUME NEW n, NEW ms, alive' \subseteq alive \ Cut(n, ms), open \subseteq open',
         \A o \in open' : o \in open \/ Wire(o[1], o[2], o[3]) \notin alive', NEW p
  PROVE  /\ Live(p)' => Live(p) /\ ~(p[1] = n /\ p[2] \in ms)
         /\ Attached(p) => Attached(p)'
<1>1. ASSUME NEW i \in Slots, <<p[1], p[2], i>> \in open', Wire(p[1], p[2], i) \in alive'
      PROVE  <<p[1], p[2], i>> \in open /\ Wire(p[1], p[2], i) \in alive /\ ~(p[1] = n /\ p[2] \in ms)
  <2>1. <<p[1], p[2], i>> \in open
    BY <1>1
  <2>2. Wire(p[1], p[2], i) \in alive /\ Wire(p[1], p[2], i) \notin Cut(n, ms)
    BY <1>1
  <2>3. ASSUME p[1] = n, p[2] \in ms PROVE FALSE
    <3>1. i \in Open(n, p[2])
      BY <2>1, <2>3 DEF Open
    <3>2. Wire(p[1], p[2], i) = Wire(n, p[2], i)
      BY <2>3
    <3> QED BY <2>2, <2>3, <3>1, <3>2 DEF Cut
  <2> QED BY <2>1, <2>2, <2>3
<1>2. Live(p)' => Live(p) /\ ~(p[1] = n /\ p[2] \in ms)
  BY <1>1 DEF Live
<1> QED BY <1>2 DEF Attached

(* A peer is closed and forgotten.                                         *)
LEMMA CloseStep ==
  ASSUME IInv, UNCHANGED <<serverVars, disk, credential, admitted>>, asks' \subseteq asks,
         NEW n \in Nodes, NEW m \in Nodes, n # m,
         peers' = Forget(n, {m}), alive' \subseteq alive \ Cut(n, {m}), open \subseteq open',
         \A o \in open' : o \in open \/ Wire(o[1], o[2], o[3]) \notin alive',
         open' \subseteq Nodes \X Nodes \X Slots, due' \subseteq due, answers' \subseteq Answering
  PROVE  IInv'
<1>1. ASSUME NEW p \in Pairs PROVE Sound(p[2], peers'[p]) /\ Watched(p)'
  <2>1. Watched(p)
    BY Before
  <2>2. /\ Sound(p[2], peers'[p]) /\ (Complete(peers'[p]) => Complete(peers[p]))
        /\ peers'[p].here => peers[p].here
        /\ ~(p[1] = n /\ p[2] \in {m}) => peers'[p] = peers[p]
    BY Forgotten
  <2>3. (Live(p)' => Live(p) /\ ~(p[1] = n /\ p[2] \in {m})) /\ (Attached(p) => Attached(p)')
    BY CutLive
  <2> QED BY <2>1, <2>2, <2>3 DEF Watched
<1>2. peers' \in [Pairs -> Handshake]
  BY Forgotten
<1>3. Relied /\ Credentials'
  BY Changing, ServerAside DEF serverVars
<1> QED BY <1>1, <1>2, <1>3, Before, NodeStep

LEMMA ConnectedUnjoinedStep ==
  ASSUME IInv, NEW n \in Nodes, NEW m \in Nodes, n # m, NEW i \in Slots, ConnectedUnjoined(n, m, i)
  PROVE  IInv'
<1>1. /\ UNCHANGED <<serverVars, disk, credential, admitted, asks, answers>>
      /\ peers' = Forget(n, {m}) /\ alive' = alive \ (Cut(n, {m}) \union {Wire(n, m, i)})
      /\ open' = open \union {<<n, m, i>>} /\ due' \subseteq due
  BY DEF ConnectedUnjoined
<1>2. \A o \in open' : o \in open \/ Wire(o[1], o[2], o[3]) \notin alive'
  BY <1>1
<1> QED BY <1>1, <1>2, Before, CloseStep

LEMMA DisconnectedStep ==
  ASSUME IInv, NEW n \in Nodes, NEW m \in Nodes, n # m, NEW i \in Slots, Disconnected(n, m, i)
  PROVE  IInv'
<1>1. /\ UNCHANGED server /\ changes' = changes
      /\ UNCHANGED <<disk, credential, asks, answers, due, alive>>
      /\ Wire(n, m, i) \notin alive /\ open' = open \ {<<n, m, i>>}
  BY DEF Disconnected, serverVars
<1>2. /\ peers' \in [Pairs -> Handshake] /\ admitted' \subseteq admitted
      /\ \A p \in Pairs : Sound(p[2], peers'[p])
      /\ \A p \in Pairs : p # <<n, m>> => peers'[p] = peers[p] /\ (p \in admitted' <=> p \in admitted)
      /\ \/ Attached(<<n, m>>)' /\ UNCHANGED <<peers, admitted>>
         \/ (~Attached(<<n, m>>)') /\ ~peers'[<<n, m>>].here /\ <<n, m>> \notin admitted'
  <2>1. CASE StillConnected(n, m)
    <3>1. Attached(<<n, m>>)'
      BY <2>1 DEF StillConnected, Open, Attached
    <3> QED BY <2>1, <3>1, Before DEF Disconnected
  <2>2. CASE ~StillConnected(n, m)
    <3>1. peers' = Forget(n, {m}) /\ admitted' = admitted \ {<<n, m>>} /\ ~Attached(<<n, m>>)'
      BY <2>2 DEF Disconnected, StillConnected, Open, Attached
    <3>2. <<n, m>> \in Pairs /\ \A p \in Pairs : p # <<n, m>> => ~(p[1] = n /\ p[2] \in {m})
      BY PairIs
    <3> QED BY <3>1, <3>2, Forgotten
  <2> QED BY <2>1, <2>2
<1>3. ASSUME NEW p \in Pairs PROVE Watched(p)'
  <2>1. Watched(p) /\ (Live(p)' => Live(p))
    BY <1>1, Before DEF Live
  <2>2. CASE p = <<n, m>>
    <3>1. CASE Attached(<<n, m>>)' /\ UNCHANGED <<peers, admitted>>
      BY <2>1, <2>2, <3>1 DEF Watched
    <3>2. CASE ~Attached(<<n, m>>)' /\ ~peers'[<<n, m>>].here /\ <<n, m>> \notin admitted'
      <4>1. ~Complete(peers'[p])
        BY <1>2, <2>2, <3>2 DEF Sound, Complete
      <4>2. ~Live(p)'
        BY <2>2, <3>2 DEF Live, Attached
      <4> QED BY <2>2, <3>2, <4>1, <4>2 DEF Watched
    <3> QED BY <1>2, <3>1, <3>2
  <2>3. CASE p # <<n, m>>
    <3>1. Attached(p)' <=> Attached(p)
      BY <1>1, <2>3, PairIs DEF Attached
    <3> QED BY <1>2, <2>1, <2>3, <3>1 DEF Watched
  <2> QED BY <2>2, <2>3
<1>4. Relied /\ Credentials'
  BY <1>1, Changing, ServerAside
<1>5. open' \subseteq Nodes \X Nodes \X Slots /\ admitted' \subseteq Pairs
  BY <1>1, <1>2, Before
<1> QED BY <1>1, <1>2, <1>3, <1>4, <1>5, Before, NodeStep

(* Connections that come, wait to be seen and break, with nothing said.    *)
LEMMA WireStep ==
  ASSUME IInv, UNCHANGED <<server, disk, credential, talk, open>>, changes' \in 0 .. MaxChanges,
         due' \subseteq Nodes \X Nodes \X Slots,
         \A o \in open : Wire(o[1], o[2], o[3]) \in alive' => Wire(o[1], o[2], o[3]) \in alive
  PROVE  IInv'
<1>1. UNCHANGED <<peers, admitted, asks, answers>>
  BY DEF talk
<1>2. ASSUME NEW p \in Pairs PROVE Watched(p)'
  BY <1>1, Before DEF Watched, Attached, Live
<1>3. Relied /\ Credentials'
  BY ServerAside
<1> QED BY <1>1, <1>2, <1>3, Before, NodeStep

LEMMA WiresStep ==
  ASSUME IInv, NEW n \in Nodes, NEW m \in Nodes, n # m, NEW i \in Slots, NEW w,
         NeverOpens(n, m, i) \/ Dial(n, m, i) \/ WireBreaks(w)
  PROVE  IInv'
<1>1. CASE NeverOpens(n, m, i)
  BY <1>1, Before, WireStep, Changing DEF NeverOpens, serverVars
<1>2. CASE Dial(n, m, i)
  <2>1. ASSUME NEW o \in open, Wire(o[1], o[2], o[3]) \in alive' PROVE Wire(o[1], o[2], o[3]) \in alive
    <3>1. CASE Wire(o[1], o[2], o[3]) = Wire(n, m, i)
      <4>1. o = <<o[1], o[2], o[3]>>
        BY Before
      <4>2. o = <<n, m, i>> \/ o = <<m, n, i>>
        BY <3>1, <4>1, WireSame
      <4> QED BY <1>2, <4>2 DEF Dial, Unused
    <3> QED BY <1>2, <2>1, <3>1 DEF Dial
  <2>2. UNCHANGED <<server, disk, credential, talk, open>> /\ changes' \in 0 .. MaxChanges
        /\ due' \subseteq Nodes \X Nodes \X Slots
    BY <1>2, Before, Changing DEF Dial
  <2> QED BY <2>1, <2>2, WireStep
<1>3. CASE WireBreaks(w)
  BY <1>3, Before, WireStep, Changing DEF WireBreaks
<1> QED BY <1>1, <1>2, <1>3

(* A handshake goes on and is settled: announced and its peer admitted     *)
(* when it completes.                                                      *)
LEMMA SettleStep ==
  ASSUME IInv, UNCHANGED <<serverVars, disk, credential, wires>>,
         NEW n \in Nodes, NEW m \in Nodes, n # m, Attached(<<n, m>>),
         NEW h \in Handshake, h.here, h.announced <=> Complete(peers[<<n, m>>]),
         h.named /\ ~h.passed => Entitled(m),
         NEW g \in Handshake, g.here, g.named = h.named, g.passed = h.passed,
         peers' = [peers EXCEPT ![<<n, m>>] = Announced(g)],
         admitted' = admitted \union Admitting(n, m, h),
         asks' \subseteq Asking, answers' \subseteq Answering,
         \A x \in asks' : x \in asks \/ MayLast(x.from, x.e)
  PROVE  IInv'
<1>1. <<n, m>> \in Pairs /\ Watched(<<n, m>>)
  BY PairIs, Before
<1>2. /\ Announced(g) \in Handshake /\ Sound(m, Announced(g)) /\ Announced(g).here
      /\ Complete(Announced(g)) <=> Complete(h)
  BY DEF Announced, Handshake, Sound, Complete
<1>3. Complete(h) => <<n, m>> \in admitted'
  BY <1>1 DEF Admitting, Watched
<1>4. admitted' \subseteq admitted \union {<<n, m>>}
  BY DEF Admitting
<1>5. ASSUME NEW p \in Pairs PROVE Sound(p[2], peers'[p]) /\ Watched(p)'
  <2>1. Watched(p) /\ Sound(p[2], peers[p]) /\ (Live(p)' <=> Live(p)) /\ (Attached(p)' <=> Attached(p))
    BY Before DEF Live, Attached, wires
  <2>2. CASE p = <<n, m>>
    <3>1. peers'[p] = Announced(g)
      BY <2>2, Before
    <3> QED BY <1>2, <1>3, <2>1, <2>2, <3>1 DEF Watched
  <2>3. CASE p # <<n, m>>
    <3>1. peers'[p] = peers[p] /\ (p \in admitted' <=> p \in admitted)
      BY <1>4, <2>3, Before
    <3> QED BY <2>1, <3>1 DEF Watched
  <2> QED BY <2>2, <2>3
<1>6. peers' \in [Pairs -> Handshake] /\ admitted' \subseteq Pairs
  BY <1>1, <1>2, <1>4, Before
<1>7. Relied /\ Credentials' /\ UNCHANGED <<due, open>>
  BY Changing, ServerAside DEF serverVars, wires
<1> QED BY <1>5, <1>6, <1>7, Before, NodeStep

(* Whose attestation is good may still be admitted.                        *)
LEMMA VerifiedEntitled ==
  ASSUME IInv, NEW x \in asks, Verifies(x.e)
  PROVE  Entitled(x.from)
<1>1. x.from \in Nodes /\ x.e \in Attestation /\ MayLast(x.from, x.e)
  BY Before DEF Asking, IInv, Lasting
<1>2. clients[x.from].revoked \in 0 .. MaxTime /\ time \in 1 .. MaxTime
  BY <1>1 DEF IInv, Typed, TypeOK, EnrolmentTypeOK
<1> QED BY <1>1, <1>2, EnrolmentAssumption DEF MayLast, Entitled, Verifies, Attestation

LEMMA AcceptsStep ==
  ASSUME IInv, NEW x \in asks, Accepts(x)
  PROVE  IInv'
<1> DEFINE n == x.to
           m == x.from
           q == IF peers[<<n, m>>].here THEN peers[<<n, m>>] ELSE NewHandshake
           h == [q EXCEPT !.named = TRUE]
           g == Sent(h, mine[n])
<1>1. n \in Nodes /\ m \in Nodes /\ n # m /\ x.at \in Slots
  BY Before DEF Asking
<1>2. peers[<<n, m>>] \in Handshake /\ Sound(m, peers[<<n, m>>])
  BY <1>1, PairIs, Before
<1>3. /\ q \in Handshake /\ q.here /\ (q.announced <=> Complete(peers[<<n, m>>]))
  BY <1>2 DEF NewHandshake, NoHandshake, Handshake, Complete, Sound
<1>4. /\ h \in Handshake /\ h.here /\ (h.announced <=> Complete(peers[<<n, m>>])) /\ h.named
      /\ g \in Handshake /\ g.here /\ g.named = h.named /\ g.passed = h.passed
  BY <1>3 DEF Sent, Handshake
<1>5. Entitled(m)
  BY VerifiedEntitled DEF Accepts
<1>6. Attached(<<n, m>>)
  BY <1>1 DEF Accepts, Arrives, Attached
<1>7. PICK new \in Offers(n, m, h, mine[n], Open(n, m)) : asks' = (asks \ {x}) \union new
  BY DEF Accepts
<1>8. new \subseteq Asking /\ \A y \in new : MayLast(y.from, y.e)
  BY <1>1, <1>7, Before, OfferTyped
<1>9. asks' \subseteq Asking /\ \A y \in asks' : y \in asks \/ MayLast(y.from, y.e)
  BY <1>7, <1>8, Before
<1>10. answers' \subseteq Answering
  <2>1. Verdict(x, TRUE) \in Answering
    BY <1>1 DEF Verdict, Answering
  <2> QED BY <2>1, Before DEF Accepts
<1>11. /\ UNCHANGED <<serverVars, disk, credential, wires>>
       /\ peers' = [peers EXCEPT ![<<n, m>>] = Announced(g)]
       /\ admitted' = admitted \union Admitting(n, m, h)
  BY DEF Accepts
<1> HIDE DEF n, m, q, h, g
<1> QED BY <1>1, <1>4, <1>5, <1>6, <1>9, <1>10, <1>11, SettleStep

LEMMA AcceptedStep ==
  ASSUME IInv, NEW x \in answers, Accepted(x)
  PROVE  IInv'
<1> DEFINE n == x.to
           m == x.from
           q == peers[<<n, m>>]
           h == [q EXCEPT !.passed = TRUE]
<1>1. n \in Nodes /\ m \in Nodes /\ n # m /\ x.at \in Slots
  BY Before DEF Answering
<1>2. q \in Handshake /\ Sound(m, q)
  BY <1>1, PairIs, Before
<1>3. answers' \subseteq Answering /\ asks' = asks /\ UNCHANGED <<serverVars, disk, credential, wires>>
  BY Before DEF Accepted
<1>4. CASE q.here
  <2>1. h \in Handshake /\ h.here /\ (h.announced <=> Complete(q)) /\ h.passed
    BY <1>2, <1>4 DEF Handshake, Sound
  <2>2. Attached(<<n, m>>)
    BY <1>1 DEF Accepted, Arrives, Attached
  <2>3. /\ peers' = [peers EXCEPT ![<<n, m>>] = Announced(h)]
        /\ admitted' = admitted \union Admitting(n, m, h)
    BY <1>4 DEF Accepted
  <2> HIDE DEF n, m, h
  <2> QED BY <1>1, <1>3, <2>1, <2>2, <2>3, Before, SettleStep
<1>5. CASE ~q.here
  <2>1. UNCHANGED <<peers, admitted>>
    BY <1>5 DEF Accepted
  <2>2. ASSUME NEW p \in Pairs PROVE Watched(p)'
    BY <1>3, <2>1, Before DEF Watched, Live, Attached, wires
  <2>3. Relied /\ Credentials' /\ UNCHANGED <<due, open>>
    BY <1>3, Changing, ServerAside DEF serverVars, wires
  <2> QED BY <1>3, <2>1, <2>2, <2>3, Before, NodeStep
<1> QED BY <1>4, <1>5

LEMMA RefusedStep ==
  ASSUME IInv, NEW x, (x \in asks /\ Rejects(x)) \/ (x \in answers /\ Rejected(x))
  PROVE  IInv'
<1>1. CASE x \in asks /\ Rejects(x)
  <2>1. x.to \in Nodes /\ x.from \in Nodes /\ x.to # x.from /\ Verdict(x, FALSE) \in Answering
    BY <1>1, Before DEF Asking, Answering, Verdict
  <2>2. /\ UNCHANGED <<serverVars, disk, credential, admitted, due, open>> /\ answers' \subseteq Answering
        /\ peers' = Forget(x.to, {x.from}) /\ alive' \subseteq alive \ Cut(x.to, {x.from})
        /\ asks' \subseteq asks
    BY <1>1, <2>1, Before DEF Rejects
  <2> QED BY <2>1, <2>2, Before, CloseStep
<1>2. CASE x \in answers /\ Rejected(x)
  <2>1. x.to \in Nodes /\ x.from \in Nodes /\ x.to # x.from
    BY <1>2, Before DEF Answering
  <2>2. /\ UNCHANGED <<serverVars, disk, credential, admitted, due, open>> /\ answers' \subseteq Answering
        /\ peers' = Forget(x.to, {x.from}) /\ alive' \subseteq alive \ Cut(x.to, {x.from})
        /\ asks' \subseteq asks
    BY <1>2, Before DEF Rejected
  <2> QED BY <2>1, <2>2, Before, CloseStep
<1> QED BY <1>1, <1>2

LEMMA FailedStep ==
  ASSUME IInv, NEW n \in Nodes, NEW m \in Nodes, n # m, ExchangeFailed(n, m),
         UNCHANGED <<serverVars, disk, credential, admitted, wires>>,
         asks' \subseteq asks, answers' \subseteq answers
  PROVE  IInv'
<1>1. <<n, m>> \in Pairs
  BY PairIs
<1>2. /\ peers' \in [Pairs -> Handshake]
      /\ \A p \in Pairs : /\ peers'[p] \in Handshake /\ peers'[p].here = peers[p].here
                          /\ peers'[p].named = peers[p].named /\ peers'[p].passed = peers[p].passed
                          /\ peers'[p].announced = peers[p].announced
  <2>1. peers[<<n, m>>] \in Handshake /\ [peers[<<n, m>>] EXCEPT !.sent = FALSE] \in Handshake
    BY <1>1, Before DEF Handshake
  <2>2. peers' = peers \/ peers' = [peers EXCEPT ![<<n, m>>] = [peers[<<n, m>>] EXCEPT !.sent = FALSE]]
    BY DEF ExchangeFailed
  <2>3. peers' \in [Pairs -> Handshake]
    BY <1>1, <2>1, <2>2, Before
  <2>4. ASSUME NEW p \in Pairs PROVE peers'[p] = peers[p] \/ peers'[p] = [peers[p] EXCEPT !.sent = FALSE]
    BY <2>2, <2>4, Before
  <2>5. \A p \in Pairs : peers[p] \in Handshake
    BY Before
  <2> QED BY <2>3, <2>4, <2>5 DEF Handshake
<1>3. ASSUME NEW p \in Pairs PROVE Sound(p[2], peers'[p]) /\ Watched(p)'
  <2>1. Sound(p[2], peers[p]) /\ Watched(p) /\ (Live(p)' <=> Live(p)) /\ (Attached(p)' <=> Attached(p))
    BY Before DEF Live, Attached, wires
  <2>2. Complete(peers'[p]) <=> Complete(peers[p])
    BY <1>2 DEF Complete
  <2> QED BY <1>2, <2>1, <2>2 DEF Sound, Watched
<1>4. Relied /\ Credentials' /\ UNCHANGED <<due, open>>
  BY Changing, ServerAside DEF serverVars, wires
<1> QED BY <1>2, <1>3, <1>4, Before, NodeStep

LEMMA ExchangeStep ==
  ASSUME IInv, Exchange
  PROVE  IInv'
<1>1. ASSUME NEW x \in asks, AskFails(x) PROVE IInv'
  BY <1>1, FailedStep, Before DEF AskFails, Asking
<1>2. ASSUME NEW x \in answers, AnswerFails(x) PROVE IInv'
  BY <1>2, FailedStep, Before DEF AnswerFails, Answering
<1>3. ASSUME NEW x \in asks, Accepts(x) \/ Rejects(x) PROVE IInv'
  BY <1>3, AcceptsStep, RefusedStep
<1>4. ASSUME NEW x \in answers, Accepted(x) \/ Rejected(x) PROVE IInv'
  BY <1>4, AcceptedStep, RefusedStep
<1> QED BY <1>1, <1>2, <1>3, <1>4 DEF Exchange

-----------------------------------------------------------------------------
LEMMA WaitingIs ==
  ASSUME IInv, NEW n \in Nodes, NEW e \in Attestation, MayLast(n, e),
         NEW via \in [Waiting(n) -> Slots], NEW x \in {Offer(n, m, e, via[m]) : m \in Waiting(n)}
  PROVE  x \in Asking /\ MayLast(x.from, x.e)
<1>1. PICK m \in Waiting(n) : x = Offer(n, m, e, via[m])
  OBVIOUS
<1>2. m \in Nodes /\ m # n /\ via[m] \in Slots
  BY DEF Waiting
<1> QED BY <1>1, <1>2 DEF Offer, Asking

LEMMA TickStep ==
  ASSUME IInv, NEW n \in Nodes, Tick(n)
  PROVE  IInv'
<1>1. PICK late \in TimedOut(n), via \in [Waiting(n) -> Slots] :
        /\ asks' = asks \union
             (IF mine[n] = 0 THEN {} ELSE {Offer(n, m, mine[n], via[m]) : m \in Waiting(n)})
        /\ peers' = [p \in Pairs |->
             IF p[1] # n \/ ~peers[p].here THEN peers[p]
             ELSE IF p[2] \in late THEN NoHandshake ELSE Sent(peers[p], mine[n])]
        /\ alive' = alive \ Cut(n, late)
        /\ IF \E m \in late \union Waiting(n) : Between(n, m) # {} THEN Change ELSE UNCHANGED changes
  BY DEF Tick
<1>2. /\ UNCHANGED <<server, disk, enrolled, mine, admitted, due, open, answers>>
      /\ renewing' \subseteq renewing \union (enrolled \intersect {n})
  BY DEF Tick
<1>3. Relied
  BY <1>1, <1>2, Changing, ServerStays
<1>4. Credentials'
  <2>1. Credentials
    BY CredentialsHold
  <2> QED BY <1>2, <1>3, <2>1 DEF Credentials, disk, Relied
<1>5. asks' \subseteq Asking /\ \A x \in asks' : x \in asks \/ MayLast(x.from, x.e)
  <2>1. mine[n] \in Attestation /\ MayLast(n, mine[n]) /\ asks \subseteq Asking
    BY Before
  <2>2. ASSUME NEW x \in asks' PROVE x \in Asking /\ (x \in asks \/ MayLast(x.from, x.e))
    <3>1. x \in asks \/ x \in {Offer(n, m, mine[n], via[m]) : m \in Waiting(n)}
      BY <1>1
    <3> QED BY <2>1, <3>1, WaitingIs
  <2> QED BY <2>2
<1>6. ASSUME NEW p \in Pairs
      PROVE  /\ peers'[p] \in Handshake /\ Sound(p[2], peers'[p])
             /\ Complete(peers'[p]) => Complete(peers[p])
             /\ peers'[p].here => peers[p].here
             /\ peers'[p].here = peers[p].here \/ (p[1] = n /\ p[2] \in late)
  <2>1. peers[p] \in Handshake /\ Sound(p[2], peers[p])
    BY Before
  <2>2. CASE p[1] = n /\ peers[p].here /\ p[2] \in late
    <3>1. peers'[p] = NoHandshake
      BY <1>1, <2>2
    <3> QED BY <2>2, <3>1 DEF NoHandshake, Handshake, Complete, Sound
  <2>3. CASE p[1] = n /\ peers[p].here /\ p[2] \notin late
    <3>1. peers'[p] = Sent(peers[p], mine[n])
      BY <1>1, <2>3
    <3>2. Sound(p[2], Sent(peers[p], mine[n])) /\ Sent(peers[p], mine[n]) \in Handshake
      BY <2>1, SentHandshake DEF Sound
    <3> QED BY <2>1, <3>1, <3>2, SentHandshake
  <2>4. CASE p[1] # n \/ ~peers[p].here
    <3>1. peers'[p] = peers[p]
      BY <1>1, <2>4
    <3> QED BY <2>1, <3>1
  <2> QED BY <2>2, <2>3, <2>4
<1>7. ASSUME NEW p \in Pairs PROVE Watched(p)'
  <2>1. Watched(p)
    BY Before
  <2>2. (Live(p)' => Live(p) /\ ~(p[1] = n /\ p[2] \in late)) /\ (Attached(p) => Attached(p)')
    BY <1>1, <1>2, CutLive
  <2> QED BY <1>2, <1>6, <2>1, <2>2 DEF Watched
<1>8. peers' \in [Pairs -> Handshake]
  BY <1>1, <1>6
<1> QED BY <1>2, <1>3, <1>4, <1>5, <1>6, <1>7, <1>8, Before, NodeStep

LEMMA RenewedStep ==
  ASSUME IInv, NEW n \in Nodes, Renewed(n)
  PROVE  IInv'
<1> DEFINE e == time + LIFETIME
<1>1. /\ UNCHANGED server /\ changes' = changes /\ UNCHANGED <<joined, enrolled, admitted, wires, answers>>
      /\ renewing' = renewing \ {n}
      /\ mine' = [mine EXCEPT ![n] = e] /\ saved' = [saved EXCEPT ![n] = e] /\ IsEnrolled(n)
      /\ peers' = [p \in Pairs |-> IF p[1] = n /\ peers[p].here THEN [peers[p] EXCEPT !.sent = TRUE]
                                   ELSE peers[p]]
  BY DEF Renewed, serverVars, UsernameOf
<1>2. PICK via \in [Waiting(n) -> Slots] :
        asks' = asks \union {Offer(n, m, e, via[m]) : m \in Waiting(n)}
  BY DEF Renewed
<1>3. time \in 1 .. MaxTime /\ e \in Attestation /\ MayLast(n, e)
  <2>1. time \in 1 .. MaxTime
    BY DEF IInv, Typed, TypeOK, EnrolmentTypeOK
  <2> QED BY <1>1, <2>1, EnrolmentAssumption DEF Attestation, MayLast, IsEnrolled, IsRevoked
<1> HIDE DEF e
<1>4. Relied
  BY <1>1, Changing, ServerStays
<1>5. Credentials'
  <2>1. Credentials
    BY CredentialsHold
  <2>2. \A q \in Nodes : MayLast(q, mine[q])' /\ MayLast(q, saved[q])'
    BY <1>1, <1>3, <1>4, <2>1 DEF Credentials, Relied
  <2> QED BY <1>1, <1>3, <2>1, <2>2 DEF Credentials
<1>6. asks' \subseteq Asking /\ \A x \in asks' : x \in asks \/ MayLast(x.from, x.e)
  BY <1>2, <1>3, Before, WaitingIs
<1>7. ASSUME NEW p \in Pairs
      PROVE  /\ peers'[p] \in Handshake /\ Sound(p[2], peers'[p])
             /\ Complete(peers'[p]) <=> Complete(peers[p])
             /\ peers'[p].here = peers[p].here
  <2>1. peers[p] \in Handshake /\ Sound(p[2], peers[p])
    BY Before
  <2>2. peers'[p] = peers[p] \/ peers'[p] = [peers[p] EXCEPT !.sent = TRUE]
    BY <1>1
  <2> QED BY <2>1, <2>2 DEF Sound, Complete, Handshake
<1>8. ASSUME NEW p \in Pairs PROVE Watched(p)'
  BY <1>1, <1>7, Before DEF Watched, Live, Attached, wires
<1>9. peers' \in [Pairs -> Handshake] /\ UNCHANGED <<due, open>>
  BY <1>1, <1>7 DEF wires
<1> QED BY <1>1, <1>4, <1>5, <1>6, <1>7, <1>8, <1>9, Before, NodeStep

(* The server and what is on the disk move alone.                          *)
LEMMA OutsideStep ==
  ASSUME IInv, Relied, Credentials', UNCHANGED <<talk, wires>>
  PROVE  IInv'
<1>1. UNCHANGED <<peers, admitted, asks, answers, due, open>>
  BY DEF talk, wires
<1>2. ASSUME NEW p \in Pairs PROVE Watched(p)'
  BY Before DEF Watched, Live, Attached, talk, wires
<1> QED BY <1>1, <1>2, Before, NodeStep

LEMMA NotRenewedStep ==
  ASSUME IInv, NEW n \in Nodes, NotRenewed(n)
  PROVE  IInv'
<1>1. UNCHANGED <<serverVars, disk, enrolled, mine, talk, wires>> /\ renewing' \subseteq renewing
  BY DEF NotRenewed
<1>2. Relied
  BY <1>1, Changing, ServerStays DEF serverVars
<1>3. Credentials'
  BY <1>1, <1>2, CredentialsHold DEF Credentials, disk, Relied
<1> QED BY <1>1, <1>2, <1>3, OutsideStep

(* The server's tables and its listener, one operation at a time.          *)
LEMMA TablesTyped ==
  ASSUME IInv
  PROVE  /\ time \in 1 .. MaxTime /\ LIFETIME \in Nat \ {0} /\ MaxTime \in Nat \ {0} /\ TTL \in Nat \ {0}
         /\ clients \in [Nodes -> [row : BOOLEAN, revoked : 0 .. MaxTime]]
         /\ invites \in [Codes -> [expires : 0 .. MaxTime + TTL, by : SUBSET Nodes]]
         /\ service \in [Nodes -> [open : SUBSET Ways, current : Ways \union {0}, closing : SUBSET Ways]]
         /\ atGate \subseteq Nodes /\ changes \in 0 .. MaxChanges
         /\ OneWayIn /\ Recorded
  BY EnrolmentAssumption DEF IInv, Typed, TypeOK, EnrolmentTypeOK

LEMMA RedeemRelied ==
  ASSUME IInv, NEW n \in Nodes, NEW c \in Codes, Redeem(n, c), changes' \in 0 .. MaxChanges
  PROVE  Relied /\ MayLast(n, time + LIFETIME)
<1>1. /\ time' = time /\ service' = service /\ atGate' = atGate \ {n} /\ n \in atGate
      /\ clients' = [clients EXCEPT ![n].row = TRUE]
      /\ invites' = [invites EXCEPT ![c].by = {n}]
  BY DEF Redeem
<1>2. /\ clients' \in [Nodes -> [row : BOOLEAN, revoked : 0 .. MaxTime]]
      /\ invites' \in [Codes -> [expires : 0 .. MaxTime + TTL, by : SUBSET Nodes]]
  BY <1>1, TablesTyped
<1>3. ASSUME NEW m \in Nodes
      PROVE  /\ clients'[m].revoked = clients[m].revoked /\ (clients[m].row => clients'[m].row)
             /\ IsRevoked(m)' <=> IsRevoked(m)
  BY <1>1, TablesTyped DEF IsRevoked, Recorded
<1>4. EnrolmentTypeOK' /\ OneWayIn'
  BY <1>1, <1>2, TablesTyped DEF EnrolmentTypeOK, OneWayIn
<1>5. Recorded'
  BY <1>1, <1>3, TablesTyped DEF Recorded
<1>6. MayLast(n, time + LIFETIME)
  BY <1>1, TablesTyped DEF MayLast, Recorded
<1> QED BY <1>1, <1>3, <1>4, <1>5, <1>6 DEF Relied, Entitled, MayLast

LEMMA JoinStep ==
  ASSUME IInv, NEW n \in Nodes, NEW c \in Codes, Joins(n, c) \/ JoinUnanswered(n, c)
  PROVE  IInv'
<1>1. Redeem(n, c) /\ changes' \in 0 .. MaxChanges /\ UNCHANGED <<credential, talk, wires>>
  BY Changing DEF Joins, JoinUnanswered
<1>2. Relied /\ MayLast(n, time + LIFETIME)
  BY <1>1, RedeemRelied
<1>3. Credentials'
  <2>1. Credentials /\ time + LIFETIME \in Attestation
    BY CredentialsHold, TablesTyped DEF Attestation
  <2>2. CASE Joins(n, c)
    <3>1. /\ joined' = joined \union {n} /\ saved' = [saved EXCEPT ![n] = time + LIFETIME]
          /\ UNCHANGED <<enrolled, mine, renewing>>
      BY <2>2 DEF Joins, credential
    <3>2. \A q \in Nodes : MayLast(q, mine[q])' /\ MayLast(q, saved[q])'
      BY <1>2, <2>1, <3>1 DEF Credentials, Relied
    <3> QED BY <2>1, <3>1, <3>2 DEF Credentials
  <2>3. CASE JoinUnanswered(n, c)
    BY <1>2, <2>3, CredentialsStay DEF JoinUnanswered
  <2> QED BY <2>2, <2>3
<1> QED BY <1>1, <1>2, <1>3, OutsideStep

LEMMA ServiceRelied ==
  ASSUME IInv, UNCHANGED <<time, tables, atGate>>, changes' \in 0 .. MaxChanges,
         service' \in [Nodes -> [open : SUBSET Ways, current : Ways \union {0}, closing : SUBSET Ways]],
         OneWayIn'
  PROVE  Relied
<1>1. clients' = clients /\ invites' = invites
  BY DEF tables
<1>2. EnrolmentTypeOK'
  BY <1>1, TablesTyped DEF EnrolmentTypeOK
<1>3. Recorded'
  BY <1>1, TablesTyped DEF Recorded, IsRevoked
<1> QED BY <1>1, <1>2, <1>3 DEF Relied, Entitled, MayLast, IsRevoked

LEMMA OneWayStays ==
  ASSUME IInv, NEW n \in Nodes, NEW way \in Ways, NEW links,
         links = Supersede(service[n], way) \/ links = Closed(service[n], way),
         service' = [service EXCEPT ![n] = links]
  PROVE  /\ service' \in [Nodes -> [open : SUBSET Ways, current : Ways \union {0}, closing : SUBSET Ways]]
         /\ OneWayIn'
<1>1. service[n].open \ service[n].closing \in {{}, {service[n].current}}
  BY TablesTyped DEF OneWayIn
<1>2. /\ links \in [open : SUBSET Ways, current : Ways \union {0}, closing : SUBSET Ways]
      /\ links.open \ links.closing \in {{}, {links.current}}
  <2>1. CASE links = Supersede(service[n], way)
    <3>1. /\ links.open = service[n].open \union {way} /\ links.current = way
          /\ links.closing = service[n].closing \union ({service[n].current} \intersect service[n].open)
      BY <2>1 DEF Supersede
    <3>2. links \in [open : SUBSET Ways, current : Ways \union {0}, closing : SUBSET Ways]
      BY <2>1, TablesTyped DEF Supersede
    <3>3. links.open \ links.closing \subseteq {way}
      BY <1>1, <3>1
    <3> QED BY <3>1, <3>2, <3>3
  <2>2. CASE links = Closed(service[n], way)
    <3>1. /\ links.open = service[n].open \ {way} /\ links.closing = service[n].closing \ {way}
          /\ links.current = IF service[n].current = way THEN 0 ELSE service[n].current
      BY <2>2 DEF Closed
    <3>2. links \in [open : SUBSET Ways, current : Ways \union {0}, closing : SUBSET Ways]
      BY <2>2, TablesTyped DEF Closed
    <3>3. links.open \ links.closing = (service[n].open \ service[n].closing) \ {way}
      BY <3>1
    <3> QED BY <1>1, <3>1, <3>2, <3>3
  <2> QED BY <2>1, <2>2
<1>3. \A m \in Nodes : service'[m] = IF m = n THEN links ELSE service[m]
  BY TablesTyped
<1> QED BY <1>2, <1>3, TablesTyped DEF OneWayIn

LEMMA ServerLinkStep ==
  ASSUME IInv, NEW n \in Nodes, NEW way \in Ways, ReachesServer(n, way) \/ LosesServer(n, way)
  PROVE  IInv'
<1>1. UNCHANGED <<disk, credential, talk, wires>> /\ changes' \in 0 .. MaxChanges
  BY Changing DEF ReachesServer, LosesServer
<1>2. PICK links : /\ links = Supersede(service[n], way) \/ links = Closed(service[n], way)
                   /\ service' = [service EXCEPT ![n] = links]
  BY DEF ReachesServer, LosesServer, ServiceOpens, ServiceCloses
<1>3. UNCHANGED <<time, tables, atGate>>
  BY DEF ReachesServer, LosesServer, ServiceOpens, ServiceCloses
<1>4. Relied
  BY <1>1, <1>2, <1>3, OneWayStays, ServiceRelied
<1> QED BY <1>1, <1>4, CredentialsStay, OutsideStep

LEMMA RestartStep ==
  ASSUME IInv, NEW n \in Nodes, Restart(n)
  PROVE  IInv'
<1>1. /\ UNCHANGED <<time, tables, atGate, disk>> /\ changes' \in 0 .. MaxChanges
      /\ enrolled' = enrolled \union ({n} \intersect joined) /\ renewing' = renewing \ {n}
      /\ mine' = [mine EXCEPT ![n] = IF n \in joined /\ Verifies(saved[n]) THEN saved[n] ELSE 0]
  BY Changing DEF Restart
<1>2. /\ peers' = Forget(n, Nodes) /\ admitted' = {p \in admitted : p[1] # n}
      /\ due' = {d \in due : d[1] # n} /\ open' = {o \in open : o[1] # n}
      /\ alive' = {w \in alive : n \notin w[1]}
      /\ asks' \subseteq asks /\ answers' \subseteq answers
  BY DEF Restart
<1>3. Relied
  <2>1. service' = [service EXCEPT ![n].closing = service[n].open]
    BY DEF Restart
  <2>2. service' \in [Nodes -> [open : SUBSET Ways, current : Ways \union {0}, closing : SUBSET Ways]]
    BY <2>1, TablesTyped
  <2>3. OneWayIn'
    BY <2>1, TablesTyped DEF OneWayIn
  <2> QED BY <1>1, <2>2, <2>3, ServiceRelied
<1>4. Credentials'
  <2>1. Credentials /\ joined' = joined /\ saved' = saved
    BY <1>1, CredentialsHold DEF disk
  <2>2. 0 \in Attestation /\ MayLast(n, 0)
    BY TablesTyped DEF Attestation, MayLast
  <2>3. \A q \in Nodes : mine'[q] \in Attestation /\ MayLast(q, mine'[q])
    BY <1>1, <2>1, <2>2 DEF Credentials
  <2>4. mine' \in [Nodes -> Attestation]
    BY <1>1, <2>1, <2>2 DEF Credentials
  <2>5. \A q \in Nodes : MayLast(q, mine[q])' /\ MayLast(q, saved[q])'
    BY <1>3, <2>1, <2>3, <2>4 DEF Relied, Credentials
  <2> QED BY <1>1, <2>1, <2>4, <2>5 DEF Credentials
<1>5. ASSUME NEW p \in Pairs PROVE Watched(p)'
  <2>1. /\ Watched(p) /\ p[1] \in Nodes /\ p[2] \in Nodes /\ Sound(p[2], peers'[p])
        /\ Complete(peers'[p]) => Complete(peers[p])
        /\ peers'[p].here => ~(p[1] = n /\ p[2] \in Nodes)
        /\ ~(p[1] = n /\ p[2] \in Nodes) => peers'[p] = peers[p]
    BY <1>2, Before, PairIs, Forgotten
  <2>2. CASE p[1] = n
    <3>1. ~Attached(p)' /\ p \notin admitted' /\ ~peers'[p].here
      BY <1>2, <2>1, <2>2 DEF Attached
    <3>2. ~Live(p)' /\ ~Complete(peers'[p])
      BY <2>1, <3>1 DEF Live, Attached, Sound, Complete
    <3> QED BY <3>1, <3>2 DEF Watched
  <2>3. CASE p[1] # n
    <3>1. (Attached(p)' <=> Attached(p)) /\ (Live(p)' => Live(p)) /\ (p \in admitted' <=> p \in admitted)
      BY <1>2, <2>3 DEF Attached, Live
    <3> QED BY <2>1, <2>3, <3>1 DEF Watched
  <2> QED BY <2>2, <2>3
<1>6. /\ peers' \in [Pairs -> Handshake] /\ \A p \in Pairs : Sound(p[2], peers'[p])
  BY <1>2, Forgotten
<1>7. admitted' \subseteq admitted /\ due' \subseteq due /\ open' \subseteq open
  BY <1>2
<1> QED BY <1>2, <1>3, <1>4, <1>5, <1>6, <1>7, Before, NodeStep

(* Nobody is between being named and being admitted when an hour passes.   *)
LEMMA HourStep ==
  ASSUME IInv, HourPasses
  PROVE  IInv'
<1>1. /\ time' = time + 1 /\ time < MaxTime /\ UNCHANGED <<tables, service, atGate, changes>>
      /\ atGate = {} /\ UNCHANGED nodeVars
  BY DEF HourPasses, TimePasses, ServerQuiet
<1>2. clients' = clients /\ invites' = invites /\ UNCHANGED <<disk, credential, talk, wires>>
  BY <1>1 DEF tables, nodeVars
<1>3. EnrolmentTypeOK' /\ OneWayIn'
  BY <1>1, <1>2, TablesTyped DEF EnrolmentTypeOK, OneWayIn
<1>4. Recorded'
  BY <1>1, <1>2, TablesTyped DEF Recorded
<1>5. \A n \in Nodes, e \in Attestation : MayLast(n, e) => MayLast(n, e)'
  BY <1>1, <1>2, TablesTyped DEF MayLast, Attestation, IsRevoked
<1>6. Credentials'
  BY <1>2, <1>5, CredentialsHold DEF Credentials, disk, credential
<1>7. Typed'
  BY <1>2, <1>3, <1>6, Before DEF Typed, TypeOK, Credentials, Handshake, Attestation, talk, wires
<1>8. Lasting'
  <2>1. ASSUME NEW x \in asks' PROVE MayLast(x.from, x.e)'
    <3>1. x.from \in Nodes /\ x.e \in Attestation /\ MayLast(x.from, x.e)
      BY <1>2, Before DEF talk, Asking, IInv, Lasting
    <3> QED BY <1>5, <3>1
  <2> QED BY <1>6, <2>1 DEF Lasting, Credentials
<1>9. Handshakes'
  <2>1. peers' = peers /\ admitted' = admitted
    BY <1>2 DEF talk
  <2>2. ASSUME NEW p \in Pairs PROVE Sound(p[2], peers[p])'
    <3>1. Sound(p[2], peers[p]) /\ p[1] \in Nodes /\ p[2] \in Nodes \ {p[1]} /\ p = <<p[1], p[2]>>
      BY Before, PairIs
    <3>2. ~(peers[p].here /\ ~Complete(peers[p]))
      BY <3>1 DEF HourPasses, Quiet, Incomplete
    <3> QED BY <2>1, <3>1, <3>2 DEF Sound, Complete
  <2> QED BY <2>1, <2>2 DEF Handshakes, IInv
<1>10. EveryoneWatched'
  BY <1>2 DEF EveryoneWatched, Open, IInv, talk, wires
<1> QED BY <1>3, <1>4, <1>7, <1>8, <1>9, <1>10 DEF IInv

LEMMA ServerAloneStep ==
  ASSUME IInv, ServerAlone
  PROVE  IInv'
<1>1. UNCHANGED <<disk, credential, talk, wires>>
  BY DEF ServerAlone, nodeVars
<1>2. ASSUME NEW c \in Codes, Invite(c) PROVE Relied
  <2>1. /\ UNCHANGED <<time, clients, service, atGate, changes>>
        /\ invites' = [invites EXCEPT ![c].expires = time + TTL]
    BY <1>2 DEF Invite
  <2>2. invites' \in [Codes -> [expires : 0 .. MaxTime + TTL, by : SUBSET Nodes]]
    BY <2>1, TablesTyped
  <2>3. EnrolmentTypeOK'
    BY <2>1, <2>2, TablesTyped DEF EnrolmentTypeOK
  <2> QED BY <2>1, <2>3, TablesTyped DEF Relied, OneWayIn, Recorded, Entitled, MayLast, IsRevoked
<1>3. ASSUME NEW n \in Nodes, NEW at \in 0 .. MaxTime, at = time \/ at = 0,
             clients' = [clients EXCEPT ![n].revoked = at], clients[n].row,
             UNCHANGED <<time, invites, service, atGate>>, changes' \in 0 .. MaxChanges
      PROVE  Relied
  <2>1. clients' \in [Nodes -> [row : BOOLEAN, revoked : 0 .. MaxTime]]
    BY <1>3, TablesTyped
  <2>2. EnrolmentTypeOK' /\ OneWayIn'
    BY <1>3, <2>1, TablesTyped DEF EnrolmentTypeOK, OneWayIn
  <2>3. ASSUME NEW m \in Nodes
        PROVE  /\ clients'[m].row = clients[m].row
               /\ clients'[m].revoked = IF m = n THEN at ELSE clients[m].revoked
    BY <1>3, TablesTyped
  <2>4. Recorded'
    BY <1>3, <2>3, TablesTyped DEF Recorded, IsRevoked
  <2>5. ASSUME NEW m \in Nodes PROVE Entitled(m) => Entitled(m)'
    BY <1>3, <2>3, TablesTyped DEF Entitled, IsRevoked
  <2>6. ASSUME NEW m \in Nodes, NEW e \in Attestation PROVE MayLast(m, e) => MayLast(m, e)'
    BY <1>3, <2>3, TablesTyped DEF MayLast, IsRevoked
  <2> QED BY <2>2, <2>4, <2>5, <2>6 DEF Relied
<1>4. ASSUME NEW n \in Nodes, Revoke(n) \/ Unrevoke(n) PROVE Relied
  <2>1. PICK at \in {0, time} : clients' = [clients EXCEPT ![n].revoked = at]
    BY <1>4 DEF Revoke, Unrevoke
  <2>2. at \in 0 .. MaxTime /\ (at = time \/ at = 0)
    BY TablesTyped
  <2>3. clients[n].row /\ UNCHANGED <<time, invites, service, atGate>> /\ changes' \in 0 .. MaxChanges
    BY <1>4, Changing DEF Revoke, Unrevoke, IsEnrolled, IsRevoked
  <2> QED BY <1>3, <2>1, <2>2, <2>3
<1>5. ASSUME NEW n \in Nodes, EntersGate(n) \/ LeavesGate(n) PROVE Relied
  <2>1. UNCHANGED <<time, tables, service, changes>>
    BY <1>5 DEF EntersGate, LeavesGate
  <2>2. atGate' \subseteq Nodes /\ \A m \in atGate' : m \in atGate \/ ~IsRevoked(m)
    BY <1>5, TablesTyped DEF EntersGate, LeavesGate
  <2>3. EnrolmentTypeOK' /\ OneWayIn'
    BY <2>1, <2>2, TablesTyped DEF EnrolmentTypeOK, OneWayIn, tables
  <2>4. Recorded'
    BY <2>1, <2>2, TablesTyped DEF Recorded, IsRevoked, tables
  <2> QED BY <2>1, <2>3, <2>4 DEF Relied, Entitled, MayLast, IsRevoked, tables
<1>6. ASSUME DisconnectRevoked PROVE Relied
  <2>1. /\ UNCHANGED <<time, tables, atGate>> /\ changes' = changes
        /\ service' = [n \in Nodes |-> IF IsRevoked(n) THEN [service[n] EXCEPT !.closing = service[n].open]
                                       ELSE service[n]]
    BY <1>6 DEF DisconnectRevoked
  <2>2. ASSUME NEW n \in Nodes
        PROVE  /\ service'[n] \in [open : SUBSET Ways, current : Ways \union {0}, closing : SUBSET Ways]
               /\ service'[n].open \ service'[n].closing \in {{}, {service'[n].current}}
    BY <2>1, TablesTyped DEF OneWayIn
  <2>3. /\ service' \in [Nodes -> [open : SUBSET Ways, current : Ways \union {0}, closing : SUBSET Ways]]
        /\ OneWayIn'
    BY <2>1, <2>2 DEF OneWayIn
  <2> QED BY <2>1, <2>3, TablesTyped, ServiceRelied
<1>7. Relied
  BY <1>2, <1>4, <1>5, <1>6 DEF ServerAlone
<1> QED BY <1>1, <1>7, CredentialsStay, OutsideStep

-----------------------------------------------------------------------------
LEMMA InitIInv == Init => IInv
<1> SUFFICES ASSUME Init PROVE IInv
  OBVIOUS
<1>1. /\ time = 1 /\ clients = [n \in Nodes |-> [row |-> n \in Members, revoked |-> 0]]
      /\ invites = [c \in Codes |-> [expires |-> 0, by |-> {}]]
      /\ service = [n \in Nodes |-> IF n \in Members THEN Supersede(NoLinks, 1) ELSE NoLinks]
      /\ atGate = {} /\ changes = 0
  BY DEF Init, EnrolmentInit
<1>2. /\ joined = Members /\ enrolled = Members /\ saved = mine /\ renewing = {}
      /\ mine = [n \in Nodes |-> IF n \in Members THEN time + LIFETIME ELSE 0]
      /\ peers = [p \in Pairs |-> NoHandshake] /\ admitted = {}
      /\ due = {} /\ open = {} /\ asks = {} /\ answers = {}
  BY DEF Init
<1>3. /\ service \in [Nodes -> [open : SUBSET Ways, current : Ways \union {0}, closing : SUBSET Ways]]
      /\ OneWayIn
  <2>1. NoLinks = [open |-> {}, current |-> 0, closing |-> {}]
    BY DEF NoLinks
  <2>2. Supersede(NoLinks, 1) = [open |-> {1}, current |-> 1, closing |-> {}]
    BY <2>1 DEF Supersede
  <2> QED BY <1>1, <2>1, <2>2, EnrolmentAssumption DEF OneWayIn
<1>4. EnrolmentTypeOK
  BY <1>1, <1>3, EnrolmentAssumption DEF EnrolmentTypeOK
<1>5. NoHandshake \in Handshake /\ ~NoHandshake.here /\ ~NoHandshake.announced /\ ~Complete(NoHandshake)
      /\ ~NoHandshake.named /\ ~NoHandshake.passed
  BY DEF NoHandshake, Handshake, Complete
<1>6. saved \in [Nodes -> Attestation] /\ mine \in [Nodes -> Attestation]
  BY <1>1, <1>2, EnrolmentAssumption DEF Attestation
<1>7. Typed
  BY <1>2, <1>4, <1>5, <1>6, EnrolmentAssumption DEF Typed, TypeOK, Handshake, Attestation
<1>8. Recorded
  BY <1>1 DEF Recorded
<1>9. Lasting
  BY <1>1, <1>2, <1>6, EnrolmentAssumption DEF Lasting, MayLast, IsRevoked
<1>10. Handshakes
  BY <1>2, <1>5 DEF Handshakes, Sound
<1>11. EveryoneWatched
  <2>1. \A p \in Pairs : Watched(p)
    BY <1>2, <1>5 DEF Watched, Live
  <2> QED BY <2>1, WatchedIs
<1> QED BY <1>3, <1>7, <1>8, <1>9, <1>10, <1>11 DEF IInv

LEMMA NextIInv == IInv /\ [Next]_vars => IInv'
<1> SUFFICES ASSUME IInv, [Next]_vars PROVE IInv'
  OBVIOUS
<1>1. ASSUME NEW p \in Pairs, NEW i \in Slots,
             \/ Connected(p[1], p[2], i) \/ ConnectedUnjoined(p[1], p[2], i)
             \/ Disconnected(p[1], p[2], i) \/ NeverOpens(p[1], p[2], i) \/ Dial(p[1], p[2], i)
      PROVE  IInv'
  <2>1. p[1] \in Nodes /\ p[2] \in Nodes /\ p[1] # p[2]
    BY PairIs
  <2> QED BY <1>1, <2>1, ConnectedStep, ConnectedUnjoinedStep, DisconnectedStep, WiresStep
<1>2. CASE Links
  BY <1>1, <1>2 DEF Links
<1>3. CASE Exchange
  BY <1>3, ExchangeStep
<1>4. ASSUME NEW w \in alive, WireBreaks(w) PROVE IInv'
  BY <1>4, Before, WireStep, Changing DEF WireBreaks
<1>5. ASSUME NEW n \in Nodes, Tick(n) \/ Renewed(n) \/ NotRenewed(n) \/ Restart(n) PROVE IInv'
  BY <1>5, TickStep, RenewedStep, NotRenewedStep, RestartStep
<1>6. ASSUME NEW n \in Nodes, NEW c \in Codes, Joins(n, c) \/ JoinUnanswered(n, c) PROVE IInv'
  BY <1>6, JoinStep
<1>7. ASSUME NEW n \in Nodes, NEW way \in Ways, ReachesServer(n, way) \/ LosesServer(n, way) PROVE IInv'
  BY <1>7, ServerLinkStep
<1>8. CASE HourPasses
  BY <1>8, HourStep
<1>9. CASE ServerAlone
  BY <1>9, ServerAloneStep
<1>10. CASE UNCHANGED vars
  <2>1. UNCHANGED <<server, disk, credential, talk, wires>> /\ changes' = changes
    BY <1>10 DEF vars, serverVars, nodeVars
  <2> QED BY <2>1, Changing, ServerAside, OutsideStep
<1> QED BY <1>1, <1>2, <1>3, <1>4, <1>5, <1>6, <1>7, <1>8, <1>9, <1>10 DEF Next

(* What the proof rests on holds in every state: the types, what the       *)
(* tables, the attestations and the handshakes say of each other, and that *)
(* whoever is connected is watched.                                        *)
THEOREM Invariance == Spec => []IInv
  BY InitIInv, NextIInv, PTL DEF Spec

(* Every variable has its type: a daemon is enrolled only when the disk    *)
(* says it joined, and asks for a renewal only when enrolled.              *)
THEOREM AdmissionTyped == Spec => []TypeOK
<1>1. IInv => TypeOK
  BY DEF IInv, Typed
<1> QED BY <1>1, Invariance, PTL

(* The listener has one way to each client, the latest one                 *)
(* (ac-server's supersede and closed), whatever order connections come and *)
(* go in.                                                                  *)
THEOREM OneWayToEach == Spec => []OneWayIn
<1>1. IInv => OneWayIn
  BY DEF IInv
<1> QED BY <1>1, Invariance, PTL

(* An open end of a working connection has a handshake, and nothing is     *)
(* kept of a peer whose last connection is gone (connected, disconnected   *)
(* and close of admission.rs, dispatch of daemon.rs).                      *)
THEOREM AllWatched == Spec => []EveryoneWatched
<1>1. IInv => EveryoneWatched
  BY DEF IInv
<1> QED BY <1>1, Invariance, PTL

(* Who is admitted by a step has been named by its attestation in time.    *)
LEMMA NewlyAdmitted ==
  ASSUME IInv, [Next]_vars, NEW p \in admitted' \ admitted
  PROVE  Entitled(p[2])
<1>1. ASSUME NEW x \in asks, Accepts(x) PROVE Entitled(p[2])
  <2>1. p = <<x.to, x.from>>
    BY <1>1 DEF Accepts, Admitting
  <2>2. Entitled(x.from)
    BY <1>1, VerifiedEntitled DEF Accepts
  <2> QED BY <2>1, <2>2
<1>2. ASSUME NEW x \in answers, Accepted(x) PROVE Entitled(p[2])
  <2> DEFINE q == peers[<<x.to, x.from>>]
             h == [q EXCEPT !.passed = TRUE]
  <2>1. x.to \in Nodes /\ x.from \in Nodes /\ x.to # x.from
    BY Before DEF Answering
  <2>2. q \in Handshake /\ Sound(x.from, q)
    BY <2>1, PairIs, Before
  <2>3. admitted' = admitted \union Admitting(x.to, x.from, h)
    BY <1>2 DEF Accepted
  <2>4. p = <<x.to, x.from>> /\ Complete(h) /\ ~h.announced
    BY <2>3 DEF Admitting
  <2>5. q.named /\ ~q.announced
    BY <2>2, <2>4 DEF Complete, Handshake
  <2> QED BY <2>2, <2>4, <2>5 DEF Sound, Complete
<1>3. CASE admitted' \subseteq admitted
  BY <1>3
<1> QED BY <1>1, <1>2, <1>3 DEF Next, vars, nodeVars, talk, Links, Exchange, Connected,
  ConnectedUnjoined, Disconnected, NeverOpens, Dial, WireBreaks, Rejects, Rejected, AskFails,
  AnswerFails, Tick, Renewed, NotRenewed, Joins, JoinUnanswered, Restart, ReachesServer,
  LosesServer, HourPasses, ServerAlone

(* A revoked client is newly admitted only while the last attestation it   *)
(* was given before that may still verify (username_of, verify, load).     *)
THEOREM RevokedStayOut == Spec => RevokedShutOut
<1>1. IInv /\ [Next]_vars =>
        [\A p \in admitted' \ admitted : IsRevoked(p[2]) => time < clients[p[2]].revoked + LIFETIME]_vars
  BY NewlyAdmitted DEF Entitled
<1> QED BY <1>1, Invariance, PTL DEF Spec, RevokedShutOut
=============================================================================
