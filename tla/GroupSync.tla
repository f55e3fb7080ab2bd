----------------------------- MODULE GroupSync ------------------------------
(***************************************************************************)
(* The exchange that spreads one group between its peers                   *)
(* (crates/ac-groups/src/sync.rs over the store of store.rs): a node asks  *)
(* a peer for its heads, fetches the group if the answer shows a           *)
(* difference, applies what comes back, answers an invitation, and, at the *)
(* admin, turns a departure into a Remove.                                 *)
(*                                                                         *)
(* A handler is one step: the daemon runs it without awaiting.  What       *)
(* another process of the same node may do in between is GroupStore's      *)
(* subject; here a node's member table is its chain's fold and its digest  *)
(* its standings.  Messages may be lost, delayed past their timeout and    *)
(* overtaken.                                                              *)
(*                                                                         *)
(* A longer-named definition just before the one it resembles (WantedNamed *)
(* before Wanted) is a mutated form that nothing else uses.                *)
(***************************************************************************)
EXTENDS GroupChain, GroupStandings, FiniteSets

SX == INSTANCE SequencesExt

CONSTANTS
  Nodes,    \* the peers that run this program
  Users,    \* the nodes whose users accept and leave
  Guests,   \* bound: the peers the admin adds and removes
  MaxAdds,  \* bound: Add entries
  MaxSeq,   \* bound: a user speaks only below this standing seq
  MaxMsgs,  \* bound: messages in flight
  MaxMishaps  \* bound: messages lost or overtaken by a timeout, invitations expired

ASSUME PeerAssumption == IsFiniteSet(Peers)
ASSUME NodeAssumption == Admin \in Nodes /\ Nodes \subseteq Keyed /\ Nodes \subseteq Peers
ASSUME BoundAssumption ==
  {MaxAdds, MaxSeq, MaxMsgs, MaxMishaps} \subseteq Nat /\ Users \subseteq Nodes /\ Guests \subseteq Peers

VARIABLES
  store,     \* per node: its chain (<<>> if unknown), standings and state
  inflight,  \* per node: the fetch it waits on, Nobody's if none
  msgs,      \* messages on their way
  mishaps    \* messages lost or overtaken and invitations expired so far

vars == <<store, inflight, msgs, mishaps>>

AllSilent == [q \in Peers |-> Silent]
Unknown == [chain |-> <<>>, standings |-> AllSilent, state |-> "absent"]
Idle == [peer |-> "nobody", from |-> 0]
Log == store[Admin].chain
Send(m) == msgs' = msgs \cup {m}
Drop(m) == msgs' = msgs \ {m}
Room == Cardinality(msgs) < MaxMsgs

-----------------------------------------------------------------------------
(***************************************************************************)
(* The store's operations, as functions of the row of the group.           *)
(***************************************************************************)
Rebuilt(c, table) == [q \in Peers |-> IF q \in Members(c) THEN table[q] ELSE Silent]

Heard(c, table, heard) ==
  [q \in Peers |-> IF EverMentioned(c, q) THEN Later(table[q], heard[q]) ELSE table[q]]

Appended(s, more) ==
  [s EXCEPT !.chain = @ \o more, !.standings = Rebuilt(s.chain \o more, @)]

Spoken(n, s, pos) ==
  LET said == [seq |-> NextSeq(s.standings[n]), pos |-> pos]
  IN  [s EXCEPT !.standings = Rebuilt(s.chain, [s.standings EXCEPT ![n] = said]),
                !.state = StateOf(pos)]

(***************************************************************************)
(* The chain held once the entries of an answer past our head are added.   *)
(***************************************************************************)
Extended(s, a) ==
  IF a.from + Len(a.entries) > Len(s.chain)
  THEN s.chain \o SubSeq(a.entries, Len(s.chain) - a.from + 1, Len(a.entries))
  ELSE s.chain

(***************************************************************************)
(* put, or adopt for a group not yet known: the entries past our head, the *)
(* statements that win, and the caches.                                    *)
(***************************************************************************)
Put(s, a) ==
  LET c == Extended(s, a)
  IN  [chain |-> c,
       standings |-> Rebuilt(c, Heard(c, s.standings, a.standings)),
       state |-> IF s.state = "absent" THEN "pending" ELSE s.state]

Departed(n, s, a) ==
  LET t == Put(s, a)
  IN  {q \in Members(t.chain) \ {n} : t.standings[q] # s.standings[q] /\ t.standings[q].pos = "out"}

(***************************************************************************)
(* A batch that starts past our head (Gap, before the seq and hash each    *)
(* entry carries would refuse it too), contradicts it (Diverged) or, for   *)
(* an unknown group, lacks the genesis is refused whole.                   *)
(***************************************************************************)
Refused(s, a) ==
  \/ a.from > Len(s.chain)
  \/ \E i \in DOMAIN a.entries :
       a.from + i <= Len(s.chain) /\ a.entries[i] # s.chain[a.from + i]
  \/ s.state = "absent" /\ ~ValidChain(a.entries)

(***************************************************************************)
(* answer_invitation and ratify, after put.                                *)
(***************************************************************************)
Answered(n, s) ==
  IF s.state = "pending" /\ n \in Members(s.chain) /\ s.standings[n] = Silent
  THEN Spoken(n, s, "unanswered") ELSE s

Ratified(n, s, departed) ==
  IF n = Admin THEN Appended(s, SX!SetToSeq({Remove(q) : q \in departed})) ELSE s

-----------------------------------------------------------------------------
(***************************************************************************)
(* What the users do.                                                      *)
(***************************************************************************)
Adds(c) == Cardinality({i \in DOMAIN c : c[i].op = "add"})

AddOrRemove(e) ==
  /\ e.op = "add" => store[Admin].standings[Admin].pos # "out" /\ Adds(Log) < MaxAdds
  /\ CanAppend(Log, e)
  /\ store' = [store EXCEPT ![Admin] = Appended(@, <<e>>)]
  /\ UNCHANGED <<inflight, msgs, mishaps>>

Accept(n) ==
  /\ store[n].state \in {"pending", "left"} /\ n \in Members(store[n].chain)
  /\ n = Admin => store[n].standings[n].pos # "out"
  /\ store[n].standings[n].seq < MaxSeq
  /\ store' = [store EXCEPT ![n] = Spoken(n, @, "in")]
  /\ UNCHANGED <<inflight, msgs, mishaps>>

Leave(n) ==
  /\ store[n].state \in {"pending", "active"}
  /\ store[n].standings[n].seq < MaxSeq
  /\ store' = [store EXCEPT ![n] = Spoken(n, @, "out")]
  /\ UNCHANGED <<inflight, msgs, mishaps>>

-----------------------------------------------------------------------------
(***************************************************************************)
(* Ask: m answers n with its head of the group, if both are members by its *)
(* own table and it has not left (log_shared_with).                        *)
(***************************************************************************)
Named(m, n) ==
  /\ store[m].state \in {"active", "pending"}
  /\ {m, n} \subseteq Members(store[m].chain)

Ask(n, m) ==
  /\ n # m /\ Room
  /\ Send([type |-> "heads", to |-> n, by |-> m, named |-> Named(m, n),
           len |-> IF Named(m, n) THEN Len(store[m].chain) ELSE 0,
           digest |-> IF Named(m, n) THEN store[m].standings ELSE AllSilent])
  /\ UNCHANGED <<store, inflight, mishaps>>

(***************************************************************************)
(* on_heads: whether the answer calls for a fetch.  A group the peer is in *)
(* by our table and did not name is worth one too (silently_omitted).      *)
(***************************************************************************)
WantedNamed(m) ==
  LET s == store[m.to]
  IN  m.named /\ (s.state = "absent" \/ m.len > Len(s.chain) \/ m.digest # s.standings)

Wanted(m) ==
  LET s == store[m.to]
  IN  IF m.named
      THEN \/ s.state = "absent"
           \/ m.len > Len(s.chain)
           \/ m.digest # s.standings
      ELSE s.state # "absent" /\ m.by \in Members(s.chain)

Fetch(n, peer, from) == [type |-> "fetch", to |-> peer, by |-> n, from |-> from]

OnHeads(m) ==
  /\ m.type = "heads"
  /\ IF Wanted(m) /\ inflight[m.to] = Idle
     THEN LET from == Len(store[m.to].chain)
          IN  /\ inflight' = [inflight EXCEPT ![m.to] = [peer |-> m.by, from |-> from]]
              /\ msgs' = (msgs \ {m}) \cup {Fetch(m.to, m.by, from)}
     ELSE Drop(m) /\ UNCHANGED inflight
  /\ UNCHANGED <<store, mishaps>>

(***************************************************************************)
(* on_request, Fetch: a member is served everything, a former member the   *)
(* chain up to its removal, anyone else nothing (serve).                   *)
(***************************************************************************)
OnFetch(m) ==
  LET s == store[m.to]
      upto == ServedLength(s.chain, Members(s.chain), m.by)
  IN  /\ m.type = "fetch"
      /\ msgs' = (msgs \ {m}) \cup
           {IF m.to \in Members(s.chain) /\ upto > 0
            THEN [type |-> "entries", to |-> m.by, by |-> m.to, from |-> m.from,
                  entries |-> EntriesBetween(s.chain, m.from, upto),
                  standings |-> IF m.by \in Members(s.chain) THEN s.standings ELSE AllSilent]
            ELSE [type |-> "unavailable", to |-> m.by, by |-> m.to]}
      /\ UNCHANGED <<store, inflight, mishaps>>

(***************************************************************************)
(* on_entries: only the answer to the fetch we wait on is applied.  One    *)
(* that starts past our head makes us ask again from where we are.         *)
(***************************************************************************)
OnEntries(m) ==
  LET n == m.to
      s == store[n]
      expected == inflight[n] = [peer |-> m.by, from |-> m.from]
      gap == s.state # "absent" /\ m.from > Len(s.chain)
      next == IF gap THEN [peer |-> m.by, from |-> Len(s.chain)] ELSE Idle
  IN  /\ m.type = "entries"
      /\ inflight' = IF expected THEN [inflight EXCEPT ![n] = next] ELSE inflight
      /\ msgs' = (msgs \ {m}) \cup
                 (IF expected /\ gap THEN {Fetch(n, m.by, Len(s.chain))} ELSE {})
      /\ IF ~expected \/ Refused(s, m)
         THEN UNCHANGED store
         ELSE store' = [store EXCEPT ![n] =
                          Ratified(n, Answered(n, Put(s, m)), Departed(n, s, m))]
      /\ UNCHANGED mishaps

(***************************************************************************)
(* A refusal, or a failure of the request, ends the fetch from that peer.  *)
(***************************************************************************)
OnUnavailable(m) ==
  /\ m.type = "unavailable"
  /\ Drop(m)
  /\ inflight' = [inflight EXCEPT ![m.to] = IF @.peer = m.by THEN Idle ELSE @]
  /\ UNCHANGED <<store, mishaps>>

Lose(m) ==
  /\ mishaps < MaxMishaps /\ mishaps' = mishaps + 1
  /\ Drop(m)
  /\ UNCHANGED <<store, inflight>>

(***************************************************************************)
(* tick: a fetch outstanding for 30 seconds is abandoned, and so is every  *)
(* fetch of a daemon that restarts.  Its messages may still arrive.        *)
(***************************************************************************)
Underway(n) ==
  \E m \in msgs : \/ m.type = "fetch" /\ m.by = n
                  \/ m.type \in {"entries", "unavailable"} /\ m.to = n

Timeout(n) ==
  /\ inflight[n] # Idle
  /\ IF Underway(n) THEN mishaps < MaxMishaps /\ mishaps' = mishaps + 1 ELSE UNCHANGED mishaps
  /\ inflight' = [inflight EXCEPT ![n] = Idle]
  /\ UNCHANGED <<store, msgs>>

(***************************************************************************)
(* tick: an invitation 30 days old that no longer names us is forgotten.   *)
(***************************************************************************)
Expire(n) ==
  /\ store[n].state = "pending" /\ n \notin Members(store[n].chain)
  /\ mishaps < MaxMishaps /\ mishaps' = mishaps + 1
  /\ store' = [store EXCEPT ![n] = Unknown]
  /\ UNCHANGED <<inflight, msgs>>

-----------------------------------------------------------------------------
Founded ==
  [chain |-> <<Create>>, standings |-> [AllSilent EXCEPT ![Admin] = [seq |-> 1, pos |-> "in"]],
   state |-> "active"]

Init ==
  /\ store = [n \in Nodes |-> IF n = Admin THEN Founded ELSE Unknown]
  /\ inflight = [n \in Nodes |-> Idle]
  /\ msgs = {}
  /\ mishaps = 0

UserStep ==
  \/ \E q \in Guests : AddOrRemove(Add(q)) \/ AddOrRemove(Remove(q))
  \/ \E n \in Users : Accept(n) \/ Leave(n)

Deliver(m) == OnHeads(m) \/ OnFetch(m) \/ OnEntries(m) \/ OnUnavailable(m)

Next ==
  \/ UserStep
  \/ \E n, m \in Nodes : Ask(n, m)
  \/ \E m \in msgs : Deliver(m) \/ Lose(m)
  \/ \E n \in Nodes : Timeout(n) \/ Expire(n)

Spec == Init /\ [][Next]_vars

(***************************************************************************)
(* The supervisor opens a round with every member again and again, a       *)
(* message not lost arrives, and an abandoned fetch is given up.  Nothing  *)
(* makes a user act, and only so many messages are lost.                   *)
(***************************************************************************)
FairSpec ==
  /\ Spec
  /\ \A n \in Nodes : \A m \in Nodes \ {n} : SF_vars(Ask(n, m))
  /\ \A to \in Nodes : \A by \in Nodes \ {to} :
       WF_vars(\E m \in msgs : m.to = to /\ m.by = by /\ Deliver(m))
  /\ \A n \in Nodes : WF_vars(~Underway(n) /\ Timeout(n))

-----------------------------------------------------------------------------
Rows == [chain : Seq(Entry), standings : [Peers -> Word],
         state : {"absent", "pending", "active", "left"}]

Messages ==
  [type : {"heads"}, to : Nodes, by : Nodes, named : BOOLEAN, len : Nat,
   digest : [Peers -> Word]]
  \cup [type : {"fetch"}, to : Nodes, by : Nodes, from : Nat]
  \cup [type : {"entries"}, to : Nodes, by : Nodes, from : Nat, entries : Seq(Entry),
        standings : [Peers -> Word]]
  \cup [type : {"unavailable"}, to : Nodes, by : Nodes]

(***************************************************************************)
(* Every variable has its type.                                            *)
(***************************************************************************)
TypeOK ==
  /\ store \in [Nodes -> Rows]
  /\ inflight \in [Nodes -> [peer : Nodes \cup {"nobody"}, from : Nat]]
  /\ msgs \in SUBSET Messages
  /\ mishaps \in Nat

(***************************************************************************)
(* The exchange implements GroupLog.  Every node's chain stays a beginning *)
(* of the admin's, whatever late, partial or repeated answer it applies    *)
(* and whoever served it; it ends while the node is a member or with the   *)
(* entry that removed it ("they learn they were removed and nothing else", *)
(* however stale the server's table was); and no step but the forgetting   *)
(* of an invitation withdrawn takes back what a node knows.                *)
(***************************************************************************)
Others == Nodes \ {Admin}

GL == INSTANCE GroupLog
  WITH Readers <- Others, log <- Log, copies <- [n \in Others |-> store[n].chain]

FollowsLog == GL!Spec

(***************************************************************************)
(* The member fold and the departure scan of the code, which run over the  *)
(* entries once and forget (chain.rs, fold and departure_seq), agree on    *)
(* every chain a node comes to hold with what Members and Departures say   *)
(* of the whole of it.                                                     *)
(***************************************************************************)
ScansAgree ==
  \A n \in Nodes : MembersIsFold(store[n].chain) /\ DepartureIsLoop(store[n].chain)

(***************************************************************************)
(* Once the users are done, every member comes to hold the admin's chain   *)
(* and standings, and a node the admin removed comes to know it.           *)
(***************************************************************************)
InStep ==
  \A n \in Nodes :
    /\ n \in Members(Log) =>
         store[n].chain = Log /\ store[n].standings = store[Admin].standings
    /\ n \notin Members(Log) => n \notin Members(store[n].chain)

Convergence == <>[]InStep

=============================================================================
