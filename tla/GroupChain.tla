----------------------------- MODULE GroupChain -----------------------------
(***************************************************************************)
(* The chain of a group (crates/ac-groups/src/chain.rs): the log of        *)
(* membership changes that only the group's admin may sign, the rules an   *)
(* entry passes before it is appended, the membership it folds to, and     *)
(* what part of it a peer may be served.                                   *)
(*                                                                         *)
(* An entry is its operation and the peer it names.  Signatures, hashes    *)
(* and sizes are abstracted: an entry's hash covers its body and the hash  *)
(* before it, so "the same hash at seq n" is "the same first n+1 entries". *)
(* Sequences are 1-based here and the code's seq is 0-based: the entry     *)
(* with seq n is chain[n + 1], and head_seq is Len(chain).                 *)
(*                                                                         *)
(* Definitions that stand just before the one they resemble, with a longer *)
(* name, are that definition with a plausible mistake in it: TLC must find *)
(* a property that notices.  Nothing else uses them.                       *)
(***************************************************************************)
EXTENDS Naturals, Sequences

CONSTANTS
  Peers,   \* every peer id that can be named
  Admin,   \* the peer whose key signed the genesis
  Keyed    \* the peers whose public key can be recovered from their id

ASSUME AdminAssumption == Admin \in Peers /\ Admin \in Keyed

Op == {"create", "add", "remove"}
Entry == [op : Op, peer : Peers]

Create == [op |-> "create", peer |-> Admin]
Add(p) == [op |-> "add", peer |-> p]
Remove(p) == [op |-> "remove", peer |-> p]

(***************************************************************************)
(* Membership: whoever a Create or an Add names, unless a later entry      *)
(* removes them.  Said without the loop of the code: FoldMembers is the    *)
(* loop, and FoldIsMembers of GroupSyncProofs shows that the two agree.    *)
(***************************************************************************)
MembersOnce(chain) ==
  {p \in Peers :
     /\ \E i \in DOMAIN chain : chain[i].peer = p
     /\ \A j \in DOMAIN chain : chain[j] # Remove(p)}

Members(chain) ==
  {p \in Peers :
     \E i \in DOMAIN chain :
        /\ chain[i].peer = p
        /\ chain[i].op # "remove"
        /\ \A j \in DOMAIN chain : j > i /\ chain[j].peer = p => chain[j].op # "remove"}

FoldMembers(chain) ==
  LET f[i \in 0 .. Len(chain)] ==
        IF i = 0 THEN {}
        ELSE IF chain[i].op = "remove" THEN f[i - 1] \ {chain[i].peer}
        ELSE f[i - 1] \cup {chain[i].peer}
  IN  f[Len(chain)]

(***************************************************************************)
(* Whether `entry` passes every rule of an entry after the first.          *)
(***************************************************************************)
CanAppend(chain, entry) ==
  \/ entry.op = "add" /\ entry.peer \in Keyed
  \/ entry.op = "remove" /\ entry.peer # Admin /\ entry.peer \in Members(chain)

(***************************************************************************)
(* A chain that passed the rules entry by entry from its genesis on.       *)
(***************************************************************************)
ValidChain(chain) ==
  /\ chain # <<>> /\ chain[1] = Create
  /\ \A n \in 2 .. Len(chain) : CanAppend(SubSeq(chain, 1, n - 1), chain[n])

(***************************************************************************)
(* The indices of the entries that removed `peer` for good: nothing later  *)
(* names them again.  DepartureAt is the loop of departure_seq, counting   *)
(* from one, with 0 for a peer that is not out.                            *)
(***************************************************************************)
DeparturesAny(chain, peer) == {i \in DOMAIN chain : chain[i] = Remove(peer)}

Departures(chain, peer) ==
  {i \in DOMAIN chain :
     /\ chain[i] = Remove(peer)
     /\ \A j \in DOMAIN chain : j > i => chain[j].peer # peer}

DepartureAt(chain, peer) ==
  LET f[i \in 0 .. Len(chain)] ==
        IF i = 0 THEN 0
        ELSE IF chain[i].peer # peer THEN f[i - 1]
        ELSE IF chain[i].op = "remove" THEN i ELSE 0
  IN  f[Len(chain)]

(***************************************************************************)
(* How many entries a peer may be served: all of them if the member table  *)
(* lists it, those up to its removal if it once was a member, none         *)
(* otherwise (the code refuses instead of answering with none).            *)
(***************************************************************************)
ServedLengthAll(chain, members, peer) ==
  IF peer \in members \/ Departures(chain, peer) # {} THEN Len(chain) ELSE 0

ServedLength(chain, members, peer) ==
  IF peer \in members THEN Len(chain)
  ELSE IF Departures(chain, peer) # {}
       THEN CHOOSE i \in Departures(chain, peer) : TRUE
       ELSE 0

(***************************************************************************)
(* The entries answered to Fetch{from}: from is capped by the limit, so a  *)
(* peer that is ahead of us gets an empty answer rather than an error.     *)
(***************************************************************************)
EntriesBetween(chain, from, to) == SubSeq(chain, from + 1, to)

(***************************************************************************)
(* Whether the entries of `chain` are the first ones of `other`.           *)
(***************************************************************************)
Begins(chain, other) ==
  Len(chain) <= Len(other) /\ \A i \in DOMAIN chain : chain[i] = other[i]

(***************************************************************************)
(* Whether the chain has ever named `peer`; a standing about anybody else  *)
(* is dropped.                                                             *)
(***************************************************************************)
EverMentioned(chain, peer) ==
  peer = Admin \/ \E i \in DOMAIN chain : chain[i] = Add(peer)

-----------------------------------------------------------------------------
(***************************************************************************)
(* The loops of the code compute what is said above without them.          *)
(***************************************************************************)
MembersIsFold(chain) == Members(chain) = FoldMembers(chain)

DepartureIsLoop(chain) ==
  \A p \in Peers : Departures(chain, p) =
     IF DepartureAt(chain, p) = 0 THEN {} ELSE {DepartureAt(chain, p)}

=============================================================================
