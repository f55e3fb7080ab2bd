------------------------------ MODULE GroupLog ------------------------------
(***************************************************************************)
(* What the exchange of ac-groups promises about a group, said without a   *)
(* message: one log, which only the admin writes, and a copy of its        *)
(* beginning at every other peer, which grows by catching up with the log  *)
(* in one step and is given up only by a peer it does not name.            *)
(*                                                                         *)
(* GroupSync implements this: its fetches, answers, losses and timeouts    *)
(* are all stutters of it but the one that applies an answer.              *)
(***************************************************************************)
EXTENDS GroupChain

CONSTANT Readers   \* the peers that keep a copy (the admin keeps the log itself)

VARIABLES
  log,      \* the admin's chain
  copies    \* per reader: the chain it holds, <<>> if it knows of no group

logVars == <<log, copies>>

(***************************************************************************)
(* What a peer may know of the group ends while it is a member, or with    *)
(* the entry that removed it.                                              *)
(***************************************************************************)
EndsWithin(n, c) == c # <<>> => n \in Members(c) \/ c[Len(c)] = Remove(n)

(***************************************************************************)
(* The admin adds or removes, or makes departures official: the log grows  *)
(* by entries the rules of a chain allow.                                  *)
(***************************************************************************)
Write ==
  /\ log' # log
  /\ log' \in Seq(Entry) /\ Begins(log, log') /\ ValidChain(log')
  /\ UNCHANGED copies

CatchUp(n) ==
  \E k \in Len(copies[n]) .. Len(log) :
    /\ EndsWithin(n, SubSeq(log, 1, k))
    /\ copies' = [copies EXCEPT ![n] = SubSeq(log, 1, k)]
    /\ UNCHANGED log

Forget(n) ==
  /\ n \notin Members(copies[n])
  /\ copies' = [copies EXCEPT ![n] = <<>>]
  /\ UNCHANGED log

Init == log = <<Create>> /\ copies = [n \in Readers |-> <<>>]

Next == Write \/ \E n \in Readers : CatchUp(n) \/ Forget(n)

Spec == Init /\ [][Next]_logVars

-----------------------------------------------------------------------------
LogTypeOK == log \in Seq(Entry) /\ copies \in [Readers -> Seq(Entry)]

(***************************************************************************)
(* Every copy is the beginning of the log, and ends where its holder may   *)
(* still know of the group.                                                *)
(***************************************************************************)
Followed == \A n \in Readers : Begins(copies[n], log) /\ EndsWithin(n, copies[n])

(***************************************************************************)
(* Of two copies one begins the other: the peers of a group never hold     *)
(* histories that contradict each other.                                   *)
(***************************************************************************)
CopiesAgree ==
  \A n, m \in Readers : Begins(copies[n], copies[m]) \/ Begins(copies[m], copies[n])

(***************************************************************************)
(* A peer that is a member by its own copy never loses an entry of it.     *)
(***************************************************************************)
MembersKeepTheirs ==
  [][\A n \in Readers : n \in Members(copies[n]) => Begins(copies[n], copies'[n])]_logVars

=============================================================================
