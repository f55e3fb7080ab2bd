--------------------------- MODULE GroupStandings ---------------------------
(***************************************************************************)
(* What a member says about itself (crates/ac-groups/src/standing.rs): a   *)
(* signed position with a sequence number, and the rule that picks one of  *)
(* two such statements.                                                    *)
(*                                                                         *)
(* A standing is its seq and its position.  The signature is abstracted by *)
(* who creates one: only peer p makes a standing about p.  The username    *)
(* and the time it carries are left out.                                   *)
(***************************************************************************)
EXTENDS Naturals

Position == {"unanswered", "in", "out"}

Standing == [seq : Nat, pos : Position]

(***************************************************************************)
(* No statement held.  A store's standings are a total function of the     *)
(* peers, Silent where the table has no row.                               *)
(*                                                                         *)
(* Definitions that stand just before the one they resemble, with a longer *)
(* name, are that definition with a plausible mistake in it: TLC must find *)
(* a property that notices.  Nothing else uses them.                       *)
(***************************************************************************)
Silent == [seq |-> 0, pos |-> "silent"]

Word == Standing \cup {Silent}

(***************************************************************************)
(* The seq to author next, given the statement held about oneself.         *)
(***************************************************************************)
NextSeqRepeated(held) == held.seq
NextSeq(held) == held.seq + 1

(***************************************************************************)
(* The local state of a group that goes with what its node said last.      *)
(***************************************************************************)
StateOfVerbatim(pos) == pos
StateOf(pos) ==
  CASE pos = "unanswered" -> "pending"
    [] pos = "in" -> "active"
    [] pos = "out" -> "left"

(***************************************************************************)
(* Equal seqs compare the signed CBOR bodies.  The first field in which    *)
(* two bodies of one peer with one seq differ is the position, a text      *)
(* string whose length comes first: In, Out, Unanswered, in that order.    *)
(***************************************************************************)
BodyRank(pos) ==
  CASE pos = "in" -> 0
    [] pos = "out" -> 1
    [] pos = "unanswered" -> 2

Wins(mine, theirs) ==
  \/ mine.seq > theirs.seq
  \/ mine.seq = theirs.seq /\ BodyRank(mine.pos) < BodyRank(theirs.pos)

(***************************************************************************)
(* StandingSet::insert for one peer: what is held after `said` arrives.    *)
(***************************************************************************)
Later(held, said) ==
  IF said # Silent /\ (held = Silent \/ Wins(said, held)) THEN said ELSE held

=============================================================================
