---------------------------- MODULE MCSupervisor ----------------------------
(***************************************************************************)
(* Instances of Supervisor for TLC: every group shares with every peer.    *)
(***************************************************************************)
EXTENDS Supervisor

AllMembers == [g \in Groups |-> Peers]

=============================================================================
