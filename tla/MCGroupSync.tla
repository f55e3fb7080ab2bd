--------------------------- MODULE MCGroupSync ----------------------------
(***************************************************************************)
(* Instances of GroupSync for TLC.                                         *)
(***************************************************************************)
EXTENDS GroupSync

CONSTANTS admin, bob, carol

=============================================================================
