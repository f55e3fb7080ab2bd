---------------------------- MODULE MCGroupStore ----------------------------
(***************************************************************************)
(* Instances of GroupStore for TLC.                                        *)
(***************************************************************************)
EXTENDS GroupStore

CONSTANTS admin, bob, app

=============================================================================
