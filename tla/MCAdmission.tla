---- MODULE MCAdmission ----
(* An instance of Admission for TLC.                                       *)
EXTENDS Admission
====
