---- MODULE MCImports ----
(* Instances of Imports for TLC: two references of one name; workers and   *)
(* contents are interchangeable.                                           *)
EXTENDS Imports, TLC
SameName == [r \in Refs |-> 1]
Alike == Permutations(Workers) \union Permutations(Contents)
====
