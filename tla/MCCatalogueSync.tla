-------------------------- MODULE MCCatalogueSync ---------------------------
(***************************************************************************)
(* Instances of CatalogueSync for TLC.                                     *)
(***************************************************************************)
EXTENDS CatalogueSync

CONSTANTS ann, ben, cat

Agreeing == [n \in Nodes |-> {1, 2}]
Line == {<<ann, cat>>, <<cat, ann>>, <<ben, cat>>, <<cat, ben>>}
Pair == {<<ann, ben>>, <<ben, ann>>}
Apart == [n \in Nodes |-> IF n = ann THEN {2} ELSE {1}]

=============================================================================
