---- MODULE MCFileStore ----
(* An instance of FileStore for TLC: what the peers of a group may list of *)
(* one name is a file, newer content that displaces it, the copy of the    *)
(* file that another node displaced, and the file's removal.               *)
EXTENDS FileStore
Listing(p, h, added, removed) == [path |-> p, hash |-> h, added |-> added, removed |-> removed]
PeersList == {Listing(<<1>>, 1, 1, 0), Listing(<<1>>, 2, 2, 0),
              Listing(<<1, 1>>, 1, 1, 0), Listing(<<1>>, 1, 1, 2)}
====
