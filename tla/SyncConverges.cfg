\* Two nodes, and a peer that is invited and never comes; two messages lost or
\* overtaken, or invitations expired.
CONSTANTS
  admin = admin
  bob = bob
  carol = carol
  Peers = {admin, bob, carol}
  Admin = admin
  Keyed = {admin, bob, carol}
  Nodes = {admin, bob}
  Users = {bob}
  Guests = {bob, carol}
  MaxAdds = 2
  MaxSeq = 2
  MaxMsgs = 1
  MaxMishaps = 2
SPECIFICATION FairSpec
INVARIANT ScansAgree
PROPERTIES FollowsLog Convergence
