\* The store of the admin and of a member: the daemon and a command in any order.
CONSTANTS
  admin = admin
  bob = bob
  app = app
  Peers = {admin, bob}
  Admin = admin
  Keyed = {admin, bob}
  Selves = {admin, bob}
  Apps = {app}
  Daemon = daemon
  Guests = {bob}
  MaxAdds = 2
  MaxSeq = 2
  MaxCrashes = 1
SPECIFICATION FairSpec
INVARIANTS TypeOK StoredIsLog AcknowledgedStored OnlyMembersStand CacheInStepAlone DigestInStep
PROPERTIES HeadMovesMembers LeftStaysAlone OwnWordClimbs DepartureRatified
