\* A member that holds a file of each of two groups, one transfer at a time, one upset.
CONSTANTS
  Peers = {1}
  Groups = {1, 2}
  Paths = {1}
  MembersOf <- AllMembers
  Strangers = {}
  Steady = {1}
  Holders = {1}
  DialAttempts = 1
  DialsPerWindow = 1
  MaxConnections = 1
  MaxTransfers = 1
  MaxSources = 2
  RetryAttempts = 1
  PageSize = 1
  Spaces = {3}
  MaxUpsets = 1
SPECIFICATION FairSpec
INVARIANTS OneSource SourceDriven
PROPERTIES WantedArrive CallsEnd
