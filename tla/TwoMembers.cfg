\* Two members that hold a file of each of two groups, and nothing goes wrong.
CONSTANTS
  Peers = {1, 2}
  Groups = {1, 2}
  Paths = {1}
  MembersOf <- AllMembers
  Strangers = {}
  Steady = {1, 2}
  Holders = {1, 2}
  DialAttempts = 1
  DialsPerWindow = 2
  MaxConnections = 2
  MaxTransfers = 2
  MaxSources = 2
  RetryAttempts = 1
  PageSize = 1
  Spaces = {4}
  MaxUpsets = 0
SPECIFICATION Spec
INVARIANT OneMember
