\* Two members, one of them holding the two files of a group, one to a page;
\* one connection at a time, one upset.
CONSTANTS
  Peers = {1, 2}
  Groups = {1}
  Paths = {1, 2}
  MembersOf <- AllMembers
  Strangers = {}
  Steady = {1, 2}
  Holders = {1}
  DialAttempts = 1
  DialsPerWindow = 2
  MaxConnections = 1
  MaxTransfers = 1
  MaxSources = 2
  RetryAttempts = 1
  PageSize = 1
  Spaces = {1, 2}
  MaxUpsets = 1
SPECIFICATION Spec
INVARIANTS TriesBounded CountsTrue OneSource
PROPERTIES NewsKept
