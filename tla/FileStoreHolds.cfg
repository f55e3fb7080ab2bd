\* one name and two contents, one command, one mishap
CONSTANTS
  Names = {1}
  Hashes = {1, 2}
  ConflictFirst = TRUE
  Listed <- PeersList
  Times = {2}
  MaxSeq = 3
  MaxEdits = 1
  MaxMishaps = 1
SPECIFICATION FairSpec
INVARIANT HeldIsOnDisk
PROPERTIES MergeKeepsACopy MissingArrive
CHECK_DEADLOCK FALSE
