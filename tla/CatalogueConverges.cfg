\* Two nodes, fair rounds, one mishap.
CONSTANTS
  ann = ann
  ben = ben
  cat = cat
  Nodes = {ann, ben}
  Links <- Pair
  Users = {ann, ben}
  Forces = {TRUE, FALSE}
  Names = {1}
  Hashes = {1, 2}
  ConflictFirst = TRUE
  PageSize = 1
  MaxReads = 1
  MaxDeferred = 1
  Clock <- Agreeing
  MaxEdits = 2
  MaxMsgs = 1
  MaxSeq = 14
  MaxMishaps = 1
CHECK_DEADLOCK FALSE
SPECIFICATION FairSpec
PROPERTIES Convergence
