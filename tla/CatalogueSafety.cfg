\* Three nodes in a line, one slot for reads, a message lost or a daemon killed.
CONSTANTS
  ann = ann
  ben = ben
  cat = cat
  Nodes = {ann, ben, cat}
  Links <- Line
  Users = {ann, ben}
  Forces = {TRUE, FALSE}
  Names = {1}
  Hashes = {1, 2}
  ConflictFirst = TRUE
  PageSize = 1
  MaxReads = 1
  MaxDeferred = 1
  Clock <- Agreeing
  MaxEdits = 2
  MaxMsgs = 1
  MaxSeq = 3
  MaxMishaps = 1
CHECK_DEADLOCK FALSE
SPECIFICATION Spec
INVARIANTS TypeOK DigestTrue LogOrdered
PROPERTIES CursorSkipsNothing MergesKeepOneCopy TombstonesHold
