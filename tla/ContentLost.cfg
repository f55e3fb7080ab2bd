\* One content under two names, and another content under one of them.
CONSTANTS
  ann = ann
  ben = ben
  cat = cat
  Nodes = {ann, ben}
  Links <- Pair
  Users = {ann, ben}
  Forces = {FALSE}
  Names = {1, 2}
  Hashes = {1, 2}
  ConflictFirst = TRUE
  PageSize = 1
  MaxReads = 1
  MaxDeferred = 1
  Clock <- Apart
  MaxEdits = 3
  MaxMsgs = 1
  MaxSeq = 9
  MaxMishaps = 0
CHECK_DEADLOCK FALSE
SPECIFICATION Spec
PROPERTIES ContentKept
