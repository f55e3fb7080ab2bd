\* one worker, two references of one name: the files and what becomes of them
CONSTANTS
  Refs = {1, 2}
  Names = {1}
  Contents = {c1, c2}
  NameOf <- SameName
  Torn = torn
  Promised = {1}
  Workers = {w1}
  CLAIM = 1
  MaxAttempts = 2
  MaxChanges = 2
  MaxMishaps = 1
  w1 = w1
  c1 = c1
  c2 = c2
  torn = torn
SYMMETRY Alike
SPECIFICATION Spec
INVARIANT InPlace
PROPERTIES ForwardOnly DroppedByUser
