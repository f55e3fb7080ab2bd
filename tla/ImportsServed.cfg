\* two workers and one reference: claims, leases, kills and scans
CONSTANTS
  Refs = {1}
  Names = {1}
  Contents = {c1, c2}
  NameOf <- SameName
  Torn = torn
  Promised = {1}
  Workers = {w1, w2}
  CLAIM = 1
  MaxAttempts = 2
  MaxChanges = 1
  MaxMishaps = 2
  w1 = w1
  w2 = w2
  c1 = c1
  c2 = c2
  torn = torn
SPECIFICATION FairSpec
INVARIANT OneClaim
PROPERTY OfferedSettle
