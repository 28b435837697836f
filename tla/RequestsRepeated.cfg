SPECIFICATION Spec
CONSTANTS
  s1 = s1
  s2 = s2
  p1 = p1
  All = All
  NoSecret = NoSecret
  Sessions = {s1, s2}
  Secrets = {p1}
  d1 = d1
  d2 = d2
  u1 = u1
  Dbs = {d1, d2}
  Users = {u1}
  Owned <- MCOwned
  Shown <- MCShown
  Hits <- MCHits
  MaxNames = 2
  MaxSteps = 2
INVARIANT EachNameIsTriedOnce
CHECK_DEADLOCK FALSE
