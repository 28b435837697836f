SPECIFICATION Spec
CONSTANTS
  c1 = c1
  c2 = c2
  Clients = {c1, c2}
  d1 = d1
  d2 = d2
  Dbs = {d1, d2}
  u1 = u1
  Users = {u1}
  sel = sel
  ins = ins
  Privs = {sel, ins}
  NoRow = NoRow
  Owned <- MCOwned
  Shown <- MCShown
  Hits <- MCHits
  Stored <- MCStored
  Wishes <- MCWishes
  Entries <- MCEntries
  MaxChurn = 1
PROPERTY OkMeansModified
CHECK_DEADLOCK FALSE
