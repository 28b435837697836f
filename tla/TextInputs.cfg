SPECIFICATION MCSpec
CONSTANTS
  sel = sel
  ins = ins
  Privs = {sel, ins}
  NoRow = NoRow
  MaxEntries = 3
  k1 = k1
  k2 = k2
  Pairs = {k1, k2}
  MaxLines = 5
  MaxEdits = 2
  MaxNameLength = 4
  Chars <- MCChars
  NameChars <- MCNameChars
  SystemGroups <- MCSystemGroups
  UnixUsers <- MCUnixUsers
  Lines <- MCLines
  MaxDenyLines = 2
INVARIANTS DenylistMeansItsLines AdvertisedPrefixWorks OrderIsIrrelevant MergedDiffApplies EditorMeansItsText
PROPERTY ErrorsLeaveTextAlone
CHECK_DEADLOCK FALSE
