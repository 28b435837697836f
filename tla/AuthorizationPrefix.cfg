SPECIFICATION DenylistSpec
CONSTANTS
  MaxNameLength = 4
  Chars <- MCChars
  NameChars <- MCNameChars
  SystemGroups <- MCSystemGroups
  UnixUsers <- MCUnixUsers
  Lines <- MCLines
  MaxDenyLines = 1
INVARIANT DeniedGroupIsNoPrefix
CHECK_DEADLOCK FALSE
