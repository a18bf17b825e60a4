CONSTANTS
  Names <- MCNames
  upper <- MCUpper
  GMT = "GMT"
  Files <- MCFiles
  POSIXRULES = "POSIXRULES"
  TooLong = {"too long"}
  Colon = {":AREA/TOWN"}
  path <- MCPath
  canonical <- MCCanonical
  Contents = {old, new}
  Unreadable = Unreadable
  Fixed = {}
  Ruled = {"XST5XDT"}
  NULL = NULL
SPECIFICATION Spec
INVARIANTS TypeOK OneZonePerName LogsInGMT
PROPERTY EntriesStay
