CONSTANTS
  SECS_PER_DAY = 2
  SECSPERREPEAT = 22
  TZ_MAX_TIMES = 8
  TZ_MAX_TYPES = 4
  YEARSPERREPEAT = 2
  year_lengths <- MCYearLengths
  TZDEFRULESTRING <- North
  Files <- MCFiles
  Rules <- MCRules
  Specs <- MCSpecs
  Instants <- MCInstants
  Unreadable = Unreadable
  Malformed = Malformed
  NoFooter = NoFooter
  NoDst = NoDst
  NoRule = NoRule
SPECIFICATION Spec
INVARIANT WallClockKept
CHECK_DEADLOCK FALSE
