CONSTANTS
  SECS_PER_DAY = 1
  SECSPERREPEAT = 100
  Zones <- MCZones
  Instants <- MCInstants
SPECIFICATION Spec
INVARIANTS TypeOK Bracketed
PROPERTY AnswersLookup
CHECK_DEADLOCK FALSE
