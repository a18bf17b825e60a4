CONSTANTS
  SECS_PER_DAY = 2
  SECSPERREPEAT = 8
  Zones <- MCZones
  LocalTimes <- MCLocalTimes
  Days <- MCDays
  Times <- MCTimes
  Instants <- MCInstants
  FIRST_TIME <- MCFirstTime
SPECIFICATION Spec
INVARIANTS TypeOK EnteredTimeOccurs StandardPreferred ExtrapolationRepeats
PROPERTY DaysKeepClock
