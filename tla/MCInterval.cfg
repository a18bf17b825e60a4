CONSTANTS
  MONTHS_PER_YEAR = 2
  DAYS_PER_MONTH = 3
  USECS_PER_DAY = 4
  USECS_PER_HOUR = 2
  INT_LIMIT = 16
  Years <- MCYears
  Months <- MCMonths
  MDays <- MCMDays
  Hours <- MCHours
  Usecs <- MCUsecs
SPECIFICATION Spec
INVARIANTS TypeOK Justified TotalKept OneForm PrintsBack
CHECK_DEADLOCK FALSE
