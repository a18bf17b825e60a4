SPECIFICATION Spec
CONSTANTS
  datetktbl <- MCdatetktbl
  timezonetktbl <- MCtimezonetktbl
  deltatktbl <- MCdeltatktbl
  Zones <- MCZones
  FixedZones <- MCFixedZones
  Unset = Unset
  Now <- MCNow
  SessionZone <- york
  DateTexts <- MCDateTexts
  SpanTexts <- MCSpanTexts
  IsoTexts <- MCIsoTexts
  DateOrderings = {"YMD", "DMY", "MDY"}
  Styles = {"postgres", "sql_standard"}
  Months <- MCMonths
INVARIANTS
  TypeOK
  PartsKnown
  OrderFree
  NumbersKept
  EntriesAgree
  IntervalMeans
  ShownAsWritten
CHECK_DEADLOCK FALSE
