CONSTANTS
  Names <- MCNames
  Alphabetic <- MCAlphabetic
  Files <- MCFiles
  Abbrevs <- MCAbbrevs
  MAX_DEPTH = 3
  ARRAY_SIZE = 1
  Fields = {0, 1}
  Words <- MCWords
  datetktbl <- MCdatetktbl
  deltatktbl <- MCdeltatktbl
  NULL = NULL
SPECIFICATION TokensSpec
INVARIANTS TypeOK Ordered HasRoom LastWordWins AnswersByFile
PROPERTY LoadEnds
