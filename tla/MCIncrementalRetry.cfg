CONSTANTS
  WINDOW_SIZE = 4
  SHORT_LEN = 2
  LONG_LEN = 2
  REQUIRED_NBYTES = 3
  MAX_MATCH_LEN = 4
  Byte = {0, 1}
  Bucket = {0, 1, 2}
  FirstBucket = 0
  HashShort <- MCHash
  HashLong <- MCHash
  BYTE = 4
  HEADER = 2
  MAX_STORED = 3
  SEQ_STORE_LENGTH = 1
  NICE_LEN = 4
  DEPTH = 2
  MinLens = {2}
  Strategies = {"ht", "greedy", "lazy"}
  Texts <- MCTexts
  Rooms = {2, 30}
  Retries = TRUE
SPECIFICATION Spec
INVARIANTS
  NeverPanics
CHECK_DEADLOCK FALSE
