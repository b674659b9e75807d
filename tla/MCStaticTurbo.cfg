CONSTANTS
  WINDOW_SIZE = 4
  SHORT_LEN = 1
  LONG_LEN = 2
  REQUIRED_NBYTES = 3
  MAX_MATCH_LEN = 4
  Byte = {0, 1}
  Bucket = {0, 1}
  FirstBucket = 0
  HashShort <- MCHashShort
  HashLong <- MCHashLong
  SKIP_UPDATE_LIMIT = 2
  Inputs <- MCInputs
  Rooms = {3, 40}
  BLOCK_LENGTH = 3
  MIN_BLOCK_LENGTH = 2
  BYTE = 2
  HEADER = 1
  END_OF_BLOCK = 1
  MATCH_BITS = 3
  LiteralBits <- MCLiteralBits
  MAX_STORED = 20
  STORED_OVERHEAD = 1
SPECIFICATION Spec
INVARIANTS
  RolledBackRejected
CHECK_DEADLOCK FALSE
