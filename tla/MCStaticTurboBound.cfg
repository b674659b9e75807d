CONSTANTS
  WINDOW_SIZE = 128
  SHORT_LEN = 1
  LONG_LEN = 2
  REQUIRED_NBYTES = 3
  MAX_MATCH_LEN = 4
  Byte <- DistinctBytes
  Bucket = {0, 1}
  FirstBucket = 0
  HashShort <- MCHashShort
  HashLong <- MCHashParity
  SKIP_UPDATE_LIMIT = 3
  Inputs <- DistinctInputs
  Rooms <- BoundRooms
  BLOCK_LENGTH = 65535
  MIN_BLOCK_LENGTH = 5000
  BYTE = 8
  HEADER = 3
  END_OF_BLOCK = 7
  MATCH_BITS = 12
  LiteralBits <- StaticLiteralBits
  MAX_STORED = 65535
  STORED_OVERHEAD = 5
SPECIFICATION Spec
INVARIANTS
  BoundSuffices
CHECK_DEADLOCK FALSE
