CONSTANTS
  Setups <- LongOnes
  LOOKBACK_SIZE = 6
  Capacity = 30
  MIN_GROWN = 7
  Byte = {0, 1, 2}
  Junk = 2
  INPUT_BUF_SIZE = 44
  REFILL_BELOW = 30
  GENERIC_REFILL = 16
  FASTLOOP_MAX_BYTES_READ = 24
  FASTLOOP_MAX_BYTES_WRITTEN = 12
  MATCH_OVERCOPY = 2
  MAX_MATCH = 5
  DOUBLE_LITERAL_MIN_INPUT = 0
  LITLEN_TABLEBITS = 11
  MAX_BLOCKS_WITHOUT_OUTPUT = 3
  Takes = {10}
  MaxResets = 1
SPECIFICATION Spec
INVARIANTS
  OutputIsPrefix
  FastloopSafe
PROPERTIES
  EventuallyDecoded
