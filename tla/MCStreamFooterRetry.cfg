CONSTANTS
  Setups <- Retried
  LOOKBACK_SIZE = 6
  Capacity = 14
  MIN_GROWN = 7
  Byte = {0, 1, 2}
  Junk = 2
  INPUT_BUF_SIZE = 16
  REFILL_BELOW = 12
  GENERIC_REFILL = 16
  FASTLOOP_MAX_BYTES_READ = 32
  FASTLOOP_MAX_BYTES_WRITTEN = 12
  MATCH_OVERCOPY = 2
  MAX_MATCH = 5
  DOUBLE_LITERAL_MIN_INPUT = 16
  LITLEN_TABLEBITS = 11
  MAX_BLOCKS_WITHOUT_OUTPUT = 3
  Takes = {}
  MaxResets = 0
SPECIFICATION Spec
INVARIANTS
  NeverCalledCorrupt
