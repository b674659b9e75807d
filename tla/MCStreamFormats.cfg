CONSTANTS
  Setups <- Formats
  LOOKBACK_SIZE = 3
  Capacity = 2
  MIN_GROWN = 3
  Byte = {0, 1, 2}
  Junk = 2
  INPUT_BUF_SIZE = 16
  REFILL_BELOW = 12
  GENERIC_REFILL = 16
  FASTLOOP_MAX_BYTES_READ = 32
  FASTLOOP_MAX_BYTES_WRITTEN = 12
  MATCH_OVERCOPY = 2
  MAX_MATCH = 5
  DOUBLE_LITERAL_MIN_INPUT = 0
  LITLEN_TABLEBITS = 11
  MAX_BLOCKS_WITHOUT_OUTPUT = 3
  Takes = {1}
  MaxResets = 1
SPECIFICATION Spec
INVARIANTS
  OutputIsPrefix
  DoneIsRight
  NoFalseError
  LimitsEnforced
PROPERTIES
  FillYields
  UsesWindow
