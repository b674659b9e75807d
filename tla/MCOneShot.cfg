CONSTANTS
  Jobs <- Calls
  Junk = 2
  FASTLOOP_MAX_BYTES_READ = 24
  FASTLOOP_MAX_BYTES_WRITTEN = 12
  MATCH_OVERCOPY = 2
  MAX_MATCH = 5
  DOUBLE_LITERAL_MIN_INPUT = 16
  LITLEN_TABLEBITS = 11
  DECOMPRESS_STOP_INTERVAL = 2
  StopsAt = {0, 1, 4, 10, 9999}
SPECIFICATION MCSpec
INVARIANTS
  CallIsRight
  LoopsAreSafe
  ScanAgrees
