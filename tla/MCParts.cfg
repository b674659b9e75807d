SPECIFICATION Spec
CONSTANTS
  LOOKBACK_SIZE = 3
  Capacity = 2
  MIN_GROWN = 3
  Byte = {0, 1}
  Junk = 0
  MaxProduced = 7
  NumLitlen = 12
  FirstLen = 9
  NumOffset = 4
  ExtraBits <- MCExtraBits
  FastLimit = 4
  MaxBits = 5
  SweepTo = 4
  Counts <- MCCounts
  LensSamples <- MCLensSamples
  SmallSyms = {0, 1, 2, 3, 4}
  SmallCounts = {0, 1, 3, 4, 9}
  SmallLimit = 4
  SmallTables = {2, 3}
  Literals = {0, 1, 3}
  Matches <- MCMatches
  Jobs <- MCJobs
  JobCosts <- MCCosts
  MinLens = {2, 3}
  SOFT_MAX_BLOCK_LENGTH = 12
  MIN_BLOCK_LENGTH = 7
  MATCH_CACHE_LENGTH = 24
  REQUIRED_NBYTES = 2
  BLOCK_CHECK = 2
  DEFLATE_MIN_MATCH_LEN = 2
  DEFLATE_MAX_MATCH_LEN = 4
  Efforts <- MCEfforts
  Sizes = {10, 11, 12, 13, 14}
  Improvements = {1, 2}
  NonfinalBits = {1, 3}
INVARIANTS
  BufferTypeOK
  WindowHoldsTail
  LookbackExact
  ChecksumCoversOnce
  CompactionMakesRoom
  CodesAreOptimal
  HeaderReadsBack
  TablesDecode
  MatchesCopyRight
  BlocksRebuildInput
  PathIsCheapest
  BlocksAreWellCut
  FlushIsNearBest
  FirstStallEndsSearch
PROPERTIES
  ImplementsQueue
CHECK_DEADLOCK FALSE
