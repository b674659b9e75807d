CONSTANTS
  WINDOW_SIZE = 4
  SHORT_LEN = 1
  LONG_LEN = 2
  REQUIRED_NBYTES = 3
  MAX_MATCH_LEN = 4
  Byte = {0, 1}
  Bucket = {0, 1}
  FirstBucket = 0
  HashShort <- MCHashShort
  HashLong <- MCHashLong
  Texts <- MCTexts
  MaxDepth = 2
  SKIP_UPDATE_LIMIT = 2
  NiceLens = {3}
  DEPTH_LIMIT = 3
  Kinds = {"ht", "hc", "turbo", "fast_ht", "bt"}
  WholeTexts <- MCWholeTexts
SPECIFICATION FamilySpec
INVARIANTS
  AllEntriesSound
  MatchIsReal
  OnlyFreshLinks
  AllReadsInside
  PrefixIsKnown
