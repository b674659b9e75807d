CONSTANTS
  BYTE = 4
  HEADER = 2
  MAX_STORED = 4
  WINDOW = 2
  MIN_MATCH = 2
  MAX_MATCH = 2
  MIN_BLOCK_LENGTH = 2
  FAST_SOFT_MAX_BLOCK_LENGTH = 4
  MIN_CHUNK = 3
  MIN_PARALLEL = 6
  GzipInputs <- MCGzipInputs
  GzipLevels <- MCGzipLevels
  GzipRooms = {17, 23, 34, 45}
  Threads = {0, 3}
  Images <- MCImages
  StripLevels <- MCGzipLevels
  ShortRoom = 3
  SpareRooms = {0, 1}
  MAX_CHUNK_LEN = 300
  ByteOf <- MCByteOf
  FirstPieces = {0, 1, 15, 16, 63, 64, 130, 260, 300, 520, 1525}
  NextPieces = {0, 5, 70}
  MaxPieces = 2
  Modulus = 3
  Width = 36
  TopByte = 1
  ChunkLen = 6
SPECIFICATION Spec
INVARIANTS
  GzipIsRight
  StripsAreRight
  SumsAgree
  ChunkIsRight
