SPECIFICATION Spec
CONSTANTS
  BlockSize = 256
  KeyLen = 1
  NonceLen = 2
  ErrorTextLen = 20
  ChunkSize <- MCChunkSize
  FileSizeLen = 1
  AuthTagSize = 1
  KsBlock = 4
  PolyKeyLen = 2
  ProgressSeg = 3
  HeaderWindow = 10
  KB = 4
  MaxSource = 240
  MaxTrip = 20
  Peers <- MCPeers
  GoodPeer <- MCGoodPeer
  ClientMin = 1
  ClientMax = 3
  Names <- MCNames
  RecipientCounts = {0, 2, 256}
  CutAt = {0, 1, 2, 3, 8, 20, 255}
  Errors = {"BLOCK", "BLOCKED", "CMD", "AUTH", "NO_FILE", "SESSION"}
  BodyFaults = {"alter", "cut", "swap"}
  MaxFaults = 1
INVARIANT ConnectsRight
INVARIANT ChunksFit
INVARIANT OneStream
INVARIANT ReadAsSent
INVARIANT DescriptionExact
INVARIANT FileExact
CHECK_DEADLOCK FALSE
