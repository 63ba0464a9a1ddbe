SPECIFICATION MCSpec
CONSTANTS
  FsProcs = {p1, p2}
  NoProc = NoProc
  Names = {"a", "b"}
  FsPaths <- Paths
  NINODES = 4
  NINODE = 3
  NFILE = 1
  MaxCalls = 4
  IoProcs = {q1, q2}
  FileInodes = {1, 2}
  OpenFiles = {1, 2, 3}
  InodeOf <- InodeOfFile
  ByteValues = {v1, v2}
  NB = 5
  BPB = 100
  BSIZE = 2
  NDIRECT = 1
  NINDIRECT = 3
  MAXOPBLOCKS = 6
  UINT = 16
  Sizes <- WriteSizes
  MaxIo = 3
  None = None
SYMMETRY Symmetry
INVARIANTS NoFsPanic TableInv LinksCoverNames BlocksAccounted ChunksSafe
PROPERTY FilesAreBytes
