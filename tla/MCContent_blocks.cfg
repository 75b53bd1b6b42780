SPECIFICATION MkfsSpec
CONSTANTS
  p1 = p1
  p2 = p2
  i0 = i0
  i1 = i1
  i2 = i2
  f1 = f1
  f2 = f2
  None = None
  Procs = {p1, p2}
  Inodes = {i0, i1, i2}
  Linked = {i0}
  Inum <- Numbers
  NINODES = 3
  IPB = 8
  LOGSIZE = 0
  Programs <- OneOrTwoFiles
  Files = {f1, f2}
  BSIZE = 2
  NDIRECT = 1
  SIZE = 13
  NMETA = 5
  BPB = 11
  MAXOPBLOCKS = 6
  W = 16
  Buffers <- SomeBuffers
  Lengths = {3}
  MaxDeleted = 1
  Opens <- EachItsOwn
VIEW InUse
SYMMETRY Symmetric
INVARIANTS
  OneOwner NoLeak TxnFits ReadsBack ReadsOnlyButRoot
