SPECIFICATION Spec
CONSTANTS
  t1 = t1
  t2 = t2
  h1 = h1
  h2 = h2
  m1 = m1
  m2 = m2
  None = None
  Thread = {t1, t2}
  Hash = {h1, h2}
  Manifest = {m1, m2}
  ChunksOf <- MCChunksOf
  MayPut <- MCMayPut
  MaxFaults = 1
INVARIANTS
  TypeOK
  PresentOnDisk
  CompleteOnDisk
  NoLostMark
  SoleWritersPlaceWholeBlobs
PROPERTY KeepsChunks
