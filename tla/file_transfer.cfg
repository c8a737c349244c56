SPECIFICATION FairSpec
CONSTANTS
  a = a
  b = b
  f1 = f1
  f2 = f2
  c1 = c1
  c2 = c2
  None = None
  Node = {a, b}
  File = {f1, f2}
  AuthorOf <- MCAuthorOf
  PeerOf <- MCPeerOf
  Chunk = {c1, c2}
  ChunksOf <- MCChunksOf
  Batch = 1
  Task = {t1, t2}
  MaxFaults = 1
INVARIANTS
  FileTypeOK
  OfferedCanBeServed
  SentMeansGathered
PROPERTIES
  EveryNodeKeepsChunks
  DeliversFiles
  KnownFilesComplete
