SPECIFICATION MaterializeSpec
CONSTANTS
  t1 = t1
  h1 = h1
  h2 = h2
  m1 = m1
  c1 = c1
  c2 = c2
  report = report
  song = song
  partial = partial
  r = r
  None = None
  Junk = Junk
  Thread = {t1}
  Hash = {h1, h2}
  Manifest = {m1}
  ChunksOf <- MCChunksOf
  MayPut <- MCMayPut
  MaxFaults = 1
  Caller = {c1, c2}
  Dest = {report, song, partial}
  TempOf <- MCTempOf
  ContentOf <- MCContentOf
  Asks <- MCAsks
INVARIANT MaterializeTypeOK
PROPERTY PlacesAtomically
