SPECIFICATION FairPairingSpec
CONSTANTS
  a = a
  b = b
  old = old
  new = new
  w1 = w1
  w2 = w2
  k1 = k1
  None = None
  Node = {a, b}
  Bonjour = {b}
  Task = {k1}
  Name = {old, new}
  Addr = {w1, w2, w3}
  FirstName <- MCFirstName
  FirstAddr <- MCFirstAddr
  MaxChanges = 3
INVARIANTS
  TypeOK
  OneSidedOnlyByRequest
PROPERTIES
  PairingIsStable
  EndpointsAreKept
  EndpointsHeal
  PairsByHandshake
