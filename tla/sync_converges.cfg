SPECIFICATION FairSpec
CONSTANTS
  a = a
  b = b
  old = old
  new = new
  w1 = w1
  w2 = w2
  w3 = w3
  k1 = k1
  x1 = x1
  x2 = x2
  e1 = e1
  e2 = e2
  e3 = e3
  None = None
  Node = {a, b}
  Bonjour = {}
  Task = {}
  Name = {old}
  Addr = {w1, w2}
  FirstName <- MCFirstName
  FirstAddr <- MCFirstAddr
  MaxChanges = 0
  Event = {e1, e3}
  AuthorOf <- MCAuthorOf
  PeerOf <- MCPeerOf
  File = {e1}
  Exchange = {x1}
  MaxFrame = 2
  Met <- MCMet
PROPERTY Converges
