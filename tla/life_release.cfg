SPECIFICATION Spec
CONSTANTS
  Core = {h1, h2, h3}
  Name = {old, new}
  MaxRequests = 2
  MaxFaults = 3
  Foreign = Foreign
  None = None
INVARIANT UnusedCoresAreReleased
