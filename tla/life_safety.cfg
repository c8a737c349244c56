SPECIFICATION FairBusSpec
CONSTANTS
  Core = {h1, h2, h3}
  Name = {old, new}
  MaxRequests = 2
  MaxFaults = 3
  Foreign = Foreign
  None = None
  Capacity = 2
  MaxEvents = 5
INVARIANTS
  LifeTypeOK
  StartedCoreServes
  CallsOnLiveCores
  PublishedNameIsCurrent
  BusTypeOK
  OnlyOvertakenAreLost
PROPERTIES
  EventsInOrder
  EventsArrive
