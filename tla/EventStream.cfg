CONSTANTS
  e1 = e1
  e2 = e2
  e3 = e3
  p1 = p1
  p2 = p2
  Events <- MCEvents
  Producers <- MCProducers
SPECIFICATION Spec
INVARIANTS
  NothingLost
  NoLostWakeup
  SilentOnceReturned
PROPERTIES
  OnlyShutdownAfterShutdown
  ShutdownReturns
  DeliveredOrShutDown
  ImplementsMailbox
