SPECIFICATION Spec
INVARIANTS
  NoLostShutdown
  ShutdownOnce
  ObserverOnLiveApp
  SuccessMeansSignalled
PROPERTIES
  NeverKilledOnceMasked
  SignalEndsProcess
