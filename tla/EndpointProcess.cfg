CONSTANTS
  Contents = {1, 2}
  Sizes = {0, 8, 513}
  k_max_size = 512
  k_msec_count_size = 8
  MaxInbox = 2
  MaxArrivals = 3
SPECIFICATION Spec
INVARIANTS
  NothingLostInside
  StopsAtATask
  TasksAreAccepted
  CallbackOutlivesReceiver
  ReceiverIsSound
PROPERTIES
  CallsReturn
  ImplementsEndpoint
