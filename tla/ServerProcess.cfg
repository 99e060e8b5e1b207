CONSTANTS
  Period = 2
  MaxTasks = 4
SPECIFICATION Spec
INVARIANTS
  NothingLostInside
  WireInOrder
  StopsAtATask
  SocketOpenInUse
  SenderOutlivesGateway
PROPERTIES
  PostsAreAccepted
  MadeIsSent
  StopEnds
