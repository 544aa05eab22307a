SPECIFICATION ApartSpec
CONSTANTS
  p1 = p1  p2 = p2  p3 = p3
  s1 = s1  s2 = s2  b1 = b1
  t1 = t1  t2 = t2  n1 = n1  n2 = n2
  NoNode = NoNode
  Participants <- TwoParticipants
  Streams <- TwoStreams
  Subs <- OneSub
  Transports <- TwoTransports
  Nodes <- TwoNodes
  Owner <- OwnerOfThree
  TransportOf <- TransportOfThree
  SourceOf <- SourceOfSub
  Placement <- ApartPlacement
  participantLimit = 0
  inputLimit = 1
  MaxRpcFaults = 1
  MaxTransportFaults = 0
CHECK_DEADLOCK FALSE
INVARIANTS
  InputLimitHeld
  LeasedNodeReachable
PROPERTIES
  RequestAnswered
  OrphanTerminated
  LeaverReleasesNodes
