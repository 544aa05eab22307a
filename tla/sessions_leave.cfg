SPECIFICATION Spec
CONSTANTS
  p1 = p1  p2 = p2  p3 = p3
  s1 = s1  s2 = s2  b1 = b1
  t1 = t1  t2 = t2  n1 = n1  n2 = n2
  NoNode = NoNode
  Participants <- TwoParticipants
  Streams <- OneStream
  Subs <- OneSub
  Transports <- TwoTransports
  Nodes <- TwoNodes
  Owner <- OwnerOfTwo
  TransportOf <- TransportOfTwo
  SourceOf <- SourceOfSub
  Placement <- SharedPlacement
  participantLimit = 0
  inputLimit = 1
  MaxRpcFaults = 0
  MaxTransportFaults = 0
CHECK_DEADLOCK FALSE
PROPERTY
  LeaverIsOut
