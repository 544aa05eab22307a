SPECIFICATION FairSpec
CONSTANTS
  c1 = c1  c2 = c2
  NoConnection = NoConnection
  Connections <- TwoConnections
  MaxLogins <- LoginsOfTwo
  MaxFaults = 1
CHECK_DEADLOCK FALSE
INVARIANTS
  TypeOK
  ServedWhileIn
  DockAgreesWithPortal
  WaitingIsTimed
  DockedIsMember
  OneVoice
PROPERTIES
  LoginAnswered
  WaitingEnds
  LeaverLeaves
