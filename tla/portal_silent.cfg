SPECIFICATION Spec
CONSTANTS
  c1 = c1  c2 = c2
  NoConnection = NoConnection
  Connections <- TwoConnections
  MaxLogins <- LoginsOfTwo
  MaxFaults = 0
CHECK_DEADLOCK FALSE
INVARIANT
  SilentIsTimed
