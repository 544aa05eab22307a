SPECIFICATION ElectionSpec
CONSTANTS
  Managers = {n1, n2, n3}
  NoOne = NoOne
  MaxElections = 3
  MaxUpdates = 0
  MaxQuits = 0
CHECK_DEADLOCK FALSE
INVARIANTS
  OneVotePerTerm
