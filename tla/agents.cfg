SPECIFICATION AgentsSpec
CONSTANTS
  n1 = n1  n2 = n2  n3 = n3  c1 = c1  c2 = c2  a = a  b = b
  pub = pub  sub = sub  sub2 = sub2
  Managers = {n1, n2, n3}
  NoOne = NoOne
  MaxElections = 3
  MaxUpdates = 2
  MaxQuits = 1
  Speakers = {p1, p2, p3}
  Nobody = Nobody
  K = 2
  MaxChanges = 1
  MaxTurns = 1
  NodeStreams = {t1, t2}
  NodeLinks = {l1, l2}
  Formats = {f1}
  Nothing = Nothing
  MaxFailed = 1
  Connections = {c1, c2}
  Mids = {a, b}
  Simulcast = {a}
  Operations = {pub, sub, sub2}
  ConnectionOf <- MCConnectionOf
  MidsOf <- MCMidsOf
  PublishOperations = {pub}
  RemoteStreams = {r1}
  Unlinked = Unlinked
  MaxOffers = 3
  MaxLinkups = 2
CHECK_DEADLOCK FALSE
INVARIANTS
  ElectionHolds
  MediaInputsAgree
  WebrtcAgrees
PROPERTIES
  OneLeaderStays
