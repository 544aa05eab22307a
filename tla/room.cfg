SPECIFICATION RoomSumSpec
CONSTANTS
  s1 = s1  s2 = s2  u1 = u1  u2 = u2  m1 = m1  m2 = m2
  i1 = i1  o1 = o1  d1 = d1  d2 = d2
  MixedStream = MixedStream
  None = None
  Streams = {s1, s2}
  Subscriptions = {u1, u2}
  MixCalls = {m1, m2}
  Scenarios <- MCScenarios
  MaxFailures = 1
  MixerStreams = {p1, p2, p3}
  NoStream = NoStream
  MaxInput = 2
  Templates = {1, 2}
  MaxRegions = 2
  MaxRare = 1
  StreamingIns = {i1}
  ServerOutputs = {o1}
  SourceOf <- MCSource
  AnalyticsChoices = {{}, {o1}}
  AccessNodes = {d1, d2, d3}
  NoWhere = NoWhere
  Spare = d3
  Placements <- MCPlacements
  MaxTroubles = 1
  ControlStreams = {c1, c2}
  ControlViews = {v1, v2}
  MixTracks = {x1, x2}
  Requests = {r1, r2}
  NoView = NoView
  NoSource = NoSource
  MaxSourceChanges = 2
  MaxMishaps = 1
CHECK_DEADLOCK FALSE
INVARIANTS
  RoomConsistent
  MixerConsistent
  SessionsAgree
  ControlsAgree
PROPERTIES
  CallsAnswered
