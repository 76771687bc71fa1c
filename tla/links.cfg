SPECIFICATION SpecLinks
CONSTANTS
  Dialer = dialer
  Acceptor = acceptor
  PendingMax = 2
  MaxPipes = 3
  MaxFaults = 2
  Subs = {u1}
  Requests = {r1, r2}
  MaxSessions = 2
  MaxFlaps = 2
  MayDie = TRUE
  Handles = {h1, h2, h3}
  NoHandle = NoHandle
  MaxGeneration = 1
  MaxReloads = 2
  Caller = caller
  Callee = callee
  LadderTop <- MCLadderTop
  AnswerTries = 3
  MaxConns = 5
  MaxSignalFaults = 2
  ConnIds = {k1, k2}
  SessionCap = 1
  BacklogMax = 1
  MaxFlows = 3
  MaxPackets = 2
  Endpoints = {e1, e2}
  Reachable = e1
  MaxEndpoints = 2
  HeaderBytes = 2
  FrameBytes <- MCFrameBytes
  MaxFrameBytes = 2
  MaxNotes = 2
  MaxTcpDials = 1
  MaxSockets = 2
  MaxTcpListens = 2
  GattDials = {1, 2}
  MaxGattEvents = 2
  Actions <- MCActions
  Sizes = {1, 2}
  BulkMin = 1
  LowThreshold = 2
  HighOption = 1
  MaxFrames = 3
  Presences = {p1, p2}
  Scans = {s1}
  MaxUdpSockets = 4
  MaxBindFaults = 1
  BtPresences = {1, 2}
  BtListeners = {3}
  Seekers = {s1, s2}
  MaxRadioFaults = 1
  MaxSightings = 2
  Entries <- MCEntries
  MaxUnsaved = 1
  MaxDenyCalls = 4
  Authors = {a, b}
  PersonOf <- MCPersonOf
  PersonalLists = {hide}
  Edits = {o1, o2}
  MonitorRelays = {n1, n2}
  Configured = {n1}
  Voters = {v1}
  MaxStamp = 2
  MaxMonitored = 2
  MaxVerifying = 2
  MaxDrops = 1
  Pulls = {q1}
  Donor = donor
  Stranger = stranger
  MaxTables = 2
  PoolRelays = {1, 2, 3}
  Pins = {1}
  Monitors = {3}
  HiddenRelays = {2}
  DeadNames = {}
  Rtt <- MCRtt
  PeerClaims <- MCPeerClaims
  WorkingMax = 3
  ListenMax = 1
  RoundTarget = 1
  HistoryMax = 1
  FanoutMax = 2
  RoutingTries = 2
  BatchSize = 1
  MaxProbes = 2
  Directed = {j1}
  DiscoveryRounds = {d1}
  MaxPoolEvents = 1
  FileNodes = {o1, n1}
  FileOwner = o1
  ReadersAt = {n1}
  Publications = {1, 2}
  FileReads = {1, 2}
  PartsOf <- MCPartsOf
  MaxPublishedAt = 2
  PartMax = 2
  MaxFileBytes = 5
INVARIANTS LinksTypeOK ReadyIsAuthenticated ReorderingIsHarmless SocketServes ListenersAreHeld HandshakesAreClean ReportsHold TransportsCarry FilesAreSound
PROPERTIES PipeSettles  RebuildSparesLink LanIsHeard
CHECK_DEADLOCK FALSE
