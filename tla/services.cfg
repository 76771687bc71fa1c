SPECIFICATION SpecServices
CONSTANTS
  Others = {p1, p2}
  InitialMembers = {p1}
  Listeners = {l1, l2}
  MaxStarts = 2
  MeshPeers = {1, 2}
  Slots = 1
  PromoteAfter = 2
  Befriended = {2}
  CloseTime = 1
  MaxClock = 2
  MaxDials = 1
  Envelopes = {e1, e2, e3}
  Long = {e1, e2}
  MaxPartials = 1
  MaxCompleted = 1
  MaxCopies = 2
  Relays = {r1, r2}
  Seeds = {r1}
  PoolCap = 1
  LastGoodMax = 1
  Rtts = {1}
  DefaultRtt = 2
  MaxRtt = 9
  FailureWeight = 4
  StaleAfter = 2
  MaxTicks = 1
  MaxAttempts = 2
  Writers = {1, 2}
  Readers = {1}
  MaxEvents = 3
  MaxWall = 2
  Tasks = {t1, t2, t3}
  MaxRows = 2
  MaxCrashes = 1
  Nodes = {1, 2, 3}
  Origin = 1
  Edges <- MCEdges
  Holders = {2, 3}
  Queries = {q1}
  Ttl = 2
  Hosts = {1, 2, 3, 4}
  Asker = 1
  Wanted = 4
  Wires <- MCWires
  Discoveries = {d1}
  RouteTtl = 2
  MaxHops = 6
  Keys = {k1, k2}
  Fetchers = {c1, c2, c3}
  MaxInflight = 1
  MaxFetches = 3
  Rated = {1, 2}
  Invites <- MCInvites
  MaxScore = 2
  Imported = {3}
  RecidivismMax = 3
  WantThreshold = 2
  CollusionMaxHop = 2
  MaxCalls = 3
  Chunks = {1, 2}
  Paths = {a, b}
  Contents <- MCContents
  Putters = {w1, w2}
  MaxPuts = 2
  MaxGcs = 1
  MaxStoreCrashes = 1
  AdvertKeys = {k1}
  Watchers = {w1, w2}
  MaxConnects = 1
  MaxListens = 2
  MaxProviders = 2
  Targets = {r1, r2, r3}
  MailNodes = {n1, n2, n3}
  Author = n1
  Addressee = n3
  Mails = {m1}
  MaxHop = 3
  FanoutTrusted = 2
  FanoutNormal = 1
  WantFanout = 1
  MaxWants = 2
  MaxExpiries = 1
  LinkPeers = {p1, p2}
  MaxLinks = 3
  MaxEnsures = 1
  MaxShutdowns = 1
  ScopePrefixes = {r1, r2}
  MaxAuthorizers = 2
  MaxListeners = 2
  MaxEnvelopes = 1
  Disposers = {d1, d2}
  Callers = {c1, c2, c3}
  MaxStops = 1
  Known = {1, 2, 3, 4}
  Self = 4
  HintSources = {s1, s2}
  Scores <- MCScores
  MaxTrusted = 2
  MaxExplore = 3
  MaxHints = 4
  MaxHintsPerSource = 2
  MeshN = 2
  MeshK = 1
  ExploreMaxPerSource = 2
  TrustedSlots = 1
  ExploreSlots = 1
  AnchorSets = {{}, {1}}
  Quarantines = {{}, {2}}
  MaxPoolCalls = 3
INVARIANTS ServicesTypeOK GroupIsClean PoolIsTrue MailStaysNear ShutdownLeavesNothing PoolsAreFair DiscoveryServes AnswersAreSound DoneOnce LogStays ScopesServe
PROPERTIES PromotionEarned UntouchedFilesSurvive
CHECK_DEADLOCK FALSE
