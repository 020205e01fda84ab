\* Life cycle, scheduler, dispatcher, subscriptions, heartbeat, state cache, publishing,
\* API server, state sync and configuration of the node, one at a time.
CONSTANTS
  Prepare <- Controlled
  Launch <- Controlled
  Shutdown <- Controlled
  CanFail = {"timeline"}
  StateSync = FALSE
  Signals = {sigint, sigterm}
  AnyPoint = FALSE
  Delays = {0, 1}
  IdleWait = 10
  MaxTasks = 2
  MaxTime = 2
  Tasks = {t1, t2, t3, t4}
  ForHandler = {t4}
  Delayed = {t3}
  PoolSize = 1
  Subscribers = {u1, u2}
  Keys = {k}
  SetIds = {0}
  MaxEvents = 2
  MaxEntries = 3
  GenesisMs = 1
  IntervalMs = 2
  Grain = 2
  MaxClock = 14
  CacheKeys = {"a", "b", "c"}
  Capacity = 2
  ValueOf <- OwnKey
  TickBits = 3
  OwnSubnets = {0}
  Outputs <- TickOutputs
  MaxBeats = 2
  Connections = {c1}
  MaxBlock = 2
  UrlOk = TRUE
  Tls = TRUE
  RegistryFiles <- MCRegistryFiles
  NodesFiles <- MCNodesFiles
  Inputs <- MCInputs
  OwnNode = "n1"
  OwnPeer = "p1"
  CliIsAggregator = FALSE
  SubnetCount = 2
  ValidatorCount = 3
SPECIFICATION Spec
INVARIANTS QueueServed TasksPlaced DeliveredInOrder FinalizedServed 
PROPERTIES  WorkerServes EveryoneIsCalled HeartbeatRegular ImplementsRecency EverythingPublished AnchorDecided
CHECK_DEADLOCK FALSE
