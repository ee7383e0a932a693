SPECIFICATION Spec
CONSTANTS
  Models = {"A", "B"}
  Contents <- MCContents
  Tools = {t1, t2}
  Span = 3
  FirstConf <- MCConf
  MaxRuns = 3
  Threads = {p, q}
  NoThread = NoThread
  Path <- MCPath
  Files <- MCFiles
  Field = "on"
  KeyValues <- MCKeyValues
  MaxAsks = 3
  Setters = {s1, s2}
  Values = {1, 2}
  Unset = 0
  MaxCalls = 3
  Apps = {a1, a2}
  Server = srv
  Nobody = nobody
  Regs = {r1, r2}
  MaxPyCalls = 4
  MaxDepth = 2
  Ids = {0, 1, 11, 12, 13, 14, 99}
  Kind <- MCKind
  NameOf <- MCNameOf
SYMMETRY Symmetry
INVARIANTS DistinctIds LookupsTellMetadata KeyAttrsComplete InstancesApart
  TargetFollowsFlag CallbacksAlive NoWaitCycle SurvivesPython
PROPERTY StableIds
CHECK_DEADLOCK FALSE
