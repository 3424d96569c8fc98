SPECIFICATION MCFairSpec
CONSTANTS
  libA = libA
  libB = libB
  libC = libC
  t1 = t1
  t2 = t2
  m = m
  o1 = o1
  o2 = o2
  o3 = o3
  None = None
  Names = {libA, libB}
  Threads = {t1, t2}
  Main = t1
  Graphs <- EndingGraphs
  MaxObjects = 5
  MaxFailures = 1
  MaxNesting = 1
  SymObjs = {m, o1, o2, o3}
  SymDeps <- MCSymDeps
  SymMain = m
  Bindings <- MCBindings
  Nobody = Nobody
  TlsThreads = {t1, t2}
  TlsMain = t1
  TlsObjs = {o1, o2}
  TlsShape <- MCTlsShape
  TlsReserve = 4
  LockThreads = {t1, t2}
  NoHolder = NoHolder
  MaxCalls = 2
  LibcWords = 3
  LibcTables <- MCLibc
  ExeTables <- MCExe
  LibTables <- MCLib
  LibBinds <- MCBinds
  MaxSaved = 2
  RelrBits = 3
  RelrWords = 9
  SymbolNames <- MCSymbolNames
  HashValues = {0, 1, 2, 3, 5, 12}
  BucketCounts = {1, 2, 3}
  ClassBits = 4
  BloomSize = 2
  BloomShift = 2
  Places = 4
  MaxNoMemory = 1
  RunPaths <- MCRunPaths
  ObjectPaths <- MCPaths
  NoOrigin = NoOrigin
  Layouts <- MCLayouts
  Addresses <- MCAddresses
  ExitThreads = {t1, t2}
  NoThread = NoThread
  BlockSize = 2
  MaxHandlers = 3
  MaxTls = 1
  ForkThreads = {t1, t2}
  NoForker = NoForker
  MaxAtFork = 1
  MaxForks = 2
  MaxForkFails = 1
  ProcThreads = {t1, t2}
  MaxChildren = 2
  MaxInterrupts = 0
  MaxReaped = 1
  MaxPipeFails = 0
  SpawnFds = {0, 1, 2, 3}
  SpawnBlock = 2
  MaxActions = 3
  Foci = {"load", "locks", "exit", "fork", "child"}
CHECK_DEADLOCK FALSE
PROPERTY EverythingEnds
