SPECIFICATION MCSpec
CONSTANTS
  nameA = nameA
  nameB = nameB
  root = root
  joe = joe
  Servers <- MCServers
  Questions = {q1, q2}
  Ports = {1, 2}
  Junk = Junk
  Tries = 3
  MaxQueries = 2
  MaxJunk = 1
  LogThreads = {t1, t2}
  LogFds = {3, 4}
  MaxMessages = 2
  MaxCloses = 1
  MaxOtherOpens = 1
  Content <- MCContent
  Newline = 0
  UngetSize = 2
  Fds = {3, 4}
  MaxItems = 2
  EnvNames = {nameA, nameB, nameC}
  EnvValues = {1, 2}
  Unset = 0
  Startups <- MCStartups
  MaxStrings = 2
  PasswdFile <- MCPasswd
  Malformed = Malformed
  PwNames = {root, joe, eve}
  Records = {"nam", "uid", "ent"}
  DbDescriptors = 3
  MaxArea = 4
  GroupFile <- MCGroupFile
  NoNumber <- MCNoNumber
  GroupKeys <- MCGroupKeys
  GroupUsers <- MCGroupUsers
  AreaSizes = {9, 14, 15, 16, 17, 18, 19, 20, 22}
  ListSizes = {0, 1, 2, 3}
  PtrSize = 2
  GroupDescriptors = 3
  MaxFills = 4
  HostsFile <- MCHosts
  V4 = {"127.1", "10.1", "10.2"}
  V6 = {"fe80", "zero6"}
  Zero6 = "zero6"
  NoIp = "bad"
  ServicesFile <- MCServices
  NodeNames = {"near", "box", "far", "10.1"}
  ServiceTexts = {"web", "www", "odd", "w", "n80"}
  PortOf <- MCPortOf
  NoPort <- MCNoPort
  FlagSets <- MCFlagSets
  CanonOf <- MCCanonOf
  DnsAnswers <- MCAnswers
  NameLen <- MCNameLen
  HostRooms = {0, 4, 5, 7, 8}
  ServRooms = {0, 2, 3, 4}
  MaxArrays = 8
  DirEntries <- MCDirEntries
  WideEntries = {30}
  Unwanted = {40}
  BufferEntries = 2
  MaxDirFails = 1
  Tens = {0, 1, 2}
  MaxArray = 5
  NumGroups = 4
  MaxSegments = 6
  GroupValues = {0, 1, 258}
  PartValues = {0, 255, 513, 70000}
  Pads = {0, 3, 250, 256}
  NameRooms = {0, 3, 4, 5, 9}
CHECK_DEADLOCK FALSE
PROPERTY FilesRead
PROPERTY EnvironmentSound
INVARIANT MessagesArrive
INVARIANT NamesResolved
INVARIANT RecordsFound
