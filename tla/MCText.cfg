SPECIFICATION MCTextSpec
CONSTANTS
  Width = 5
  Bases = {0, 2, 8, 10, 16}
  Letters = {" ", "-", "+", "0", "1", "9", "x", "b"}
  MaxText = 4
  MaxField = 2
  SecMin = 2
  MinHour = 2
  HourDay = 2
  EndOfTime = 400000
  IntMax = 2200
  Moments <- MCMoments
  Fields <- MCFields
  Zone <- MCZone
  Offsets <- MCOffsets
  PrintThreads = {t1, t2}
  PrintFormats <- MCPrintFormats
  Arguments <- MCArguments
  IntLimit = 3
  BufferSizes = {0, 1, 2, 3, 5}
  MaxPrints = 2
  ScanFormats <- MCScanFormats
  ScanLetters = {" ", "-", "0", "1", "x", "b"}
  MaxInput = 4
  Scanners = {t1, t2}
  MaxScan = 3
  CodePoints = {1, 127, 128, 2047, 2048, 65535, 65536, 1114111, 1114112}
  ByteValues = {65, 128, 194, 224, 240, 255}
  MaxWide = 2
  MaxBytes = 4
  MaxRoom = 9
  PatternParts <- MCParts
  MaxParts = 3
  SubjectLetters <- MCSubjectLetters
  MaxSubject = 3
  Args <- MCArgs
  MaxArgs = 3
  FlagOptions = {"a"}
  ArgOptions = {"b"}
  OptArgOptions = {"o"}
  LongOptions <- MCLong
  NoArg <- MCNoArg
  TimeFormats <- MCTimeFormats
  Times <- MCTimes
  TextSizes = {0, 1, 3, 4, 5, 9, 25}
  ZoneLength = 3
  Codes <- MCCodes
  MemorySize = 6
  StringChars = {65, 97, 255}
  MaxString = 3
  VersionChars = {48, 49, 97}
  MaxVersion = 3
  RoomSize = 9
  PathChars = {"/", ".", "a", "b"}
  MaxPath = 6
  WorkingDir <- MCWorkingDir
  Missing <- MCMissing
  PathMax = 8
  Quad <- MCQuad
  Wide <- MCWide
  Narrow <- MCNarrow
  ProductBits = 4
  ProductShift = 2
  IntBits = 6
  SmallIntBits = 4
  UnaryFormats <- MCUnaryFormats
  PairFormats <- MCPairFormats
  ScaleFormats <- MCScaleFormats
  ScaleSteps <- MCScaleSteps
  QuoBits = 3
  FmaFormat <- MCQuad
  FmaWord = 8
  FmaNumbers <- MCFmaNumbers
  TextFormats <- MCTextFormats
  HexFormats <- MCHexFormats
  GroupDigits = 2
  HeadBits = 2
  ShiftUp = 6
  GuardDigits = 2
  DefaultPrecision = 2
  MaxPrecision = 2
  NumberLetters = {" ", "-", "0", "1", "9", ".", "e", "x"}
  MaxNumberText = 4
  MachineBits = 6
  ByteBits = 2
  LeafConsts = {1, 3}
  MaxFrameReg = 6
  MaxFrameCode = 5
  MaxFrameInstrs = 5
  MaxLeb = 7
  ImageSize = 16
  MaxFDEs = 4
  MaxCodeSize = 18
CHECK_DEADLOCK FALSE
INVARIANT ConversionsRight
INVARIANT FloatsRight
INVARIANT ReturnsRight
