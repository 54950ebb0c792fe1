SPECIFICATION Spec
CONSTANTS
  Trees <- MCTrees
  Requests <- MCRequests
  Budgets <- MCBudgets
  PageBytes = 4
  TextSize = 6
  ChunkBytes = 5
  ByteFiles <- MCByteFiles
  SearchLines = 6
  MaxContext = 3
  ReadFiles <- MCReadFiles
  ReadFileMax = 3
  UnitSizes <- MCUnitSizes
  UnitMax = 5
  PageSizes <- MCPageSizes
  Files = {"a", "b", "c", "wide", "huge"}
  Footprint <- MCFootprint
  MaxEntries = 2
  MaxBytes = 3
  CacheUses = 4
  Chunks <- MCChunks
  ChunkMax = 3
  Paths <- MCPaths
  Orbit <- MCOrbit
  MaxAlternatives = 3
  MarkdownLines <- MCMarkdownLines
  MarkdownSize = 4
  SyntaxTrees <- MCSyntaxTrees
  RawRecords <- MCRawRecords
  RawMax = 2
  Frames <- MCFrames
  MaxDepth = 3
  MaxMembers = 3
  MaxItems = 6
  Nesting = 6
INVARIANTS RowsExact TextExact PatternsExact FramesExact ReadExact CacheKeepsRecent
PROPERTIES CursorsResume ScanFinishes
\* A scan is over with its last page, or lost.
CHECK_DEADLOCK FALSE
