SPECIFICATION NativeSpec
CONSTANTS
  NULL = NULL
  Addrs = {p, q, r}
  SizeMax = 13
  SeedTail = 1
  Vars = {"a", "b"}
  Values = {x, y}
  HeaderSize = 1
  InitialCapacity = 2
  IntMax = 5
  ElemSizes = {2, 3}
  Bounds <- MCBounds
  Locals = {"u", "v"}
  Requests = {1, 12, 13}
  Procs = {1, 2}
  Sources = {"a"}
  Jobs <- MCJobs
  MaxDeaths = 1
  Chunks <- MCChunks
  Size = 21
  Calls <- MCCalls
  Installations <- MCInstallations
  Dirs = {"here", "bin", "opt"}
  Here = "here"
  SearchPaths <- MCSearchPaths
  Installed <- MCInstalled
  Libraries <- MCLibraries
  Heads <- MCHeads
  Rests = {"ong"}
  Scalars <- MCScalars
  ArrayTypes <- MCArrayTypes
  Programs <- MCPrograms
  MaxEntries = 3
  MaxFields = 2
  MaxParams = 2
  Texts <- MCTexts
  Trees <- MCTrees
  EntryFile <- MCEntry
  TakenForTwo <- MCTakenForTwo
  MaxNesting = 3
  Contents <- MCContents
INVARIANTS LoadsWhatIsDeclared FamiliesAgree MergedMeansTheSame DeclaredOnce InBounds RoutedHome TailKept SuccessMeansArtifact TemporariesRemoved ExplainedByItsTool TextFits WordsAsMeant OwnRuntime FieldsAgree CallsTyped RoomForEveryName OneSemicolonALine
PROPERTY ImplementsArrays
SYMMETRY Interchangeable
CHECK_DEADLOCK FALSE
