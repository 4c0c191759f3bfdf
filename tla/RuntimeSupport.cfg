SPECIFICATION Spec
CONSTANTS
  Attributes <- MCAttributes
  Rank <- MCRank
  Scenarios <- MCScenarios
  Timeouts <- MCTimeouts
  LocaleParts <- MCLocales
  iso_639 <- MCiso_639
  iso_3166 <- MCiso_3166
  Original <- MCOriginal
  Arguments <- MCArguments
  FileNames <- MCFileNames
  Paths <- MCPaths
  Letters = {"a"}
  Characters <- MCCharacters
  N = 4
  Convertible = {1, 4}
  HasShort = {2}
  Passing = {1, 3, 4}
  Streams = {stream}
  Scan = Scan
  Handles = {1, 2, 3}
  MaxChanges = 1
  t1 = t1
  t2 = t2
  f = f
  g = g
  con = con
  lock = lock
  AllFiles = {f, g, con, lock}
  Special = {con}
  Executable = {f}
  LockFile = lock
  NoName = NoName
  MaxTime = 2
  Tasks = {t1, t2}
  NumVariables = 4
  Drives = {1}
  MaxSize = 2
  MaxSets = 1
  num_fd = 2
  MaxSlept = 250
  Procs = {f, g}
  Nobody = Null
  MaxCalls = 4
  Handling = {t1}
  LocaleTasks = {t1}
  StartTasks = {t1}
  MaxArguments = 2
  MaxReferences = 2
  EXPAND_ARGV_RATE = 2
  Null = Null
  Decodes = 1
  Questions = {"exists", "directory", "file_length"}
  Lengths = {2}
  Parts = {"directories", "files", "locales", "environment", "names", "startup", "paths", "pipes", "control_c"}
INVARIANTS NothingLeaked GivenOnce ScanReturns LockHeldByOne  NobodyLockedOut  ClearDeletes DecodeInverts ArgumentsExpanded FirstAlongPath PollAnswers InterruptsHandled
CHECK_DEADLOCK FALSE
