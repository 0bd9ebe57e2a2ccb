SPECIFICATION Spec
CONSTANTS
  Parts = {"transcripts", "assets", "bridge", "editor", "candidates", "recall", "request", "prompt", "records", "sessions", "lint", "observations", "passages"}
  Chunk = 1
  Growth = 2
  LineSizes = {1, 3}
  MaxLines = 2
  Savers = {s1, s2}
  MaxDeaths = 2
  Calls = {c1, c2}
  MaxRestarts = 1
  Editors = {e1, e2}
  MaxSaves = 4
  MaxResets = 1
  Nodes = {n1, n2}
  Labels = {d1, d2, prose}
  Threshold = 2
  Scores = {1, 2}
  Requests = {r1, r2}
  MaxBuilds = 1
  Projects = {p, q}
  Asking = p
  Levels = {0, 1}
  Weights = {0}
  Costs = {1, 2}
  Minima = {0, 50}
  Budgets = {2, 3, 4}
  MaxIds = 3
  MaxMembers = 6
  MaxTotalTurnCalls = 24
  Rounds = {1, 4, 5}
  MaxChars = 6
  MessageSizes = {1, 2, 4}
  MaxMessages = 4
  Bases = {3, 6, 7}
  Prefixes = {d, l}
  MaxRecords = 2
  MaxUnread = 1
  MaxDrops = 1
  Limit = 2
  Burst = 2
  MaxPosts = 6
  MaxWrites = 3
  Stems = {1, 2}
  LintedIds = {1, 2}
  Ages = {179, 180}
  Saliences = {29, 30}
  MaxRows = 2
  MaxExports = 3
  Transcripts = {1, 2}
  ProjectNames = {"p", "q"}
  Noise = {"q"}
  Directories = {"claude", "day"}
  Days = {"day"}
  AskedProject = "p"
  Utterances = {"a", "tool"}
  Window = 2
  KeptMessages = 2
  MaxPassages = 2
  FirstLengths = {2}
  MaxGrowth = 1
  MaxIndexings = 2
INVARIANTS
  TimestampIsLast NothingLost RepliesAreTrue DismissedStaysDismissed OwnRecordsFirst
  CallsWithinCap PromptKeepsWhatFits ExitTellsConsistency LedgerIsInCorpus  EveryRecordShown
PROPERTIES SpokenGrows OnlyRacesAreLost StreamCatchesUp
CHECK_DEADLOCK FALSE
