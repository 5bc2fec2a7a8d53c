CONSTANTS
  Cap = 3
  PipeSize = 2
  Jobs <- MCJobs
  Root = "root"
  Dirs = {"root", "out"}
  Links <- MCLinks
  Inside = {"link"}
  FileNames = {"f", "g"}
  Scenes <- MCScenes
  Words = {0, 1, 2, 3, 4, 5, 6, 7, 8}
  MaxRead = 2
  Literals = {"address", "inside"}
  HostNames = {"name", "other"}
  Private = {"inside"}
  Under <- MCUnder
  Policies <- MCPolicies
  MaxRedirects = 2
  MaxBody = 2
  MaxSent = 4
  Known = {"openai", "ollama"}
  Keyless = {"ollama"}
  Required = {{"openai", "ollama"}, {"openai", "other"}}
  KeyStates <- MCKeyStates
  Failures <- MCFailures
  Replies <- MCReplies
  Retries = 2
  BodyCap = 3
  Suffix = 1
  ExcerptCap = 5
  MaxRequests = 2
  Names = {"K", "P"}
  Declarations <- MCDeclarations
SPECIFICATION SideSpec
INVARIANTS
  OutputComplete
  NeverTorn
  RefusedLeavesNothing
  EveryHopJudged
  RetriesAreSpent
  ReplayedAsAnswered
  InputsByPrecedence
PROPERTY ChildReturns
