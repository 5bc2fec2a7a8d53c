CONSTANTS
  N = 3
  Graphs <- MCGraphs
  Agents = {"a", "b", "c"}
  AgentOrder <- MCAgentOrder
  Tools = {"Read", "Edit", "Bash"}
  FileTools = {"Read", "Edit"}
  Unregistered = {"Nope"}
  EffectOf <- MCEffectOf
  U32Max = 9
  Words = {"fs", "gh", "extra", "read", "list", "all", "nope", "no", "a", "b", "c", "ghost", "Read", "Edit", "Bash", "Nope", "x", "w", "v", ".", "_", "*"}
  Current = 1
  Inputs <- MCInputs
SPECIFICATION LoaderSpec
INVARIANTS
  VerdictCorrect
  DelegationNarrows
  RoutesBack
  ValidatedStarts
  ReplayOffersSame
