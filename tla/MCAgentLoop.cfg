CONSTANTS
  Agents = {"lead", "aide", "scout"}
  Tools = {"Read", "SetState", "Fetch", "Issue"}
  FileTools = {"Read"}
  Unregistered = {"Nope"}
  EffectOf <- MCEffectOf
  U32Max = 9
  Pipelines <- Shallow
  Strays = {"Issue", "Nope"}
  CallIds = {1, 2}
  MaxCalls = 2
  Usages = {0, 1, 2}
SPECIFICATION Spec
INVARIANTS
  StreamTellsLoops
  BudgetCoversSubtree
  OneResponseOver
PROPERTY LoopSettles
