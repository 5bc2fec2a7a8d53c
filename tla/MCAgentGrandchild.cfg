CONSTANTS
  Agents = {"lead", "aide", "scout"}
  Tools = {"Read", "SetState", "Fetch", "Issue"}
  FileTools = {"Read"}
  Unregistered = {"Nope"}
  EffectOf <- MCEffectOf
  U32Max = 9
  Pipelines <- Deep
  Strays = {"Fetch"}
  CallIds = {1}
  MaxCalls = 1
  Usages = {0, 2}
SPECIFICATION Spec
INVARIANT BudgetCoversSubtree
