CONSTANTS
  Agents = {"lead", "aide", "scout"}
  Tools = {"Read", "SetState", "Fetch", "Issue"}
  FileTools = {"Read"}
  Unregistered = {"Nope"}
  EffectOf <- MCEffectOf
  U32Max = 4
  Pipelines <- Deep
  Strays = {"lead", "scout"}
  CallIds = {1}
  MaxCalls = 1
  Usages = {1}
SPECIFICATION Spec
INVARIANTS
  LoopsDistinct
  DepthHalved
  EffectsContained
