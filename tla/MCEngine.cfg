CONSTANTS
  N = 4
  Graphs <- MCGraphs
  Shell = {1, 3}
  Registries = {{"shell", "agent"}, {"shell"}}
  Timed = {1, 2}
  Reads <- MCReads
SPECIFICATION EngineSpec
INVARIANTS
  StreamTellsState
  SkipsExplained
  NeededOutputsPresent
  NothingStranded
PROPERTY RunSettles
