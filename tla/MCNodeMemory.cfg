CONSTANTS
  Nodes = 4
  Capacity = 2
  Oversize = {"huge"}
  Malformed = {"broken"}
  Sources <- MCSources
  Reads <- MCReads
  Keys = {"k"}
  BadKeys = {"9"}
  Sizes = {1, 3}
  StateCap = 2
  ToolCap = 2
  HistoryCap = 4
  MaxIterations = 2
  MaxCalls = 2
  MaxDepth = 1
SPECIFICATION MemorySpec
INVARIANTS
  CompiledIsCached
  HistoryIsRecent
  StateIsWhatWasAcked
