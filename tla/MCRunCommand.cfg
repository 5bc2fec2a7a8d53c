CONSTANTS
  Count = 2
  MaxCalls = 2
SPECIFICATION Spec
INVARIANTS
  ExitZeroMeansAll
  BundleOfWholeRun
  RunIsFramed
  NothingLeftConnected
PROPERTIES
  ServersLiveInOrder
  RunReturns
