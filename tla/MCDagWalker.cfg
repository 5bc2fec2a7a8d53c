CONSTANTS
  N = 4
  Graphs <- MCDags
SPECIFICATION Spec
INVARIANTS
  OfferedAfterNeeds
  CascadeComplete
PROPERTY ImplementsRun
