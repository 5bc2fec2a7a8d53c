CONSTANTS
  Plans <- MCPlans
  Reading = {"Read"}
  Mutating = {"Bash"}
  Networked = {"Bash", "WebFetch"}
  Answers <- MCAnswers
  Outputs = {"ok", "secret"}
  MaxIterations = 2
  MaxCalls = 2
SPECIFICATION Spec
INVARIANTS

  StateReproduced
