SPECIFICATION Spec
CONSTANTS
  Name = {1, 2}
  Default = 2
  Sample = {1}
  MaxSamples = 2
INVARIANTS ShownIsTrue
PROPERTIES RestartFindsChoice
