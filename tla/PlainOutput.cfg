SPECIFICATION PlainSpec
CHECK_DEADLOCK FALSE
CONSTANTS
  N = 2
  MaxLine = 4
  Scenarios <- MCScenarios
  Characters <- MCCharacters
  Controls <- MCControls
INVARIANTS Bounded OutputSettled ControlsRemoved TextArrives
