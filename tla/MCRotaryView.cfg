SPECIFICATION FairSteadySpec
CONSTANTS
  T0Debounce = 1
  T0Mod = 5
  T1Window = 4
  T1Mod = 12
  MinLoop = 2
  MaxLoop = 3
  Click = 1
  MaxInputs = 3
INVARIANTS ClickInView
