SPECIFICATION FairSpec
CONSTANTS
  cnt0end = 2
  WordMod = 4
  Click = 1
  Temps <- MCTemps
  Setpoints <- MCSetpoints
  T0Debounce = 0
  T0Mod = 2
  T1Window = 1
  T1Mod = 4
  MinLoop = 1
  MaxLoop = 1
  MaxInputs = 1
  MaxPosts = 1
INVARIANTS OffWithinPass
PROPERTIES DialPart RelaysPart ColdRoomHeated
