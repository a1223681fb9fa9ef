SPECIFICATION FairSpec
CONSTANTS
  cnt0end = 3
  WordMod = 8
  Click = 1
  Temps <- MCTemps
  Setpoints <- MCSetpoints
INVARIANTS TypeOK Interlock CountBelowEnd WrongWayBounded
PROPERTIES StartsSpaced DemandServed
