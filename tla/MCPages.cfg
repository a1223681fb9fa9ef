SPECIFICATION PagesSpec
CONSTANTS
  cnt0end = 1
  WordMod = 2
  Click = 1
  Temps <- MCTemps
  Setpoints <- MCSetpoints
INVARIANTS FitsFrame ButtonsWork
PROPERTIES StatusTrueInAuto
