SPECIFICATION Spec
CONSTANTS
  Temps <- MCTemps
  Garbage <- MCGarbage
  Low = 5
  High = 60
INVARIANTS CompensationNear
PROPERTIES Legible ShowsSetpoint
