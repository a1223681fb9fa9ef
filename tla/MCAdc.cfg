SPECIFICATION FairSpec
CONSTANTS
  FirstLen = 4
  LongLen = 8
  SumMod = 128
  WordMod = 16
  Readings <- MCReadings
  Click = 1
  Compensations <- MCCompensations
INVARIANTS TypeOK SourceMatchesCompensation
PROPERTIES Promise KeepsPublishing
