SPECIFICATION FairSpec
CONSTANTS
  RingLen = 10
  MaxCount = 4
  MaxFrame = 3
  MaxData = 2
  MaxAnswers = 1
  Network <- MCNetwork
  Nothing = Nothing
INVARIANTS TypeOK BankKnown RingConsistent
PROPERTIES Queue
