SPECIFICATION FairSpec
CONSTANTS
  RingLen = 8
  MaxCount = 2
  MaxFrame = 3
  MaxData = 2
  MaxAnswers = 1
  Network <- MCNetwork
  Nothing = Nothing
PROPERTIES SendsAgain
