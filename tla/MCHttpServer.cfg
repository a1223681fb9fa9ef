SPECIFICATION FairSpec
CONSTANTS
  Clients = {"a", "b"}
  Address <- MCAddress
  Commands <- MCCommands
  RxSlots = 2
  MaxLost = 1
  MaxEarly = 1
INVARIANTS OncePerLoss AnsweredMeansDone
PROPERTIES OnlyOwner EveryRequestAnswered
