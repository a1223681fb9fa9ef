SPECIFICATION Spec
CONSTANTS
  Digit = 2
  NBytes = 2
  Lengths <- MCLengths
  Requests <- MCRequests
  Avr = avr
  Stations <- MCStations
  Everyone = everyone
  host1 = host1
  host2 = host2
  Ip <- MCIp
  Port <- MCPort
  Http = 10
  IdMod = 2
  Filling = 3
  EchoSizes <- MCEchoSizes
  EchoWords <- MCEchoWords
INVARIANTS AnswersGoToAsker LengthsAgree ChecksumVerifies
PROPERTIES Contiguous AcksFirstByte
