SPECIFICATION FairSpec
CONSTANTS
  End = {"a", "b"}
  Message <- mcMessage
  Size <- mcSize
  HeaderSize = 2
  Items <- mcItems
  Getdata <- mcGetdata
  Script <- mcScript
  Pipe = 2
  SendBufferSize = 4
  ReceiveFloodSize = 8
  Faults = TRUE
INVARIANTS QueuesExact
PROPERTIES ImplementsChannel SettlesOrCloses
CHECK_DEADLOCK FALSE
