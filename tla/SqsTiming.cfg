SPECIFICATION Spec
CONSTANTS
  Messages <- MessagesThree
  Objects <- ObjectsFour
  Form <- OneMalformed
  Refs <- RefsCut
  Kind <- OneCut
  Size <- SizesOne
  Skipped <- NoneSkipped
  VisibilityTimeout = 3
  Extension = 2
  MaxMessages = 2
  MaxReceives = 2
  MaxWork = 1
  MaxFaults = 1
  MaxStops = 1
  NoMessage = NoMessage
INVARIANT IInv
INVARIANT ExtendedInTime
