SPECIFICATION FairSpec
CONSTANTS
  Messages <- MessagesThree
  Objects <- ObjectsThree
  Form <- OnePoison
  Refs <- RefsGood
  Kind <- OneForeign
  Size <- SizesTwo
  Skipped <- OneSkipped
  VisibilityTimeout = 1
  Extension = 1
  MaxMessages = 2
  MaxReceives = 2
  MaxWork = 1
  MaxFaults = 1
  MaxStops = 1
  NoMessage = NoMessage
INVARIANT DeletedWasDelivered
INVARIANT DeadWereTried
PROPERTY GoodMessagesHandled
