SPECIFICATION FairSpec
CONSTANTS
  Base = 2
  Messages <- Some
  MaxMessages = 2
INVARIANTS DatagramsIntact
PROPERTIES AllDelivered
