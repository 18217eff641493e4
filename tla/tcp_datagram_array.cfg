SPECIFICATION Spec
CONSTANTS
  Base = 2
  Messages <- Some
  MaxMessages = 2
INVARIANTS ArraysArrive
