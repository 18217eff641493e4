SPECIFICATION SocketsSpec
CONSTANTS
  Objects = {a, b}
  FDs = {f1, f2}
  closed_fd = closed
  NotAlive = dead
  Names <- MCNames
  NoName = noname
  BindOptions <- MCBindOptions
  MaxQueue = 1
SYMMETRY Symmetry
INVARIANTS SocketsTypeOK UniqueOwnership NamesLeadBack NodelayIsSet
PROPERTIES OwnsLikeUniqueFd LeaksOnlyByMoveAssignOrAccept
