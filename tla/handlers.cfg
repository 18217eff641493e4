SPECIFICATION FairSpec
CONSTANTS
  FDs = {f1, f2}
  MaxFiles = 3
  MaxNodes = 3
  MaxRemovals = 2
INVARIANTS TypeOK EventsPointToHandlers InterestMatchesHandlers WantedAreHandled
PROPERTIES RemovalCompletes
