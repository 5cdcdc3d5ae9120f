CONSTANTS
  MaxRequests = 3
  MaxElapsed = 1
SPECIFICATION FairSpec
INVARIANTS TypeOK BooksBalance ReadingsAreCurrent NobodyIsStuck
PROPERTIES NothingActsUnderStop WorkEnds
CHECK_DEADLOCK FALSE
