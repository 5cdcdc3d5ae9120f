\* interruptions between the steps and inside the writes
CONSTANTS
  TornWrites = TRUE
  MaxStops = 4
SPECIFICATION FairSpec
INVARIANTS TypeOK PublishedIsPrivate ReadyIsComplete
PROPERTIES KeysAreKept InitCompletes
