\* one interruption inside a write
CONSTANTS
  TornWrites = TRUE
  MaxStops = 1
SPECIFICATION Spec
INVARIANTS ReadyIsUsable
