SPECIFICATION FairSpec
CONSTANTS
  Nodes <- AllNodes
  Order <- Declared
  Relations <- AllRelations
INVARIANTS LayersExact CycleExact DescendantsExact
PROPERTY Terminates
\* The computation ends.
CHECK_DEADLOCK FALSE
