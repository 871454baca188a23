SPECIFICATION Spec
CONSTANT Inputs <- MCInputs
INVARIANTS TypeOK InBounds Partitioned OneMessagePerRank
CHECK_DEADLOCK FALSE
