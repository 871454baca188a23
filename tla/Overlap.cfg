SPECIFICATION Spec
CONSTANT Geometries <- SidesOfOneRank
INVARIANT InPlace
CHECK_DEADLOCK FALSE
