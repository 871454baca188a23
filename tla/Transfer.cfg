SPECIFICATION Spec
CONSTANT Geometries <- RegularPairs
INVARIANTS TypeOK InPlace
PROPERTIES PutOnce AllArrive
CHECK_DEADLOCK FALSE
