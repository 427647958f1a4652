SPECIFICATION AdoptionSpec
CONSTANTS
  MaxUint = 7
  Parcels = {p1, p2}
  Threshold = 3
  MaxBest = 6
INVARIANTS YoungAreAnchored FloorAgrees
