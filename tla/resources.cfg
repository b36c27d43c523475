SPECIFICATION Spec
CONSTANTS
  Targets = {n1, n2}
  Old = old
  Pods = {p1, p2}
  Unplaced = Unplaced
  Allocatable <- TwoSizes
  Kinds <- FiveKinds
  ListingFails = TRUE
SYMMETRY AlikePods
INVARIANTS TypeOK ShortMeansShort RoomMeansRoom UnitPodsHaveRoom
CHECK_DEADLOCK FALSE
