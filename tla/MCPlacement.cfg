SPECIFICATION Spec
CONSTANTS
  ModelRoots <- Roots
  WeightNames <- Weights
  Links <- SomeLinks
  RawPaths <- Paths
  u1 = u1
  u2 = u2
  u3 = u3
  p1 = p1
  p2 = p2
  Uploads = {u1, u2, u3}
  Procs = {p1, p2}
  Pids = {11, 12, 13}
  Blobs = {good, other, junk}
  WeightBlobs = {good, other}
  MaxCrashes = 2
  Absent = Absent
  Empty = Empty
  Partial = Partial
  Foreign = Foreign
SYMMETRY Symmetry
INVARIANTS TypeOK LeftoversHaveCause
PROPERTY ImplementsContract
CHECK_DEADLOCK FALSE
