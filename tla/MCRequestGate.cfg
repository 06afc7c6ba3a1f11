SPECIFICATION Spec
CONSTANTS
  ModelRoots <- Roots
  WeightNames <- Weights
  Links <- SomeLinks
  Launches <- CommandLines
  Arrivals <- Requests
  RawPaths <- Paths
  Bracketed = {"::1"}
  None = None
  NoPort = NoPort
INVARIANTS HandlerIsGuarded CorsExactlyForAllowed SameHostPasses PathsAgree
PROPERTY ExposureIsMeant
CHECK_DEADLOCK FALSE
