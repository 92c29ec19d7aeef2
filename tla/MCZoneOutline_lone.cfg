\* The whole feature, one run, interrupted and started again, two faults.
SPECIFICATION FeatureSpec
CONSTANTS
  Pointer <- Pointers
  InDomain <- Domain
  Did <- Dids
  NoDid = "none"
  Run = {r1}
  Leftover <- LeftByARun
  MaxFaults = 2
  Feature <- ZoneManagerFeature
  MaxRuns = 2
  Foreseen <- ForeseenAt
  Tokens <- TokensAt
  Clears <- ClearsAt
INVARIANTS FeatureTypeOK FailureExplained UndisturbedRunLeavesNothing ZoneOutlineInv
PROPERTY RunEnds
