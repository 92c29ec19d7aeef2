\* Two runs of the whole feature overlap on one server, without faults.
SPECIFICATION FeatureSpec
CONSTANTS
  Pointer <- Pointers
  InDomain <- Domain
  Did <- Dids
  NoDid = "none"
  Run = {r1, r2}
  Leftover <- OnlyEmpty
  MaxFaults = 0
  Feature <- ZoneManagerFeature
  MaxRuns = 1
  Foreseen <- ForeseenAt
  Tokens <- TokensAt
  Clears <- ClearsAt
SYMMETRY RunSymmetry
INVARIANTS FailureExplained NoPointerLeftBehind WritesAsChecked ZoneOutlineInv
