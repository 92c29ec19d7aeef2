\* Two runs overlap on one TSPA server, without faults.
SPECIFICATION Spec
CONSTANTS
  Feature <- TspaFeatures
  Pointer <- Pointers
  Did <- Dids
  GoodDid <- GoodDids
  Run = {r1, r2}
  Leftover <- SomeLeftover
  MaxFaults = 0
INVARIANT FailureExplained
PROPERTY DataSettles
