\* One run of the three features, whatever was left, with one fault.
SPECIFICATION Spec
CONSTANTS
  Feature <- TspaFeatures
  Pointer <- Pointers
  Did <- Dids
  GoodDid <- GoodDids
  Run = {r1}
  Leftover <- AnyLeftover
  MaxFaults = 1
  Outline <- TspaOutlineAt
  Settles <- TspaSettlesAt
INVARIANTS TypeOK FailureExplained TestDataOnly OutlineInv
