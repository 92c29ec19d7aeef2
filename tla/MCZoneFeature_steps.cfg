\* Two overlapping runs of the scenarios on 1-europe with one fault: the
\* feature is an instance of ZoneSteps, and each run ends.
SPECIFICATION FeatureSpec
CONSTANTS
  Pointer <- Europe
  InDomain <- Europe
  Did <- EuropeDid
  NoDid = "none"
  Run = {r1, r2}
  Leftover <- OnlyEmpty
  MaxFaults = 1
  Feature <- EuropeFeature
  MaxRuns = 1
PROPERTIES Spec RunEnds
