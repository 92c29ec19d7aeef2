\* Two runs interleave on one pointer, with at most one fault.
SPECIFICATION Spec
CONSTANTS
  Pointer = {p1}
  InDomain = {p1}
  Did = {}
  NoDid = NoDid
  Run = {r1, r2}
  Leftover <- AnyLeftover
  MaxFaults = 1
SYMMETRY RunSymmetry
INVARIANTS GivenHolds DeletesWhatItListed
