\* One run, two pointers, every store to start from, one fault.
SPECIFICATION Spec
CONSTANTS
  Pointer = {p1, p2}
  InDomain = {p1, p2}
  Did = {d1}
  NoDid = NoDid
  Run = {r1}
  Leftover <- AnyLeftover
  MaxFaults = 1
INVARIANTS TypeOK GivenHolds DeletesWhatItListed
