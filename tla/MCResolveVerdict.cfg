\* Every response with up to two entries per list, for two pointers and two DIDs.
SPECIFICATION Spec
CONSTANTS
  Pointer = {p1, p2}
  Did = {d1, d2}
  MaxEntries = 2
INVARIANTS TypeOK SuccessIsReal OutcomesExclude
