\* The step about missing trust lists against its docstring.
SPECIFICATION Spec
CONSTANTS
  Pointer = {p1, p2}
  Did = {d1, d2}
  MaxEntries = 2
INVARIANT ResolvedDidsHaveNoTl
