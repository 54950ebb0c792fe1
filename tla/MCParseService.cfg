CONSTANTS
  c1 = c1
  c2 = c2
  c3 = c3
  Calls = {c1, c2, c3}
  Shared = {c1}
  MaxParsers = 1
  Files = {"small"}
  Footprint <- MCFootprint
  MaxEntries = 1
  MaxBytes = 1
SPECIFICATION FairSpec
INVARIANTS UnitsExact AbandonedBarred
PROPERTIES NoOvertaking ParseEnds
