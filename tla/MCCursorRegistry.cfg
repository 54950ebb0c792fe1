CONSTANTS
  l1 = l1
  l2 = l2
  l3 = l3
  Lineages = {l1, l2, l3}
  MaxEntries = 5
  MaxBytes = 7
  MaxPages = 3
  Sizes = {1, 2}
  Reservations = {1, 2}
  FixedBytes = 1
  Tokens = {"a", "b", "c", "d"}
  Homes = {0, 6, 7}
  Places = {1, 2, 3}
  MaxGeneration = 2
  Width = 12
  Figures <- MCFigures
SYMMETRY Symmetry
SPECIFICATION StoreSpec
INVARIANTS StorageExact TablesExact
PROPERTY EvictsOldest
