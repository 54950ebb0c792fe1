CONSTANTS
  c1 = c1
  c2 = c2
  c3 = c3
  Calls = {c1, c2, c3}
  NoCall = NoCall
  MaxPages = 3
SYMMETRY Symmetry
SPECIFICATION Spec
INVARIANTS HoldingsExact AdvancesOnce
PROPERTIES CursorsLive OthersGoOn
