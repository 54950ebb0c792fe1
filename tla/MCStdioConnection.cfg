\* Two calls, one slot and a line of one: a call runs while the other waits,
\* is promoted, times out or is cancelled.
CONSTANTS
  Requests = {r1, r2}
  MaxConcurrent = 1
  QueueMax = 1
SPECIFICATION ConnectionSpec
SYMMETRY Symmetry
INVARIANTS
  CancelSilences
  CursorIffDelivered
  CallsTracked
