\* One slot and a line of two under the scheduling the code guarantees.
CONSTANTS
  Requests = {r1, r2, r3}
  MaxConcurrent = 1
  QueueMax = 2
SPECIFICATION FairSpec
PROPERTIES
  RequestsDrain
