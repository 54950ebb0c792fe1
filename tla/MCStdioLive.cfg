\* Two calls under the scheduling the code guarantees; no line, so that the
\* reader refuses calls and blocks while a finished call is being written.
CONSTANTS
  Requests = {r1, r2}
  MaxConcurrent = 1
  QueueMax = 0
SPECIFICATION FairConnectionSpec
INVARIANTS
  TornOnlyByFailure
  ClosedInSilence
PROPERTIES
  FrozenAfterFatal
  ShutdownCompletes
