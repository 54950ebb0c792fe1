CONSTANTS
  Ids = {"a", "b", "c", "d"}
  NoId = "noId"
  BadId = "badId"
  Empty = "empty"
  Messages <- MCMessages
  Home <- MCHome
  KeyBytes <- MCKeyBytes
  TableSlots = 3
  MaxRequests = 3
  ArenaBytes = 3
  BusyCapacity = 1
  MaxFrames = 3
SPECIFICATION FairSpec
INVARIANTS AnswersRight EofAnswersAll
PROPERTIES NoReadAhead DispatchCompletes
