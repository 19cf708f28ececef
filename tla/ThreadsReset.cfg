SPECIFICATION Spec
CONSTANTS
  ka = ka
  klong = klong
  NULL = NULL
  Wild = Wild
  Freed = Freed
  NoMsg = NoMsg
  Torn = Torn
  BuffSize = 128
  StatusSize = 6
  DeclareResults = {TRUE}
  ReplyResults = {TRUE}
  ListOverhead = 10
  KeyExprs = {ka}
  KeLen <- MCKeLen
  DefKe <- MCDefKe
  EntityIds = {1, 2}
  Heap <- MCZeroHeap
  EarlyCommands = TRUE
CHECK_DEADLOCK FALSE
INVARIANTS
  AcknowledgedStateHolds
