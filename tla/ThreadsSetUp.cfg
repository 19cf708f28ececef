SPECIFICATION Spec
CONSTANTS
  ka = ka
  klong = klong
  NULL = NULL
  Wild = Wild
  Freed = Freed
  NoMsg = NoMsg
  Torn = Torn
  BuffSize = 128
  StatusSize = 6
  DeclareResults = {TRUE}
  ReplyResults = {TRUE}
  ListOverhead = 10
  KeyExprs = {ka, klong}
  KeLen <- MCKeLen
  DefKe <- MCDefKe
  EntityIds = {0, 2}
  Heap <- MCAnyHeap
  EarlyCommands = TRUE
CHECK_DEADLOCK FALSE
INVARIANTS
  ControlSurvivesSetUp
