SPECIFICATION Spec
CONSTANTS
  ka = ka
  klong = klong
  NULL = NULL
  Wild = Wild
  Freed = Freed
  NoMsg = NoMsg
  Torn = Torn
  BuffSize = 128
  StatusSize = 6
  DeclareResults = {TRUE, FALSE}
  ReplyResults = {TRUE, FALSE}
  ListOverhead = 10
  KeyExprs = {ka, klong}
  KeLen <- MCKeLen
  DefKe <- MCDefKe
  EntityIds = {1, 2, 3}
  Heap <- MCWildHeap
  EarlyCommands = FALSE
CHECK_DEADLOCK FALSE
INVARIANTS
  TypeOK
  AcknowledgedStateHolds
  AtMostOneLatePut
  OffMeansUndeclared
  OnlyKnownFaults
PROPERTIES
  ImplementsNode
  PublishesWhileOn
