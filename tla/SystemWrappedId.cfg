SPECIFICATION SysSpec
CONSTANTS
  ka = ka
  kb = kb
  kbig = kbig
  r1 = r1
  r2 = r2
  NULL = NULL
  Wild = Wild
  Freed = Freed
  NoMsg = NoMsg
  NoArg = NoArg
  NoQuery = NoQuery
  EntityNb = 1
  BuffSize = 128
  SendBuffSize = 128
  StatusSize = 6
  ListOverhead = 10
  KeyexprOverhead = 10
  KeyExprs = {ka}
  KeLen <- MCKeLen
  EntityIds <- MCSentIds
  StateVals <- MCSentStates
  DeclareResults = {TRUE}
  ReplyResults = {TRUE}
  Runs = {r1}
  TargetIds <- MCWideTargets
  Heap <- MCHeap
CHECK_DEADLOCK FALSE
INVARIANTS
  StatusIsTrue
