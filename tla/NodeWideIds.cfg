SPECIFICATION Spec
CONSTANTS
  ka = ka
  kb = kb
  klong = klong
  NULL = NULL
  Wild = Wild
  Freed = Freed
  NoMsg = NoMsg
  EntityNb = 2
  BuffSize = 128
  StatusSize = 6
  ListOverhead = 10
  KeyExprs = {ka}
  KeLen <- MCKeLen
  EntityIds <- MCWideIds
  StateVals <- MCOnOff
  ReplyResults = {TRUE}
  DeclareResults = {TRUE}
CHECK_DEADLOCK FALSE
PROPERTIES
  ValidIdIsAnswered
