SPECIFICATION Spec
CONSTANTS
  ka = ka
  kb = kb
  klong = klong
  NULL = NULL
  Wild = Wild
  Freed = Freed
  NoMsg = NoMsg
  EntityNb = 1
  BuffSize = 128
  StatusSize = 6
  ListOverhead = 10
  KeyExprs = {ka, klong}
  KeLen <- MCKeLen
  EntityIds <- MCIds
  StateVals <- MCAnyState
  ReplyResults = {TRUE, FALSE}
  DeclareResults = {TRUE, FALSE}
CHECK_DEADLOCK FALSE
INVARIANTS
  TypeOK
  OnlyLongKeyexprsOverrun
  StringsFit
PROPERTIES
  RenameNeverOrphans
  RejectedGetsNoReply
