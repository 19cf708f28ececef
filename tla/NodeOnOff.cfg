SPECIFICATION Spec
CONSTANTS
  ka = ka
  kb = kb
  klong = klong
  NULL = NULL
  Wild = Wild
  Freed = Freed
  NoMsg = NoMsg
  EntityNb = 2
  BuffSize = 128
  StatusSize = 6
  ListOverhead = 10
  KeyExprs = {ka, kb}
  KeLen <- MCKeLen
  EntityIds <- MCIds
  StateVals <- MCOnOff
  ReplyResults = {TRUE}
  DeclareResults = {TRUE}
CHECK_DEADLOCK FALSE
INVARIANTS
  OnlyEarlyCommandsFault
  EntitiesConsistent
  NoOrphans
  ControlStaysUp
  CloseReleasesEverything
PROPERTIES
  ValidIdIsAnswered
  AckMeansDone
  RenameKeepsState
