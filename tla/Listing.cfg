SPECIFICATION Spec
CONSTANTS
  ka = ka
  kb = kb
  NULL = NULL
  Wild = Wild
  Freed = Freed
  KeyExprs = {ka, kb}
  KeLen <- MCKeLen
  ElSize = 5
  Slots <- MCSlots
  Overhead = 10
  BuffSize = 128
CHECK_DEADLOCK FALSE
INVARIANTS
  ListShowsTable
  ReaderStaysInList
  ModestStringsFit
