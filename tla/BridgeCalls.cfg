SPECIFICATION Spec
CONSTANTS
  ka = ka
  la = la
  lbig = lbig
  NULL = NULL
  Wild = Wild
  Freed = Freed
  NoMsg = NoMsg
  NoCall = NoCall
  Tool = a
  Peers = {b1, b2}
  Ids = {1, 255}
  States = {1}
  EntityNbs = {3}
  KeyExprs = {ka}
  KeLen <- MCKeLen
  Blobs = {la, lbig}
  BlobLen <- MCBlobLen
  Overhead = 10
  BuffSize = 128
SYMMETRY PeerSymmetry
CHECK_DEADLOCK FALSE
INVARIANTS
  OnlyLongMessagesAreRefused
PROPERTIES
  ImplementsRemoteCall
