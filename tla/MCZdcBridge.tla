---------------------------- MODULE MCZdcBridge ----------------------------
(***************************************************************************)
(* Values for the constants of ZdcBridge: two nodes B that listen on the   *)
(* same key expression; ids at both ends of a byte; a byte array that      *)
(* fits the send buffer, and one that does not.                            *)
(***************************************************************************)
EXTENDS ZdcBridge, TLC

CONSTANTS ka, la, lbig

MCKeLen   == [ke \in KeyExprs |-> 13]
MCBlobLen == [l \in Blobs |-> IF l = lbig THEN 500 ELSE 51]
PeerSymmetry == Permutations(Peers)
=============================================================================
