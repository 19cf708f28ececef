----------------------------- MODULE MCZdcNode -----------------------------
(***************************************************************************)
(* Values for the constants of ZdcNode: the sizes of main_rx.c (two added  *)
(* entities, a send buffer of 128 bytes), key expressions of the length of *)
(* the default ones ("sensor/1/temp") and of 100 characters, which node A  *)
(* can send and which take more than a slot's 64 bytes of the list.        *)
(***************************************************************************)
EXTENDS ZdcNode

CONSTANTS ka, kb, klong

MCKeLen == [ke \in KeyExprs |-> IF ke = klong THEN 100 ELSE 13]

\* Id sets: the two added entities, the zdcp entity, one past the end, the
\* largest id node A can send, and an id that takes two bytes.
MCIds     == {0, 1, 2, 3, 255}
MCWideIds == {1, 258}

MCOnOff    == {OFF, ON}
MCAnyState == {OFF, ON, INVALID, 3, 200}

=============================================================================
