---------------------------- MODULE MCZdcSystem ----------------------------
(***************************************************************************)
(* Values for the constants of ZdcSystem: one added entity, two runs of    *)
(* the tool, a key expression that fits its send buffer and one that does  *)
(* not.                                                                    *)
(***************************************************************************)
EXTENDS ZdcSystem, TLC

CONSTANTS ka, kb, kbig, r1, r2

MCKeLen == [ke \in KeyExprs |-> IF ke = kbig THEN 125 ELSE 13]

\* No -i, the zdcp entity, the added entity; and an id wider than a byte.
MCTargets     == {-1, 0, 1}
MCWideTargets == {1, 257}

\* The ids and states the tool encodes for them.
MCSentIds    == {UintFast8(n) : n \in TargetIds}
MCSentStates == {OFF, ON}

MCHeap == {ZeroSlot}

MCSymmetry == Permutations(Runs)

=============================================================================
