---------------------------- MODULE MCZdcThreads ----------------------------
(***************************************************************************)
(* Values for the constants of ZdcThreads: every default key expression is *)
(* 13 characters long, as in main_rx.c; klong takes more than its slot's   *)
(* share of the list's buffer.                                             *)
(***************************************************************************)
EXTENDS ZdcThreads

CONSTANTS ka, klong

MCKeLen == [ke \in KeyExprs |-> IF ke = klong THEN 100 ELSE 13]
MCDefKe == [e \in Eid |-> ka]

\* A slot of fresh memory, and one that holds bytes of an earlier use.
MCZeroHeap == {ZeroSlot}
MCWildHeap ==
  {[type |-> BadType, state |-> ON, ke_suffix |-> Wild, ke_size |-> 1, data |-> Wild]}
MCAnyHeap  == {ZeroSlot} \cup MCWildHeap

=============================================================================
