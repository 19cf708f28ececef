---------------------------- MODULE MCZdcListing ----------------------------
(***************************************************************************)
(* Values for the constants of ZdcListing.  Five slots, so that a ke_size  *)
(* above 255 fits the buffer of 64 bytes per slot while it still makes the *)
(* list too long to be sent.                                               *)
(***************************************************************************)
EXTENDS ZdcListing

CONSTANTS ka, kb

MCKeLen == [ke \in KeyExprs |-> IF ke = ka THEN 13 ELSE 5]

Slot(type, state, ke, ke_size) ==
  [type |-> type, state |-> state, ke |-> ke, ke_size |-> ke_size]

\* Fresh ones, one that held the longer key expression before, one at the 61
\* bytes that fill its share of the buffer, one at the width of a byte.
MCSlots ==
  {Slot(0, ON, ka, 14), Slot(3, OFF, kb, 6), Slot(1, INVALID, kb, 14),
   Slot(1, ON, ka, 61), Slot(0, OFF, kb, 257)}
=============================================================================
