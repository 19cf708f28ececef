----------------------------- MODULE ZdcListing -----------------------------
(***************************************************************************)
(* The entity list byte by byte: node B serialises its table into a        *)
(* malloc'ed buffer (zdcExecutelist_entities_req), sends it if it fits,    *)
(* and node A walks the bytes it got by the lengths they contain           *)
(* (zdcExecutelist_entities_resp).  One action per turn of either loop.    *)
(***************************************************************************)
EXTENDS ZdcEntity

CONSTANTS
  ElSize,    (* el_size: slots of the table.                                  *)
  Slots,     (* What a slot can hold.                                         *)
  Overhead,  (* Bytes LCSF adds to the list.                                  *)
  BuffSize   (* The send buffer of node B.                                    *)

\* A slot has room for its key expression; ke_size exceeds it after a longer
\* one was replaced.
ASSUME ListingAssumption ==
  /\ ElSize \in 1 .. 255 /\ Overhead \in Nat /\ BuffSize \in Nat
  /\ Slots \subseteq [type : 0 .. 3, state : {OFF, ON, INVALID}, ke : KeyExprs, ke_size : Nat]
  /\ \A s \in Slots : NewSize(s.ke) <= s.ke_size

Eid == 0 .. ElSize - 1

-----------------------------------------------------------------------------
(* Bytes: a number, the j-th character of a key expression, or what an      *)
(* earlier key expression or malloc left there.                             *)

Number(n)   == [ke |-> NULL, val |-> n]
Char(ke, j) == [ke |-> ke, val |-> j]
Stale       == [ke |-> Wild, val |-> 0]
Nul         == Number(0)

\* A byte read as a number; that of a letter is above those of the enums.
Value(byte) == IF byte.ke = NULL THEN byte.val ELSE 97

\* The j-th byte of a slot's string.
StringByte(slot, j) ==
  IF j < KeLen[slot.ke] THEN Char(slot.ke, j)
  ELSE IF j = KeLen[slot.ke] THEN Nul ELSE Stale

\* Faulty variant: the state before the type.
EntryByteStateFirst(slot, j) ==
  CASE j = 0 -> Number(slot.state % 256)
    [] j = 1 -> Number(slot.type % 256)
    [] j = 2 -> Number(slot.ke_size % 256)
    [] OTHER -> StringByte(slot, j - 3)

\* The j-th byte of a slot's entry; type, state and ke_size as one byte.
EntryByte(slot, j) ==
  CASE j = 0 -> Number(slot.type % 256)
    [] j = 1 -> Number(slot.state % 256)
    [] j = 2 -> Number(slot.ke_size % 256)
    [] OTHER -> StringByte(slot, j - 3)

EntrySize(slot) == 3 + slot.ke_size

\* Faulty variant: room for the strings only.
SlotBytesNoHeader == 61

SlotBytes  == 64
BufferSize == SlotBytes * ElSize

\* ZDC_TYPE_TO_STR and ZDC_STATE_TO_STR.
TypeNames  == 0 .. 3
StateNames == 0 .. 2

-----------------------------------------------------------------------------
VARIABLES
  entity_list,  (* The table of node B.                                       *)
  tmp_buff,     (* The serialised list; node A's copy of it once it was sent. *)
  tmp_idx,      (* Bytes of it that were written.                             *)
  i,            (* The loop counter of either node.                           *)
  curr_idx,     (* Node A's place in the list.                                *)
  lines,        (* What node A has printed of each entity.                    *)
  phase         (* "write", "show", "shown", "refused", or a fault: "overrun" *)
                (* in node B, "past the end" or "no name" in node A.          *)

(* History, read by the proofs only.                                          *)
VARIABLE off    (* tmp_idx at the start of each turn of node B's loop.        *)

vars == <<entity_list, tmp_buff, tmp_idx, i, curr_idx, lines, phase, off>>

NoLine == [type |-> 0, state |-> 0, len |-> 0, text |-> [j \in {} |-> Nul]]

\* One turn of the loop of zdcExecutelist_entities_req.
WriteEntry ==
  LET slot == entity_list[i]
      next == tmp_idx + EntrySize(slot)
  IN /\ phase = "write" /\ i < ElSize
     /\ IF next > BufferSize
        THEN phase' = "overrun" /\ UNCHANGED <<tmp_buff, tmp_idx, i, off>>
        ELSE /\ tmp_buff' = [c \in 0 .. BufferSize - 1 |->
                  IF c \in tmp_idx .. next - 1 THEN EntryByte(slot, c - tmp_idx) ELSE tmp_buff[c]]
             /\ tmp_idx' = next /\ i' = i + 1
             /\ off' = [off EXCEPT ![i + 1] = next]
             /\ UNCHANGED phase
     /\ UNCHANGED <<entity_list, curr_idx, lines>>

\* Faulty variant: sent whatever its size.
SendAnything ==
  /\ phase = "write" /\ i = ElSize
  /\ phase' = "show"
  /\ i' = 0 /\ curr_idx' = 0
  /\ UNCHANGED <<entity_list, tmp_buff, tmp_idx, lines, off>>

\* zdcSendCommand; node A's loop starts when the list arrives.
Send ==
  /\ phase = "write" /\ i = ElSize
  /\ phase' = IF Overhead + tmp_idx <= BuffSize THEN "show" ELSE "refused"
  /\ i' = 0 /\ curr_idx' = 0
  /\ UNCHANGED <<entity_list, tmp_buff, tmp_idx, lines, off>>

\* %.*s: up to len characters, ending before the first NUL.
IsTextLength(n, at, len) ==
  /\ \A j \in 0 .. n - 1 : tmp_buff[at + j] # Nul
  /\ n = len \/ tmp_buff[at + n] = Nul

\* One turn of the loop of zdcExecutelist_entities_resp.
ShowEntry ==
  LET text == curr_idx + 3
      type  == Value(tmp_buff[curr_idx])
      state == Value(tmp_buff[curr_idx + 1])
      len   == Value(tmp_buff[curr_idx + 2])
  IN /\ phase = "show" /\ i < ElSize
     /\ IF text > tmp_idx THEN phase' = "past the end" /\ UNCHANGED <<lines, i, curr_idx>>
        ELSE IF type \notin TypeNames \/ state \notin StateNames
        THEN phase' = "no name" /\ UNCHANGED <<lines, i, curr_idx>>
        ELSE IF text + len > tmp_idx THEN phase' = "past the end" /\ UNCHANGED <<lines, i, curr_idx>>
        ELSE \E n \in 0 .. len :
               /\ IsTextLength(n, text, len)
               /\ lines' = [lines EXCEPT ![i] =
                    [type |-> type, state |-> state, len |-> n,
                     text |-> [j \in 0 .. n - 1 |-> tmp_buff[text + j]]]]
               /\ i' = i + 1 /\ curr_idx' = text + len
               /\ UNCHANGED phase
     /\ UNCHANGED <<entity_list, tmp_buff, tmp_idx, off>>

Finish ==
  /\ phase = "show" /\ i = ElSize
  /\ phase' = "shown"
  /\ UNCHANGED <<entity_list, tmp_buff, tmp_idx, i, curr_idx, lines, off>>

Init ==
  /\ entity_list \in [Eid -> Slots]
  /\ tmp_buff = [c \in 0 .. BufferSize - 1 |-> Stale]
  /\ tmp_idx = 0 /\ i = 0 /\ curr_idx = 0
  /\ lines = [e \in Eid |-> NoLine]
  /\ phase = "write"
  /\ off = [e \in 0 .. ElSize |-> 0]

Next == WriteEntry \/ Send \/ ShowEntry \/ Finish

Spec == Init /\ [][Next]_vars

-----------------------------------------------------------------------------
(* Properties.                                                              *)

\* What node A should print of a slot.
LineOf(slot) ==
  [type |-> slot.type, state |-> slot.state, len |-> KeLen[slot.ke],
   text |-> [j \in 0 .. KeLen[slot.ke] - 1 |-> Char(slot.ke, j)]]

\* Node A prints the table of node B: the lengths lead from entry to entry,
\* and neither what a longer key expression left behind nor a ke_size that
\* does not fit its byte shows.
ListShowsTable ==
  /\ phase = "show"  => \A e \in 0 .. i - 1 : lines[e] = LineOf(entity_list[e])
  /\ phase = "shown" => \A e \in Eid : lines[e] = LineOf(entity_list[e])

\* Node A reads no byte past the list it got and looks up only names that
\* exist.
ReaderStaysInList == phase \notin {"past the end", "no name"}

\* With no more than 61 bytes per key expression node B stays in the buffer
\* of 64 bytes per entity it mallocs.
ModestStringsFit ==
  (\A e \in Eid : entity_list[e].ke_size <= 61) => phase # "overrun"
=============================================================================
