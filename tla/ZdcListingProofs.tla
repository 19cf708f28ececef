-------------------------- MODULE ZdcListingProofs --------------------------
(***************************************************************************)
(* Theorems about ZdcListing: for tables of any size and content, what     *)
(* node A prints is node B's table, and strings of at most 61 bytes fit    *)
(* the buffer they are serialised into.                                    *)
(***************************************************************************)
EXTENDS ZdcListing, TLAPS

\* main_rx.c gives zdc_MainInit a send buffer of 128 bytes.  With one that
\* takes a string of more than 255 bytes the length byte of an entry lies.
SmallBuffer == BuffSize <= 255

Modest == \A e \in Eid : entity_list[e].ke_size <= 61

-----------------------------------------------------------------------------
(* Entries.                                                                 *)

LEMMA SlotFacts ==
  ASSUME NEW slot \in Slots
  PROVE  /\ slot.type \in 0 .. 3 /\ slot.state \in 0 .. 2 /\ slot.ke \in KeyExprs
         /\ slot.ke_size \in Nat /\ EntrySize(slot) \in Nat /\ EntrySize(slot) >= 3
         /\ KeLen[slot.ke] \in Nat /\ KeLen[slot.ke] < slot.ke_size
BY ListingAssumption, KeyExprAssumption DEF NewSize, OFF, ON, INVALID, EntrySize

\* The three header bytes read back what was written.
LEMMA HeaderReadsBack ==
  ASSUME NEW slot \in Slots, slot.ke_size <= 255
  PROVE  /\ Value(EntryByte(slot, 0)) = slot.type
         /\ Value(EntryByte(slot, 1)) = slot.state
         /\ Value(EntryByte(slot, 2)) = slot.ke_size
<1>1. /\ slot.type \in 0 .. 3 /\ slot.state \in 0 .. 2 /\ slot.ke_size \in 0 .. 255
  BY SlotFacts
<1>2. slot.type % 256 = slot.type /\ slot.state % 256 = slot.state
      /\ slot.ke_size % 256 = slot.ke_size
  BY <1>1
<1> QED BY <1>2 DEF Value, EntryByte, Number

\* Behind them come the characters of the key expression, then a NUL.
LEMMA StringReadsBack ==
  ASSUME NEW slot \in Slots
  PROVE  /\ \A j \in 0 .. KeLen[slot.ke] - 1 :
              EntryByte(slot, 3 + j) = Char(slot.ke, j) /\ EntryByte(slot, 3 + j) # Nul
         /\ EntryByte(slot, 3 + KeLen[slot.ke]) = Nul
<1>1. slot.ke \in KeyExprs /\ slot.ke # NULL /\ KeLen[slot.ke] \in Nat
  BY SlotFacts, KeyExprAssumption
<1>2. \A j \in Nat : EntryByte(slot, 3 + j) = StringByte(slot, j)
  <2> TAKE j \in Nat
  <2>1. 3 + j # 0 /\ 3 + j # 1 /\ 3 + j # 2 /\ (3 + j) - 3 = j
    OBVIOUS
  <2> QED BY <2>1 DEF EntryByte
<1>3. \A j : Char(slot.ke, j) # Nul
  BY <1>1 DEF Char, Nul, Number
<1> QED BY <1>1, <1>2, <1>3 DEF StringByte

-----------------------------------------------------------------------------
(* The invariant.                                                           *)

Faults == {"past the end", "no name"}

\* How many entries the buffer holds.
Entries == IF phase \in {"write", "overrun"} THEN i ELSE ElSize

\* Entry e lies at off[e], below what was written so far.
Holds(e) ==
  /\ off[e + 1] = off[e] + EntrySize(entity_list[e])
  /\ off[e + 1] <= tmp_idx
  /\ \A j \in 0 .. EntrySize(entity_list[e]) - 1 :
       tmp_buff[off[e] + j] = EntryByte(entity_list[e], j)

ListTypeOK ==
  /\ entity_list \in [Eid -> Slots]
  /\ i \in 0 .. ElSize /\ tmp_idx \in Nat
  /\ off \in [0 .. ElSize -> Nat]
  /\ lines = [e \in Eid |-> lines[e]]
  /\ phase \in {"write", "overrun", "refused", "show", "shown"} \cup Faults

ListInv ==
  /\ ListTypeOK
  /\ off[0] = 0 /\ off[Entries] = tmp_idx
  /\ \A e \in 0 .. Entries - 1 : Holds(e)
  /\ phase \in {"show", "shown"} => Overhead + tmp_idx <= BuffSize
  /\ phase = "show" => curr_idx = off[i]
  /\ ReaderStaysInList
  /\ ListShowsTable

LEMMA InitListInv == ASSUME Init PROVE ListInv
BY ListingAssumption
DEF Init, ListInv, ListTypeOK, Entries, ReaderStaysInList, ListShowsTable, Faults

LEMMA WriteEntryInv ==
  ASSUME ListInv, WriteEntry
  PROVE  ListInv'
<1> DEFINE slot == entity_list[i]
           size == EntrySize(slot)
           next == tmp_idx + size
<1>1. /\ phase = "write" /\ i \in 0 .. ElSize - 1 /\ i + 1 \in 1 .. ElSize
      /\ tmp_idx \in Nat /\ slot \in Slots /\ Entries = i
  <2>1. /\ phase = "write" /\ i < ElSize /\ i \in 0 .. ElSize /\ tmp_idx \in Nat
        /\ entity_list \in [Eid -> Slots]
    BY DEF ListInv, ListTypeOK, WriteEntry
  <2>2. i \in 0 .. ElSize - 1 /\ i + 1 \in 1 .. ElSize
    BY <2>1, ListingAssumption
  <2> QED BY <2>1, <2>2 DEF Entries, Eid
<1>2. size \in Nat /\ next \in Nat /\ tmp_idx <= next
  BY <1>1, SlotFacts
<1>3. UNCHANGED <<entity_list, curr_idx, lines>>
  BY DEF WriteEntry
<1>4. CASE next > BufferSize
  BY <1>1, <1>3, <1>4
  DEF WriteEntry, ListInv, ListTypeOK, Entries, Holds, ReaderStaysInList, ListShowsTable, Faults
<1>5. CASE ~(next > BufferSize)
  <2> HIDE DEF size
  <2>1. /\ tmp_buff' = [c \in 0 .. BufferSize - 1 |->
             IF c \in tmp_idx .. next - 1 THEN EntryByte(slot, c - tmp_idx) ELSE tmp_buff[c]]
        /\ tmp_idx' = next /\ i' = i + 1
        /\ off' = [off EXCEPT ![i + 1] = next] /\ phase' = phase
    BY <1>5 DEF WriteEntry, size
  <2>2. BufferSize \in Nat /\ next <= BufferSize
    BY <1>2, <1>5, ListingAssumption DEF BufferSize, SlotBytes
  <2>3. ListTypeOK'
    BY <1>1, <1>2, <1>3, <2>1 DEF ListInv, ListTypeOK
  <2>4. Entries' = i + 1 /\ off'[i + 1] = next /\ off'[i] = tmp_idx
        /\ \A e \in 0 .. i : off'[e] = off[e]
    BY <1>1, <2>1 DEF Entries, ListInv, ListTypeOK
  <2>5. \A e \in 0 .. i - 1 : Holds(e)'
    <3> SUFFICES ASSUME NEW e \in 0 .. i - 1 PROVE Holds(e)'
      OBVIOUS
    <3> DEFINE s == EntrySize(entity_list[e])
    <3>1. Holds(e) /\ s \in Nat /\ off[e] \in Nat
      <4>1. e \in Eid /\ e \in 0 .. ElSize
        BY <1>1, ListingAssumption DEF Eid
      <4>2. entity_list[e] \in Slots /\ off[e] \in Nat
        BY <4>1 DEF ListInv, ListTypeOK
      <4>3. Holds(e)
        BY <1>1 DEF ListInv
      <4> QED BY <4>2, <4>3, SlotFacts
    <3>2. s' = s /\ off'[e] = off[e] /\ off'[e + 1] = off[e + 1]
      BY <1>1, <1>3, <2>4
    <3> HIDE DEF s
    <3>3. ASSUME NEW j \in 0 .. s - 1 PROVE tmp_buff'[off[e] + j] = tmp_buff[off[e] + j]
      <4>1. off[e] + j \in 0 .. tmp_idx - 1
        BY <1>1, <3>1 DEF Holds, s
      <4> QED BY <1>1, <1>2, <2>1, <2>2, <4>1
    <3>4. off[e + 1] = off[e] + s /\ off[e + 1] <= tmp_idx'
      BY <1>1, <1>2, <2>1, <3>1 DEF Holds, s
    <3>5. \A j \in 0 .. s - 1 : tmp_buff'[off[e] + j] = EntryByte(entity_list[e], j)
      BY <3>1, <3>3 DEF Holds, s
    <3> QED BY <1>3, <3>2, <3>4, <3>5 DEF Holds, s
  <2>6. ASSUME NEW e \in {i} PROVE Holds(e)'
    <3>1. ASSUME NEW j \in 0 .. size - 1 PROVE tmp_buff'[tmp_idx + j] = EntryByte(slot, j)
      <4>1. /\ tmp_idx + j \in 0 .. BufferSize - 1 /\ tmp_idx + j \in tmp_idx .. next - 1
            /\ (tmp_idx + j) - tmp_idx = j
        BY <1>1, <1>2, <2>2
      <4> QED BY <2>1, <4>1
    <3> QED
      BY <1>2, <1>3, <2>1, <2>4, <3>1 DEF Holds, size
  <2>7. \A e \in 0 .. Entries' - 1 : Holds(e)'
    <3>1. \A e \in 0 .. Entries' - 1 : e \in 0 .. i - 1 \/ e \in {i}
      BY <1>1, <2>4
    <3> QED BY <2>5, <2>6, <3>1
  <2>8. off'[0] = 0 /\ off'[Entries'] = tmp_idx'
    BY <1>1, <2>1, <2>4 DEF ListInv
  <2> QED
    BY <1>1, <2>1, <2>3, <2>7, <2>8 DEF ListInv, ReaderStaysInList, ListShowsTable
<1> QED BY <1>4, <1>5

LEMMA SendInv ==
  ASSUME ListInv, Send
  PROVE  ListInv'
<1>1. /\ phase = "write" /\ i = ElSize /\ i' = 0 /\ curr_idx' = 0
      /\ phase' = IF Overhead + tmp_idx <= BuffSize THEN "show" ELSE "refused"
      /\ UNCHANGED <<entity_list, tmp_buff, tmp_idx, lines, off>>
  BY DEF Send
<1>2. Entries = ElSize /\ Entries' = ElSize
  BY <1>1 DEF Entries
<1>3. \A e \in 0 .. Entries' - 1 : Holds(e)'
  BY <1>1, <1>2 DEF ListInv, Holds
<1>4. ListTypeOK'
  BY <1>1, ListingAssumption DEF ListInv, ListTypeOK
<1> QED
  BY <1>1, <1>2, <1>3, <1>4 DEF ListInv, ReaderStaysInList, ListShowsTable

\* A list that was sent is too short for a string whose length byte lies, so
\* that the walk goes from entry to entry and finds a line's text whole.
LEMMA ShowEntryInv ==
  ASSUME SmallBuffer, ListInv, ShowEntry
  PROVE  ListInv'
<1> DEFINE slot == entity_list[i]
           text == curr_idx + 3
           n    == KeLen[slot.ke]
<1>1. phase = "show" /\ i \in 0 .. ElSize - 1 /\ i + 1 \in 1 .. ElSize /\ slot \in Slots
  <2>1. phase = "show" /\ i < ElSize /\ i \in 0 .. ElSize /\ entity_list \in [Eid -> Slots]
    BY DEF ListInv, ListTypeOK, ShowEntry
  <2>2. i \in 0 .. ElSize - 1 /\ i + 1 \in 1 .. ElSize
    BY <2>1, ListingAssumption
  <2> QED BY <2>1, <2>2 DEF Eid
<1>2. /\ slot.type \in 0 .. 3 /\ slot.state \in 0 .. 2 /\ slot.ke_size \in Nat
      /\ EntrySize(slot) = 3 + slot.ke_size /\ n \in Nat /\ n < slot.ke_size
  BY <1>1, SlotFacts DEF EntrySize
<1>3. curr_idx \in Nat /\ curr_idx = off[i] /\ tmp_idx \in Nat /\ tmp_idx <= 255
  <2>1. off[i] \in Nat /\ curr_idx = off[i] /\ tmp_idx \in Nat /\ Overhead + tmp_idx <= BuffSize
    BY <1>1 DEF ListInv, ListTypeOK
  <2> QED BY <2>1, ListingAssumption DEF SmallBuffer
<1>4. Holds(i)
  BY <1>1 DEF ListInv, Entries
<1>5. text + slot.ke_size = off[i + 1] /\ text + slot.ke_size <= tmp_idx /\ slot.ke_size <= 255
  BY <1>2, <1>3, <1>4 DEF Holds
<1>6. \A j \in 0 .. 2 + slot.ke_size : tmp_buff[curr_idx + j] = EntryByte(slot, j)
  BY <1>2, <1>3, <1>4 DEF Holds
<1>7. /\ Value(tmp_buff[curr_idx]) = slot.type /\ Value(tmp_buff[curr_idx + 1]) = slot.state
      /\ Value(tmp_buff[curr_idx + 2]) = slot.ke_size
  <2>1. /\ tmp_buff[curr_idx + 0] = EntryByte(slot, 0) /\ tmp_buff[curr_idx + 1] = EntryByte(slot, 1)
        /\ tmp_buff[curr_idx + 2] = EntryByte(slot, 2) /\ curr_idx + 0 = curr_idx
    BY <1>2, <1>3, <1>6
  <2> QED BY <1>1, <1>5, <2>1, HeaderReadsBack
<1>8. /\ \A j \in 0 .. n - 1 : tmp_buff[text + j] = Char(slot.ke, j) /\ tmp_buff[text + j] # Nul
      /\ tmp_buff[text + n] = Nul
  <2>1. \A j \in 0 .. n : tmp_buff[text + j] = EntryByte(slot, 3 + j)
    <3> TAKE j \in 0 .. n
    <3>1. 3 + j \in 0 .. 2 + slot.ke_size /\ curr_idx + (3 + j) = text + j
      BY <1>2, <1>3
    <3> QED BY <1>6, <3>1
  <2> QED BY <1>1, <1>2, <2>1, StringReadsBack
<1>9. /\ slot.type \in TypeNames /\ slot.state \in StateNames
      /\ ~(text > tmp_idx) /\ ~(text + slot.ke_size > tmp_idx)
  BY <1>2, <1>3, <1>5 DEF TypeNames, StateNames
<1>10. PICK m \in 0 .. slot.ke_size :
         /\ IsTextLength(m, text, slot.ke_size)
         /\ lines' = [lines EXCEPT ![i] =
              [type |-> slot.type, state |-> slot.state, len |-> m,
               text |-> [j \in 0 .. m - 1 |-> tmp_buff[text + j]]]]
         /\ i' = i + 1 /\ curr_idx' = text + slot.ke_size /\ phase' = phase
  BY <1>7, <1>9 DEF ShowEntry
<1>11. UNCHANGED <<entity_list, tmp_buff, tmp_idx, off>>
  BY DEF ShowEntry
<1> HIDE DEF n, text
<1>12. m = n
  BY <1>2, <1>8, <1>10 DEF IsTextLength
<1>13. lines'[i] = LineOf(slot)
  <2>1. [j \in 0 .. m - 1 |-> tmp_buff[text + j]] = [j \in 0 .. n - 1 |-> Char(slot.ke, j)]
    BY <1>8, <1>12
  <2>2. i \in Eid /\ lines = [e \in Eid |-> lines[e]]
    BY <1>1 DEF Eid, ListInv, ListTypeOK
  <2>3. lines'[i] = [type |-> slot.type, state |-> slot.state, len |-> m,
                     text |-> [j \in 0 .. m - 1 |-> tmp_buff[text + j]]]
    BY <1>10, <2>2
  <2> QED BY <1>12, <2>1, <2>3 DEF LineOf, n
<1>14. \A e \in 0 .. i' - 1 : lines'[e] = LineOf(entity_list'[e])
  <2>1. ASSUME NEW e \in 0 .. i - 1 PROVE lines'[e] = LineOf(entity_list[e])
    <3>1. e # i /\ e \in Eid /\ lines[e] = LineOf(entity_list[e])
      BY <1>1, ListingAssumption DEF ListInv, ListShowsTable, Eid
    <3> QED BY <1>10, <3>1 DEF ListInv, ListTypeOK
  <2>2. \A e \in 0 .. i' - 1 : e \in 0 .. i - 1 \/ e = i
    BY <1>1, <1>10
  <2> QED BY <1>11, <1>13, <2>1, <2>2
<1>15. ListTypeOK'
  <2>1. lines' = [e \in Eid |-> lines'[e]]
    <3> DEFINE line == [type |-> slot.type, state |-> slot.state, len |-> m,
                        text |-> [j \in 0 .. m - 1 |-> tmp_buff[text + j]]]
    <3>1. lines' = [lines EXCEPT ![i] = line] /\ lines = [e \in Eid |-> lines[e]]
      BY <1>10 DEF ListInv, ListTypeOK
    <3> HIDE DEF line
    <3> QED BY <3>1
  <2>2. i' \in 0 .. ElSize
    BY <1>1, <1>10, ListingAssumption
  <2> QED BY <1>1, <1>10, <1>11, <2>1, <2>2 DEF ListInv, ListTypeOK
<1>16. Entries' = Entries /\ \A e \in 0 .. Entries' - 1 : Holds(e)'
  BY <1>1, <1>10, <1>11 DEF ListInv, Entries, Holds
<1>17. curr_idx' = off'[i']
  BY <1>5, <1>10, <1>11
<1> QED
  BY <1>1, <1>10, <1>11, <1>14, <1>15, <1>16, <1>17
  DEF ListInv, ReaderStaysInList, ListShowsTable

LEMMA FinishInv ==
  ASSUME ListInv, Finish
  PROVE  ListInv'
<1>1. /\ phase = "show" /\ i = ElSize /\ phase' = "shown"
      /\ UNCHANGED <<entity_list, tmp_buff, tmp_idx, i, curr_idx, lines, off>>
  BY DEF Finish
<1>2. Entries' = Entries /\ \A e \in 0 .. Entries' - 1 : Holds(e)'
  BY <1>1 DEF ListInv, Entries, Holds
<1> QED
  BY <1>1, <1>2 DEF ListInv, ListTypeOK, ReaderStaysInList, ListShowsTable, Eid

LEMMA ListInvariance == SmallBuffer => (Spec => []ListInv)
<1> SUFFICES ASSUME SmallBuffer PROVE Spec => []ListInv
  OBVIOUS
<1>1. ASSUME ListInv, [Next]_vars PROVE ListInv'
  <2>1. CASE UNCHANGED vars
    <3>1. Entries' = Entries /\ \A e \in 0 .. Entries' - 1 : Holds(e)'
      BY <1>1, <2>1 DEF vars, ListInv, Entries, Holds
    <3> QED
      BY <1>1, <2>1, <3>1 DEF vars, ListInv, ListTypeOK, ReaderStaysInList, ListShowsTable
  <2> QED
    BY <1>1, <2>1, WriteEntryInv, SendInv, ShowEntryInv, FinishInv DEF Next
<1> QED BY <1>1, InitListInv, PTL DEF Spec

\* Whatever the table holds, a list that is sent is shown as it is.
THEOREM ListArrivesIntact == SmallBuffer => (Spec => []ListShowsTable)
<1>1. ListInv => ListShowsTable
  BY DEF ListInv
<1> QED BY <1>1, ListInvariance, PTL

\* Node A never leaves the list it got, nor the arrays of names.
THEOREM WalkStaysInList == SmallBuffer => (Spec => []ReaderStaysInList)
<1>1. ListInv => ReaderStaysInList
  BY DEF ListInv
<1> QED BY <1>1, ListInvariance, PTL

-----------------------------------------------------------------------------
(* The buffer.                                                              *)

ModestInv ==
  /\ entity_list \in [Eid -> Slots] /\ i \in 0 .. ElSize /\ tmp_idx \in Nat
  /\ Modest => phase # "overrun" /\ (phase = "write" => tmp_idx <= SlotBytes * i)

\* Each turn of the loop uses at most the 64 bytes that were allocated for it.
THEOREM ModestStringsStayInBuffer == Spec => []ModestStringsFit
<1>1. Init => ModestInv
  BY ListingAssumption DEF Init, ModestInv, SlotBytes
<1>2. ASSUME ModestInv, [Next]_vars PROVE ModestInv'
  <2>1. CASE WriteEntry
    <3> DEFINE size == EntrySize(entity_list[i])
    <3>1. /\ phase = "write" /\ i < ElSize /\ i \in 0 .. ElSize /\ tmp_idx \in Nat
          /\ entity_list' = entity_list
      BY <1>2, <2>1 DEF ModestInv, WriteEntry
    <3>2. i \in Eid /\ i + 1 \in 0 .. ElSize
      BY <3>1, ListingAssumption DEF Eid
    <3>3. size \in Nat /\ (Modest => size <= 64)
      BY <1>2, <3>2, SlotFacts DEF ModestInv, Modest, EntrySize
    <3> HIDE DEF size
    <3>4. Modest => tmp_idx + size <= SlotBytes * (i + 1) /\ tmp_idx + size <= BufferSize
      BY <1>2, <3>1, <3>2, <3>3, ListingAssumption DEF ModestInv, SlotBytes, BufferSize
    <3>5. Modest' = Modest
      BY <3>1 DEF Modest
    <3>6. CASE tmp_idx + size > BufferSize
      <4>1. ~Modest /\ UNCHANGED <<tmp_idx, i, entity_list>>
        BY <2>1, <3>1, <3>3, <3>4, <3>6, ListingAssumption
        DEF WriteEntry, size, BufferSize, SlotBytes
      <4> QED BY <1>2, <3>5, <4>1 DEF ModestInv
    <3>7. CASE ~(tmp_idx + size > BufferSize)
      <4>1. tmp_idx' = tmp_idx + size /\ i' = i + 1 /\ phase' = phase
        BY <2>1, <3>7 DEF WriteEntry, size
      <4>2. tmp_idx' \in Nat
        BY <3>1, <3>3, <4>1
      <4> QED BY <1>2, <3>1, <3>2, <3>4, <3>5, <4>1, <4>2 DEF ModestInv
    <3> QED BY <3>6, <3>7
  <2>2. CASE Send
    BY <1>2, <2>2, ListingAssumption DEF ModestInv, Modest, Send
  <2>3. CASE ShowEntry
    <3>1. /\ i < ElSize /\ phase' # "overrun" /\ phase' # "write" /\ i' \in {i, i + 1}
          /\ UNCHANGED <<entity_list, tmp_idx>>
      BY <2>3 DEF ShowEntry
    <3>2. i' \in 0 .. ElSize
      BY <1>2, <3>1, ListingAssumption DEF ModestInv
    <3> QED BY <1>2, <3>1, <3>2 DEF ModestInv, Modest
  <2>4. CASE Finish
    BY <1>2, <2>4 DEF ModestInv, Modest, Finish
  <2>5. CASE UNCHANGED vars
    BY <1>2, <2>5 DEF ModestInv, Modest, vars
  <2> QED BY <1>2, <2>1, <2>2, <2>3, <2>4, <2>5 DEF Next
<1>3. ModestInv => ModestStringsFit
  BY DEF ModestInv, Modest, ModestStringsFit
<1> QED BY <1>1, <1>2, <1>3, PTL DEF Spec
=============================================================================
