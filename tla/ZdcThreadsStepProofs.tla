------------------------ MODULE ZdcThreadsStepProofs ------------------------
(***************************************************************************)
(* Statement by statement the two threads of node B do what ZdcNode says   *)
(* its operations do in one step: the proof of the refinement, for every   *)
(* set of key expressions, of any length, everything malloc may have left  *)
(* in the slots, and whatever zenoh refuses on the way.                    *)
(***************************************************************************)
EXTENDS ZdcThreadsProofs, ZdcEntityProofs

-----------------------------------------------------------------------------
(* What an operation in progress has made of its slot.                      *)

\* What the switch, an update or a rename leave, by what zenoh accepts.
Switches(ent, s) == {Switch(ent, s, declared) : declared \in DeclareResults}
Updates(ent, s)  == {UpdateEntityState(ent, s, declared) : declared \in DeclareResults}
Renames(ent, ke) == {RenameEntity(ent, ke, declared) : declared \in DeclareResults}

\* zdc_update_entity_state(before, s) has come to this stage with slot ent.
Updating(before, ent, s, stage) ==
  CASE stage = "check"  -> ent = before
    [] stage = "mark"   -> ent = before /\ MustSwitch(before, s)
    [] stage = "switch" -> ent = [before EXCEPT !.state = INVALID] /\ MustSwitch(before, s)
    [] stage = "store"  ->
         IF MustSwitch(before, s)
         THEN ent \in Switches([before EXCEPT !.state = INVALID], s)
         ELSE ent = before
    [] OTHER            -> ent \in Updates(before, s)

\* The slot the set-up fills, with the handle that malloc left there.
NewSlot(e) ==
  [type      |-> IF e = 0 THEN "QUERYABLE" ELSE Adds[e].type,
   state     |-> IF e = 0 THEN OFF ELSE INVALID,
   ke_suffix |-> DefKe[e], ke_size |-> NewSize(DefKe[e]), data |-> rest.slots[e].data]

Target(e) == IF e = 0 \/ Adds[e].on THEN ON ELSE OFF

\* Its fields are written in this order.
SettingUp(e, ent, stage) ==
  LET new == NewSlot(e)
  IN CASE stage \in Update \cup {"added"} -> Updating(new, ent, Target(e), stage)
       [] OTHER ->
            /\ ent.data = new.data
            /\ stage \in {"state", "size", "alloc", "copy"} => ent.type = new.type
            /\ stage \in {"size", "alloc", "copy"} => ent.state = INVALID
            /\ stage \in {"alloc", "copy"} => ent.ke_size = new.ke_size
            /\ stage = "copy" => ent.ke_suffix = Torn

Stopped(before) ==
  IF Restarts(before) THEN UpdateEntityState(before, OFF, TRUE) ELSE before

\* A rename to ke has come to this stage of the command.
RenamingSlot(before, ent, ke, stage) ==
  CASE stage = "grow"   -> ent = Stopped(before)
    [] stage = "tear"   -> ent = Grow(Stopped(before), ke)
    [] stage = "moved"  -> /\ ent = [Stopped(before) EXCEPT !.ke_suffix = Freed]
                           /\ NewSize(ke) > Stopped(before).ke_size
    [] stage = "copied" -> ent = [Grow(Stopped(before), ke) EXCEPT !.ke_suffix = Torn]
    [] OTHER            -> ent \in Renames(before, ke)

\* A subscriber or queryable that is on is declared, on the slot's key
\* expression, or zenoh refused it; one that is not on is not declared.
Agrees(ent) ==
  /\ ent.type \in Types /\ ent.ke_suffix \in KeyExprs /\ ent.state \in {OFF, ON, INVALID}
  /\ ent.type \in Declarable =>
       IF ent.state = ON THEN ent.data \in {ent.ke_suffix, NULL}
                         ELSE ent.data \notin KeyExprs

\* A slot between two operations is on or off, and what zenoh knows agrees.
Sound(ent) == Agrees(ent) /\ ent.state \in {OFF, ON}

\* The slot a thread is working on.
AtWork(e) ==
  \/ el_idx = e /\ pc["main"] # "boot"
  \/ Setting /\ upd["read"].e = e
  \/ Renaming /\ cmd.e = e

RestInv ==
  /\ rest \in [slots : [Eid -> Slots], rx_id : Uint16]
  /\ \A e \in Eid : ~AtWork(e) => slots[e] = rest.slots[e]
  /\ \A e \in Eid : IF e < el_idx THEN Sound(rest.slots[e])
                                  ELSE rest.slots[e].data \notin KeyExprs

SetUpInv ==
  el_idx < 3 /\ pc["main"] # "boot" =>
    /\ SettingUp(el_idx, slots[el_idx], pc["main"])
    /\ pc["main"] \in Update => upd["main"].s = Target(el_idx)

SettingInv ==
  Setting =>
    /\ Updating(rest.slots[upd["read"].e], slots[upd["read"].e], upd["read"].s, pc["read"])
    /\ upd["read"].ok /\ upd["read"].e # 0
    /\ \E id \in EntityIds :
         rx_id = CopyUint16(rest.rx_id, id) /\ rx_id = upd["read"].e

RenamingInv ==
  Renaming =>
    LET before == rest.slots[cmd.e]
        ent    == slots[cmd.e]
    IN /\ cmd.restart = Restarts(before)
       /\ IF pc["read"] \in Update
          THEN Updating(IF upd["read"].ret = "grow" THEN before
                        ELSE StoredStopped(before, cmd.ke), ent, upd["read"].s, pc["read"])
          ELSE RenamingSlot(before, ent, cmd.ke, pc["read"])
       /\ \E id \in EntityIds :
            rx_id = CopyUint16(rest.rx_id, id) /\ rx_id = cmd.e

ListInv ==
  pc["read"] = "entry" =>
    /\ \A k \in 1 .. Len(list.entries) :
         list.entries[k] = Node!ListEntry(rest.slots[k - 1])
    /\ list.tmp_idx = ListIdx(rest.slots, 3)[Len(list.entries)]

QueryInv ==
  /\ ~Setting /\ ~Renaming => rx_id = rest.rx_id
  /\ pc["read"] # "idle" => IsDeclared(rest.slots[0])
  /\ fault \in {"none", "overrun", "publisher"}

RInv == RestInv /\ SetUpInv /\ SettingInv /\ RenamingInv /\ ListInv /\ QueryInv

-----------------------------------------------------------------------------
(* ZdcNode and ZdcThreads apply the same operators of ZdcEntity.            *)

LEMMA SameUpdate ==
  ASSUME NEW ent, NEW s, NEW declared
  PROVE  /\ Node!MustSwitch(ent, s) = MustSwitch(ent, s)
         /\ Node!UpdateReturns(ent, s) = UpdateReturns(ent, s)
         /\ Node!UpdateEntityState(ent, s, declared) = UpdateEntityState(ent, s, declared)
         /\ Node!UpdateOrphans(ent, s) = UpdateOrphans(ent, s)
         /\ Node!UpdateIsUndefined(ent, s) = UpdateIsUndefined(ent, s)
         /\ Node!IsDeclared(ent) = IsDeclared(ent)
<1>1. Node!MustSwitch(ent, s) = MustSwitch(ent, s)
  BY DEF Node!MustSwitch, MustSwitch, Node!OFF, OFF, Node!INVALID, INVALID
<1>2. Node!UpdateReturns(ent, s) = UpdateReturns(ent, s)
  BY <1>1 DEF Node!UpdateReturns, UpdateReturns, Node!OFF, OFF, Node!ON, ON, Node!Types, Types
<1>3. Node!Switch(ent, s, declared) = Switch(ent, s, declared)
  BY DEF Node!Switch, Switch, Node!OFF, OFF, Node!ON, ON, Node!Declarable, Declarable
<1>4. Node!Int8(s) = Int8(s)
  BY DEF Node!Int8, Int8
<1>5. Node!UpdateEntityState(ent, s, declared) = UpdateEntityState(ent, s, declared)
  BY <1>1, <1>2, <1>3, <1>4 DEF Node!UpdateEntityState, UpdateEntityState, Node!INVALID, INVALID
<1>6. Node!IsDeclared(ent) = IsDeclared(ent)
  BY DEF Node!IsDeclared, IsDeclared
<1>7. Node!UpdateOrphans(ent, s) = UpdateOrphans(ent, s)
  BY <1>1, <1>6 DEF Node!UpdateOrphans, UpdateOrphans, Node!ON, ON, Node!Declarable, Declarable
<1>8. Node!UpdateIsUndefined(ent, s) = UpdateIsUndefined(ent, s)
  BY <1>1 DEF Node!UpdateIsUndefined, UpdateIsUndefined, Node!SwitchIsUndefined,
              SwitchIsUndefined, Node!ON, ON, Node!OFF, OFF, Node!Declarable, Declarable
<1> QED
  BY <1>1, <1>2, <1>5, <1>6, <1>7, <1>8

LEMMA SameRename ==
  ASSUME NEW ent, NEW ke, NEW declared
  PROVE  /\ Node!RenameEntity(ent, ke, declared) = RenameEntity(ent, ke, declared)
         /\ Node!RenameOrphans(ent, ke) = RenameOrphans(ent, ke)
         /\ Node!RenameIsUndefined(ent, ke) = RenameIsUndefined(ent, ke)
<1>1. Node!Restarts(ent) = Restarts(ent)
  BY DEF Node!Restarts, Restarts, Node!ON, ON
<1>2. Node!OFF = OFF /\ Node!ON = ON /\ Node!NewSize(ke) = NewSize(ke)
  BY DEF Node!OFF, OFF, Node!ON, ON, Node!NewSize, NewSize
<1>3. Node!StoredStopped(ent, ke) = StoredStopped(ent, ke)
  BY <1>1, <1>2, SameUpdate
  DEF Node!StoredStopped, StoredStopped, Node!StoreKeyexpr, StoreKeyexpr
<1>4. Node!RenameEntity(ent, ke, declared) = RenameEntity(ent, ke, declared)
  BY <1>1, <1>2, <1>3, SameUpdate DEF Node!RenameEntity, RenameEntity
<1>5. Node!RenameOrphans(ent, ke) = RenameOrphans(ent, ke)
  BY <1>1, <1>2, <1>3, SameUpdate DEF Node!RenameOrphans, RenameOrphans
<1>6. Node!RenameIsUndefined(ent, ke) = RenameIsUndefined(ent, ke)
  BY <1>1, <1>2, <1>3, SameUpdate DEF Node!RenameIsUndefined, RenameIsUndefined
<1> QED
  BY <1>4, <1>5, <1>6

LEMMA SameIds ==
  ASSUME NEW r, NEW id
  PROVE  Node!CopyUint16(r, id) = CopyUint16(r, id)
  BY DEF Node!CopyUint16, CopyUint16, Node!GetVLESize, GetVLESize

LEMMA SameListIdx == Node!ListSize = ListIdx(rest.slots, 3)[3]
<1>1. Node!ListIdx(rest.slots, 3) = ListIdx(rest.slots, 3)
  BY DEF Node!ListIdx, ListIdx
<1> QED
  BY <1>1, Sizes DEF Node!ListSize

-----------------------------------------------------------------------------
(* zdc_update_entity_state, step by step.                                   *)

\* The switch finds a string to declare on, or a handle to give back.
Switchable(before, s) ==
  before.type \in Declarable =>
    /\ s = ON => before.ke_suffix \in KeyExprs
    /\ s = OFF /\ MustSwitch(before, OFF) => before.data # Wild

LEMMA SoundSwitches ==
  ASSUME NEW ent, Sound(ent), NEW s
  PROVE  Switchable(ent, s)
  BY KeyExprAssumption DEF Sound, Agrees, Switchable, MustSwitch

LEMMA SwitchableDefined ==
  ASSUME NEW before, NEW s, Switchable(before, s)
  PROVE  ~UpdateIsUndefined(before, s)
  BY DEF Switchable, UpdateIsUndefined, SwitchIsUndefined, MustSwitch, OFF, ON

LEMMA UpdatingEnds ==
  ASSUME NEW before \in Slots, before.type \in Types, NEW s \in {OFF, ON},
         NEW declared
  PROVE  /\ before.state = s => UpdateEntityState(before, s, declared) = before
         /\ ~MustSwitch(before, s) =>
              UpdateEntityState(before, s, declared) = [before EXCEPT !.state = s]
         /\ MustSwitch(before, s) =>
              UpdateEntityState(before, s, declared) =
                [Switch([before EXCEPT !.state = INVALID], s, declared) EXCEPT !.state = s]
<1>1. Int8(s) = s /\ UpdateReturns(before, s)
  BY States DEF UpdateReturns
<1>2. ASSUME ~MustSwitch(before, s)
      PROVE  UpdateEntityState(before, s, declared) = [before EXCEPT !.state = s]
  BY <1>1, <1>2 DEF UpdateEntityState
<1>3. ASSUME MustSwitch(before, s)
      PROVE  UpdateEntityState(before, s, declared) =
                [Switch([before EXCEPT !.state = INVALID], s, declared) EXCEPT !.state = s]
  <2>1. UpdateEntityState(before, s, declared) = [Switch(before, s, declared) EXCEPT !.state = s]
    BY <1>1, <1>3 DEF UpdateEntityState
  <2>2. [Switch(before, s, declared) EXCEPT !.state = s] =
        [Switch([before EXCEPT !.state = INVALID], s, declared) EXCEPT !.state = s]
    BY DEF Switch, Slots
  <2> QED
    BY <2>1, <2>2
<1>4. before.state = s => [before EXCEPT !.state = s] = before /\ ~MustSwitch(before, s)
  BY DEF MustSwitch, Slots
<1> QED
  BY <1>2, <1>3, <1>4

\* Nothing is declared on the way off.
LEMMA StopsAlike ==
  ASSUME NEW ent, NEW declared
  PROVE  UpdateEntityState(ent, OFF, declared) = UpdateEntityState(ent, OFF, TRUE)
<1>1. Switch(ent, OFF, declared) = Switch(ent, OFF, TRUE)
  BY States DEF Switch
<1> QED
  BY <1>1 DEF UpdateEntityState

LEMMA UpdatesOff ==
  ASSUME NEW ent, NEW new \in Updates(ent, OFF)
  PROVE  new = UpdateEntityState(ent, OFF, TRUE)
<1>1. PICK declared \in DeclareResults : new = UpdateEntityState(ent, OFF, declared)
  BY DEF Updates
<1> QED
  BY <1>1, StopsAlike

\* A step of thread t in zdc_update_entity_state takes its slot from one
\* stage to another; a slot that is sound to start with is never the cause
\* of undefined behaviour.
LEMMA UpdateStage ==
  ASSUME TypeInv, NEW t \in Thread, NEW before \in Slots, before.type \in Types,
         Switchable(before, upd[t].s), pc[t] \in Update,
         upd[t].ret \in {"added", "set", "grow", "renamed"},
         Updating(before, slots[upd[t].e], upd[t].s, pc[t]),
         zdc_update_entity_state(t)
  PROVE  /\ UNCHANGED <<upd, fault>> /\ UpdateRest
         /\ \E to \in Update \cup {upd[t].ret}, new \in Slots :
              /\ pc' = [pc EXCEPT ![t] = to]
              /\ slots' = [slots EXCEPT ![upd[t].e] = new]
              /\ Updating(before, new, upd[t].s, to)
<1> DEFINE e   == upd[t].e
           s   == upd[t].s
           ret == upd[t].ret
           ent == slots[e]
<1>1. e \in Eid /\ s \in {OFF, ON} /\ ent \in Slots
  BY DEF TypeInv, Calls
<1>2. ret \notin Update /\ \A new : Updating(before, new, s, ret) <=> new \in Updates(before, s)
  BY DEF Update, Updating
<1>3. slots = [slots EXCEPT ![e] = ent]
  BY <1>1 DEF TypeInv
<1> HIDE DEF e, s, ret, ent
<1>8. \E declared : declared \in DeclareResults
  BY ThreadsAssumption
<1>4. CASE UpdateCheck(t)
  <2>1. pc[t] = "check" /\ UNCHANGED <<slots, upd, fault>> /\ UpdateRest
        /\ pc' = [pc EXCEPT ![t] = IF ent.state = s THEN ret
                                   ELSE IF MustSwitch(ent, s) THEN "mark" ELSE "store"]
    BY <1>4 DEF UpdateCheck, Move, e, s, ret, ent
  <2>2. ent = before
    BY <2>1 DEF Updating, e, s, ent
  <2>3. CASE ent.state = s
    <3>1. ent \in Updates(before, s)
      BY <1>1, <1>8, <2>2, <2>3, UpdatingEnds DEF Updates
    <3> QED
      BY <1>1, <1>2, <1>3, <2>1, <2>3, <3>1 DEF e, s, ret
  <2>4. CASE ent.state # s /\ MustSwitch(ent, s)
    <3>1. Updating(before, ent, s, "mark") /\ "mark" \in Update
      BY <2>2, <2>4 DEF Updating, Update
    <3> QED
      BY <1>1, <1>3, <2>1, <2>4, <3>1 DEF e, s, ret
  <2>5. CASE ent.state # s /\ ~MustSwitch(ent, s)
    <3>1. Updating(before, ent, s, "store") /\ "store" \in Update
      BY <2>2, <2>5 DEF Updating, Update
    <3> QED
      BY <1>1, <1>3, <2>1, <2>5, <3>1 DEF e, s, ret
  <2> QED
    BY <2>3, <2>4, <2>5
<1>5. CASE UpdateMark(t)
  <2> DEFINE new == [ent EXCEPT !.state = INVALID]
  <2>1. /\ pc[t] = "mark" /\ pc' = [pc EXCEPT ![t] = "switch"]
        /\ slots' = [slots EXCEPT ![e] = new]
        /\ UNCHANGED <<upd, fault>> /\ UpdateRest
    BY <1>5 DEF UpdateMark, Move, SetSlot, e, ent
  <2>2. new \in Slots
    BY <1>1, States DEF Slots
  <2>3. Updating(before, new, s, "switch") /\ "switch" \in Update
    BY <2>1 DEF Updating, Update, e, s, ent
  <2> HIDE DEF new
  <2> QED
    BY <2>1, <2>2, <2>3 DEF e, s
<1>6. CASE UpdateSwitch(t)
  <2>1. pc[t] = "switch"
    BY <1>6 DEF UpdateSwitch, Move
  <2>2. ent = [before EXCEPT !.state = INVALID] /\ MustSwitch(before, s)
    BY <2>1 DEF Updating, e, s, ent
  <2>3. ent.type \in Types /\ ~SwitchIsUndefined(ent, s)
    BY <2>2 DEF Switchable, SwitchIsUndefined, Slots, s
  <2>4. PICK declared \in DeclareResults :
          /\ pc' = [pc EXCEPT ![t] = "store"]
          /\ slots' = [slots EXCEPT ![e] = Switch(ent, s, declared)]
          /\ UNCHANGED <<upd, fault>> /\ UpdateRest
    BY <1>6, <2>3 DEF UpdateSwitch, Move, SetSlot, e, s, ent
  <2> DEFINE new == Switch(ent, s, declared)
  <2>5. new \in Slots
    BY <1>1, <2>3 DEF Switch, SwitchIsUndefined, Slots
  <2>6. new \in Switches([before EXCEPT !.state = INVALID], s)
    BY <2>2 DEF Switches
  <2>7. slots' = [slots EXCEPT ![e] = new]
    BY <2>4
  <2> HIDE DEF new
  <2>8. Updating(before, new, s, "store") /\ "store" \in Update
    BY <2>2, <2>6 DEF Updating, Update
  <2> QED
    BY <2>4, <2>5, <2>7, <2>8 DEF e, s
<1>7. CASE UpdateStore(t)
  <2> DEFINE new == [ent EXCEPT !.state = s]
  <2>1. /\ pc[t] = "store" /\ pc' = [pc EXCEPT ![t] = ret]
        /\ slots' = [slots EXCEPT ![e] = new]
        /\ UNCHANGED <<upd, fault>> /\ UpdateRest
    BY <1>1, <1>7, States DEF UpdateStore, Move, SetSlot, e, s, ret, ent
  <2>2. new \in Slots
    BY <1>1, States DEF Slots
  <2>3. new \in Updates(before, s)
    <3>1. CASE MustSwitch(before, s)
      <4>1. PICK declared \in DeclareResults :
              ent = Switch([before EXCEPT !.state = INVALID], s, declared)
        BY <2>1, <3>1 DEF Updating, Switches, e, s, ent
      <4>2. new = UpdateEntityState(before, s, declared)
        BY <1>1, <3>1, <4>1, UpdatingEnds
      <4> QED
        BY <4>2 DEF Updates
    <3>2. CASE ~MustSwitch(before, s)
      <4>1. ent = before
        BY <2>1, <3>2 DEF Updating, e, s, ent
      <4>2. PICK declared \in DeclareResults : TRUE
        BY <1>8
      <4>3. UpdateEntityState(before, s, declared) = [before EXCEPT !.state = s]
        BY <1>1, <3>2, UpdatingEnds
      <4> QED
        BY <4>1, <4>3 DEF Updates
    <3> QED
      BY <3>1, <3>2
  <2> HIDE DEF new
  <2> QED
    BY <1>2, <2>1, <2>2, <2>3 DEF e, s, ret
<1> QED
  BY <1>4, <1>5, <1>6, <1>7 DEF zdc_update_entity_state

LEMMA Stutter ==
  ASSUME UNCHANGED <<el_idx, rest, reply>>,
         fault' = fault \/ (fault = "none" /\ fault' = "publisher")
  PROVE  UNCHANGED Node!vars
  BY DEF Node!vars

-----------------------------------------------------------------------------
(* The main thread: set-up.                                                 *)

LEMMA InitR == Init => RInv
<1> SUFFICES ASSUME Init PROVE RInv
  OBVIOUS
<1>1. pc["main"] = "boot" /\ pc["read"] = "idle"
  BY DEF Init, Thread
<1>2. ~Setting /\ ~Renaming /\ \A e \in Eid : ~(e < el_idx)
  BY <1>1, Sizes DEF Init, Setting, Renaming, Update
<1>3. TInv
  BY InitT
<1>4. \A e \in Eid : slots[e].data \notin KeyExprs
  BY ThreadsAssumption, KeyExprAssumption DEF Init, MallocedSlots, ZeroSlot, WildSlots
<1>5. RestInv
  BY <1>2, <1>3, <1>4 DEF Init, RestInv, TInv, TypeInv
<1> QED
  BY <1>1, <1>2, <1>5
  DEF Init, RInv, SetUpInv, SettingInv, RenamingInv, ListInv, QueryInv

LEMMA IdleMeans ==
  ASSUME pc["read"] \in {"idle", "entry"}
  PROVE  ~Setting /\ ~Renaming
  BY DEF Setting, Renaming, Update

\* A step of the set-up takes slot el_idx to its next stage.
LEMMA SetUpR ==
  ASSUME TInv, RInv, el_idx < 3, NEW to \in {"state", "size", "alloc", "copy", "added"} \cup Update,
         NEW ent \in Slots,
         pc' = [pc EXCEPT !["main"] = to], slots' = [slots EXCEPT ![el_idx] = ent],
         UNCHANGED <<el_idx, rest, rx_id, reply, fault>>,
         SettingUp(el_idx, ent, to), to \in Update => upd'["main"].s = Target(el_idx)
  PROVE  RInv' /\ UNCHANGED Node!vars
<1>1. pc["read"] = "idle" /\ pc'["read"] = "idle" /\ pc'["main"] = to /\ el_idx \in Eid
  BY MoveType, Sizes DEF TInv, ReadInv, TypeInv, Thread
<1>2. ~Setting /\ ~Renaming
  BY <1>1, IdleMeans
<1>3. ~Setting' /\ ~Renaming'
  BY <1>1 DEF Setting, Renaming, Update
<1>4. slots'[el_idx] = ent /\ \A e \in Eid \ {el_idx} : slots'[e] = slots[e]
  BY <1>1 DEF TInv, TypeInv
<1>5. \A e \in Eid : ~AtWork(e)' => e # el_idx /\ ~AtWork(e)
  BY <1>1, <1>2 DEF AtWork, Update
<1>6. RestInv'
  BY <1>4, <1>5 DEF RInv, RestInv
<1>7. SetUpInv'
  BY <1>1, <1>4 DEF SetUpInv, SettingUp, NewSlot
<1>8. QueryInv'
  BY <1>1, <1>2, <1>3 DEF RInv, QueryInv
<1>9. SettingInv' /\ RenamingInv' /\ ListInv'
  BY <1>1, <1>3 DEF SettingInv, RenamingInv, ListInv
<1> QED
  BY <1>6, <1>7, <1>8, <1>9, Stutter DEF RInv

LEMMA MainInitR ==
  ASSUME TInv, RInv, MainInit
  PROVE  RInv' /\ UNCHANGED Node!vars
<1> DEFINE ent == [type |-> "QUERYABLE", state |-> OFF, ke_suffix |-> DefKe[0],
                   ke_size |-> NewSize(DefKe[0]), data |-> slots[0].data]
<1>1. pc["main"] = "boot" /\ el_idx = 0 /\ 0 \in Eid /\ DefKe[0] \in KeyExprs
  BY Sizes, ThreadsAssumption DEF MainInit, Call, Move, TInv, MainInv
<1>2. pc["read"] = "idle"
  BY <1>1 DEF TInv, ReadInv
<1>3. slots[0] = rest.slots[0] /\ slots[0] \in Slots
  BY <1>1, <1>2, IdleMeans DEF RInv, RestInv, AtWork, TInv, TypeInv
<1>4. ent \in Slots
  BY <1>1, <1>3, SmallSlot DEF Slots, Types
<1>5. ent = NewSlot(0)
  BY <1>3 DEF NewSlot
<1>6. /\ pc' = [pc EXCEPT !["main"] = "check"] /\ slots' = [slots EXCEPT ![el_idx] = ent]
      /\ upd' = [upd EXCEPT !["main"] = [e |-> 0, s |-> ON, ok |-> TRUE, ret |-> "added"]]
      /\ UNCHANGED <<el_idx, rest, rx_id, reply, fault>>
  BY <1>1 DEF MainInit, Call, Move, SetSlot, MainRest
<1>7. upd'["main"].s = Target(el_idx)
  BY <1>1, <1>6 DEF TInv, TypeInv, Thread, Target
<1>8. "check" \in Update /\ SettingUp(el_idx, ent, "check")
  BY <1>1, <1>5 DEF Update, SettingUp, Updating
<1>9. el_idx < 3
  BY <1>1
<1> HIDE DEF ent
<1> QED
  BY <1>4, <1>6, <1>7, <1>8, <1>9, SetUpR

LEMMA AddR ==
  ASSUME TInv, RInv, AddType \/ AddState \/ AddSize \/ AddAlloc \/ AddCopy
  PROVE  RInv' /\ UNCHANGED Node!vars
<1> DEFINE ent == slots[el_idx]
           new == NewSlot(el_idx)
<1>1. pc["main"] \in {"type", "state", "size", "alloc", "copy"}
  BY DEF AddType, AddState, AddSize, AddAlloc, AddCopy, AddWrite, Call, Move
<1>2. el_idx \in 1 .. 2
  BY <1>1 DEF TInv, MainInv
<1>3. el_idx \in Eid /\ el_idx < 3 /\ el_idx # 0 /\ pc["main"] \notin Update \cup {"added"}
  BY <1>1, <1>2, Sizes DEF Update
<1>4. ent \in Slots /\ DefKe[el_idx] \in KeyExprs
  BY <1>3, ThreadsAssumption DEF TInv, TypeInv
<1>5. SettingUp(el_idx, ent, pc["main"])
  BY <1>1, <1>3 DEF RInv, SetUpInv
<1>6. /\ ent.data = new.data
      /\ pc["main"] \in {"state", "size", "alloc", "copy"} => ent.type = new.type
      /\ pc["main"] \in {"size", "alloc", "copy"} => ent.state = INVALID
      /\ pc["main"] \in {"alloc", "copy"} => ent.ke_size = new.ke_size
      /\ pc["main"] = "copy" => ent.ke_suffix = Torn
  BY <1>3, <1>5 DEF SettingUp
<1>7. new = [type |-> Adds[el_idx].type, state |-> INVALID, ke_suffix |-> DefKe[el_idx],
             ke_size |-> NewSize(DefKe[el_idx]), data |-> new.data]
  BY <1>3 DEF NewSlot
<1> HIDE DEF ent, new
<1>8. ASSUME NEW from, NEW to \in {"state", "size", "alloc", "copy"}, NEW wr \in Slots,
             AddWrite(from, to, wr), SettingUp(el_idx, wr, to)
      PROVE  RInv' /\ UNCHANGED Node!vars
  <2>1. pc' = [pc EXCEPT !["main"] = to] /\ slots' = [slots EXCEPT ![el_idx] = wr]
        /\ UNCHANGED <<el_idx, rest, rx_id, reply, fault>>
    BY <1>8 DEF AddWrite, Move, SetSlot, MainRest
  <2>2. to \notin Update
    BY DEF Update
  <2> QED
    BY <1>3, <1>8, <2>1, <2>2, SetUpR
<1>9. ASSUME NEW to \in {"state", "size", "alloc", "copy"}, NEW wr,
             wr.data = new.data, wr.type = new.type,
             to \in {"size", "alloc", "copy"} => wr.state = INVALID,
             to \in {"alloc", "copy"} => wr.ke_size = new.ke_size,
             to = "copy" => wr.ke_suffix = Torn
      PROVE  SettingUp(el_idx, wr, to)
  BY <1>9 DEF SettingUp, Update, new
<1>10. CASE AddType
  <2> DEFINE wr == [ent EXCEPT !.type = Adds[el_idx].type]
  <2>1. wr \in Slots /\ wr.data = new.data /\ wr.type = new.type
    BY <1>2, <1>4, <1>6, <1>7 DEF Slots, Adds, Types
  <2>2. AddWrite("type", "state", wr)
    BY <1>10 DEF AddType, ent
  <2> HIDE DEF wr
  <2> QED
    BY <1>8, <1>9, <2>1, <2>2
<1>11. CASE AddState
  <2> DEFINE wr == [ent EXCEPT !.state = INVALID]
  <2>1. AddWrite("state", "size", wr) /\ pc["main"] = "state"
    BY <1>11 DEF AddState, AddWrite, Move, ent
  <2>2. wr \in Slots /\ wr.data = new.data /\ wr.type = new.type /\ wr.state = INVALID
    BY <1>4, <1>6, <2>1, States DEF Slots
  <2> HIDE DEF wr
  <2> QED
    BY <1>8, <1>9, <2>1, <2>2
<1>12. CASE AddSize
  <2> DEFINE wr == [ent EXCEPT !.ke_size = NewSize(DefKe[el_idx])]
  <2>1. AddWrite("size", "alloc", wr) /\ pc["main"] = "size"
    BY <1>12 DEF AddSize, AddWrite, Move, ent
  <2>2. wr \in Slots /\ wr.data = new.data /\ wr.type = new.type /\ wr.state = INVALID
        /\ wr.ke_size = new.ke_size
    BY <1>4, <1>6, <1>7, <2>1, SmallSlot DEF Slots
  <2> HIDE DEF wr
  <2> QED
    BY <1>8, <1>9, <2>1, <2>2
<1>13. CASE AddAlloc
  <2> DEFINE wr == [ent EXCEPT !.ke_suffix = Torn]
  <2>1. AddWrite("alloc", "copy", wr) /\ pc["main"] = "alloc"
    BY <1>13 DEF AddAlloc, AddWrite, Move, ent
  <2>2. wr \in Slots /\ wr.data = new.data /\ wr.type = new.type /\ wr.state = INVALID
        /\ wr.ke_size = new.ke_size /\ wr.ke_suffix = Torn
    BY <1>4, <1>6, <2>1 DEF Slots
  <2> HIDE DEF wr
  <2> QED
    BY <1>8, <1>9, <2>1, <2>2
<1>14. CASE AddCopy
  <2> DEFINE wr   == [ent EXCEPT !.ke_suffix = DefKe[el_idx]]
             call == [e |-> el_idx, s |-> IF Adds[el_idx].on THEN ON ELSE OFF, ok |-> TRUE,
                      ret |-> "added"]
  <2>1. /\ pc["main"] = "copy" /\ pc' = [pc EXCEPT !["main"] = "check"]
        /\ upd' = [upd EXCEPT !["main"] = call] /\ slots' = [slots EXCEPT ![el_idx] = wr]
        /\ UNCHANGED <<el_idx, rest, rx_id, reply, fault>>
    <3>1. ~(pc["main"] = "copy" /\ slots[el_idx].ke_suffix = Freed)
      BY <1>6, ThreadsAssumption DEF ent
    <3> QED
      BY <1>14, <3>1 DEF AddCopy, Call, Move, SetSlot, MainRest, ent
  <2>2. wr \in Slots
    BY <1>4 DEF Slots
  <2>3. wr = new
    BY <1>4, <1>6, <1>7, <2>1 DEF Slots
  <2>4. SettingUp(el_idx, wr, "check") /\ "check" \in Update
    BY <2>3 DEF SettingUp, Updating, Update, new
  <2>5. upd'["main"].s = Target(el_idx)
    BY <1>3, <2>1 DEF TInv, TypeInv, Thread, Target
  <2> HIDE DEF wr, call
  <2> QED
    BY <1>3, <2>1, <2>2, <2>4, <2>5, SetUpR
<1> QED
  BY <1>10, <1>11, <1>12, <1>13, <1>14

LEMMA UpdateAgrees ==
  ASSUME NEW before \in Slots, Agrees(before), NEW s \in {OFF, ON},
         NEW declared
  PROVE  /\ UpdateEntityState(before, s, declared) \in Slots
         /\ Sound(UpdateEntityState(before, s, declared))
         /\ UpdateEntityState(before, s, declared).state = s
         /\ UpdateOrphans(before, s) = {}
         /\ Switchable(before, s)
<1>1. CASE ~MustSwitch(before, s)
  <2>1. UpdateEntityState(before, s, declared) = [before EXCEPT !.state = s]
    BY <1>1, UpdatingEnds DEF Agrees
  <2>2. UpdateOrphans(before, s) = {}
    BY <1>1 DEF UpdateOrphans
  <2>3. [before EXCEPT !.state = s] \in Slots /\ Sound([before EXCEPT !.state = s])
    BY <1>1, States DEF Slots, Sound, Agrees, MustSwitch
  <2>4. Switchable(before, s)
    BY <1>1 DEF Switchable, Agrees
  <2> QED
    BY <2>1, <2>2, <2>3, <2>4 DEF Slots
<1>2. CASE MustSwitch(before, s)
  <2> DEFINE new == [Switch([before EXCEPT !.state = INVALID], s, declared) EXCEPT !.state = s]
  <2>1. UpdateEntityState(before, s, declared) = new
    BY <1>2, UpdatingEnds DEF Agrees
  <2>2. new \in Slots /\ new.state = s /\ new.type = before.type
        /\ new.ke_suffix = before.ke_suffix
        /\ (before.type \in Declarable =>
              new.data = IF s = ON /\ declared THEN before.ke_suffix ELSE NULL)
    BY States DEF Switch, Slots, Agrees
  <2>3. Sound(new)
    BY <2>2, KeyExprAssumption, States DEF Sound, Agrees
  <2>4. UpdateOrphans(before, s) = {}
    BY <1>2 DEF UpdateOrphans, MustSwitch, IsDeclared, Agrees
  <2>5. Switchable(before, s)
    BY <1>2, KeyExprAssumption, States DEF Switchable, Agrees, MustSwitch
  <2> QED
    BY <2>1, <2>2, <2>3, <2>4, <2>5
<1> QED
  BY <1>1, <1>2

LEMMA NewSlotAgrees ==
  ASSUME TInv, RInv, el_idx < 3
  PROVE  /\ el_idx \in Eid /\ NewSlot(el_idx) \in Slots /\ Agrees(NewSlot(el_idx))
         /\ Target(el_idx) \in {OFF, ON}
<1>1. el_idx \in Eid /\ el_idx \in 0 .. 2
  BY Sizes DEF TInv, TypeInv
<1>2. DefKe[el_idx] \in KeyExprs /\ NewSize(DefKe[el_idx]) \in Nat
  BY <1>1, SmallSlot, ThreadsAssumption
<1>3. rest.slots[el_idx] \in Slots /\ rest.slots[el_idx].data \notin KeyExprs
  BY <1>1 DEF RInv, RestInv
<1>4. el_idx # 0 => Adds[el_idx].type \in Types
  BY <1>1 DEF Adds, Types
<1>5. NewSlot(el_idx) \in Slots
  BY <1>2, <1>3, <1>4, States DEF NewSlot, Slots, Types
<1> QED
  BY <1>1, <1>2, <1>3, <1>4, <1>5, States DEF NewSlot, Agrees, Types, Target

LEMMA MainUpdateR ==
  ASSUME TInv, RInv, zdc_update_entity_state("main")
  PROVE  RInv' /\ UNCHANGED Node!vars
<1> DEFINE new == NewSlot(el_idx)
<1>1. pc["main"] \in Update
  BY DEF zdc_update_entity_state, UpdateCheck, UpdateMark, UpdateSwitch, UpdateStore, Move, Update
<1>2. upd["main"].e = el_idx /\ upd["main"].ret = "added" /\ el_idx < 3
  BY <1>1 DEF TInv, MainInv
<1>3. new \in Slots /\ Agrees(new) /\ Target(el_idx) \in {OFF, ON}
  BY <1>2, NewSlotAgrees
<1>4. upd["main"].s = Target(el_idx) /\ Updating(new, slots[el_idx], Target(el_idx), pc["main"])
  BY <1>1, <1>2 DEF RInv, SetUpInv, SettingUp, Update
<1>5. Switchable(new, Target(el_idx)) /\ new.type \in Types
  BY <1>3, UpdateAgrees DEF Agrees
<1> HIDE DEF new
<1>6. /\ UNCHANGED <<upd, fault>> /\ UpdateRest
      /\ \E to \in Update \cup {"added"}, wr \in Slots :
           /\ pc' = [pc EXCEPT !["main"] = to]
           /\ slots' = [slots EXCEPT ![el_idx] = wr]
           /\ Updating(new, wr, Target(el_idx), to)
  BY <1>1, <1>2, <1>3, <1>4, <1>5, UpdateStage DEF TInv, Thread
<1>7. PICK to \in Update \cup {"added"}, wr \in Slots :
        /\ pc' = [pc EXCEPT !["main"] = to]
        /\ slots' = [slots EXCEPT ![el_idx] = wr]
        /\ Updating(new, wr, Target(el_idx), to)
  BY <1>6
<1>8. SettingUp(el_idx, wr, to)
  BY <1>7 DEF SettingUp, new
<1>9. UNCHANGED <<el_idx, rest, rx_id, reply, fault>>
  BY <1>6 DEF UpdateRest, history
<1>10. to \in Update => upd'["main"].s = Target(el_idx)
  BY <1>4, <1>6
<1> QED
  BY <1>2, <1>7, <1>8, <1>9, <1>10, SetUpR

LEMMA SameNewEntity ==
  ASSUME NEW e \in Eid
  PROVE  Node!NewEntity(e, IF e = 0 THEN "QUERYABLE" ELSE Adds[e].type,
                        IF e = 0 THEN OFF ELSE INVALID, DefKe[e]) = NewSlot(e)
  BY DEF Node!NewEntity, NewSlot, Node!NewSize, NewSize

\* The last statement of zdc_MainInit or zdc_add_*_entity is where ZdcNode
\* takes the whole operation.
LEMMA AddedStep ==
  ASSUME TInv, RInv, Added
  PROVE  Node!Next
<1> DEFINE new == NewSlot(el_idx)
           s   == Target(el_idx)
<1>1. /\ pc["main"] = "added" /\ fault = "none" /\ el_idx' = el_idx + 1
      /\ rest' = [rest EXCEPT !.slots[el_idx] = slots[el_idx]]
      /\ UNCHANGED <<reply, fault>>
  BY DEF Added, Move, MainRest
<1>2. el_idx < 3 /\ el_idx \in 0 .. 2 /\ el_idx \in Eid
  BY <1>1, Sizes DEF TInv, MainInv, TypeInv
<1>3. new \in Slots /\ Agrees(new) /\ s \in {OFF, ON}
  BY <1>2, NewSlotAgrees
<1>4. PICK declared \in DeclareResults : slots[el_idx] = UpdateEntityState(new, s, declared)
  BY <1>1, <1>2 DEF RInv, SetUpInv, SettingUp, Updating, Updates
<1> DEFINE ent == UpdateEntityState(new, s, declared)
<1>5. rest.slots \in [Eid -> Slots] /\ DOMAIN rest = {"slots", "rx_id"}
  BY DEF RInv, RestInv
<1>6. rest'.slots = [rest.slots EXCEPT ![el_idx] = ent] /\ rest'.rx_id = rest.rx_id
  BY <1>1, <1>4, <1>5 DEF RInv, RestInv
<1>7. UpdateOrphans(new, s) = {} /\ ~UpdateIsUndefined(new, s)
  BY <1>3, UpdateAgrees, SwitchableDefined
<1>8. DefKe[el_idx] \in KeyExprs
  BY <1>2, ThreadsAssumption
<1>9. CASE el_idx = 0
  <2>1. new = Node!NewEntity(0, "QUERYABLE", Node!OFF, DefKe[0]) /\ s = Node!ON
    BY <1>2, <1>9, SameNewEntity DEF Target, Node!OFF, OFF, Node!ON, ON
  <2>2. ent = Node!UpdateEntityState(new, s, declared)
    BY SameUpdate
  <2> HIDE DEF new, s, ent
  <2>3. {} = {} \cup {<<0, ke>> : ke \in {}}
    OBVIOUS
  <2>4. Node!MainInit(DefKe[0])
    BY <1>1, <1>6, <1>9, <2>1, <2>2, <2>3 DEF Node!MainInit, Node!SetEntity
  <2> QED
    BY <1>8, <1>9, <2>4 DEF Node!Next, Node!Application
<1>10. CASE el_idx # 0
  <2> DEFINE type == Adds[el_idx].type
             on   == IF Adds[el_idx].on THEN TRUE ELSE FALSE
  <2>1. (type = "PUB" \/ type = "SUB") /\ on \in BOOLEAN
    <3>1. el_idx = 1 \/ el_idx = 2
      BY <1>2, <1>10
    <3>2. type = "PUB" \/ type = "SUB"
      BY <3>1 DEF Adds
    <3> QED
      BY <3>2
  <2>2. new = Node!NewEntity(el_idx, type, Node!INVALID, DefKe[el_idx])
        /\ s = (IF on THEN Node!ON ELSE Node!OFF)
    BY <1>2, <1>10, SameNewEntity
    DEF Target, Node!OFF, OFF, Node!ON, ON, Node!INVALID, INVALID
  <2>3. /\ ent = Node!UpdateEntityState(new, s, declared)
        /\ Node!UpdateOrphans(new, s) = {} /\ ~Node!UpdateIsUndefined(new, s)
    BY <1>7, SameUpdate
  <2>4. {} = {} \cup {<<el_idx, ke>> : ke \in {}}
    OBVIOUS
  <2> HIDE DEF new, s, ent, type, on
  <2>5. Node!AddEntity(type, on, DefKe[el_idx])
    <3>1. el_idx < Node!ElSize /\ el_idx' # 0
      BY <1>1, <1>2, Sizes
    <3> QED
      BY <1>1, <1>6, <1>10, <2>2, <2>3, <2>4, <3>1 DEF Node!AddEntity, Node!SetEntity
  <2>6. Node!AddPubEntity(on, DefKe[el_idx]) \/ Node!AddSubEntity(on, DefKe[el_idx])
    BY <2>1, <2>5 DEF Node!AddPubEntity, Node!AddSubEntity
  <2> QED
    BY <1>8, <2>1, <2>6 DEF Node!Next, Node!Application
<1> QED
  BY <1>9, <1>10

LEMMA AddedR ==
  ASSUME TInv, RInv, Added
  PROVE  RInv'
<1> DEFINE to == IF el_idx < EntityNb THEN "type" ELSE "load"
<1>1. /\ pc["main"] = "added" /\ pc' = [pc EXCEPT !["main"] = to] /\ el_idx' = el_idx + 1
      /\ rest' = [rest EXCEPT !.slots[el_idx] = slots[el_idx]]
      /\ UNCHANGED <<slots, rx_id, fault>>
  BY DEF Added, Move, MainRest
<1>2. el_idx < 3 /\ el_idx \in 0 .. 2 /\ el_idx \in Eid /\ to \in {"type", "load"}
  BY <1>1, Sizes DEF TInv, MainInv, TypeInv
<1> HIDE DEF to
<1>3. pc["read"] = "idle" /\ pc'["read"] = "idle" /\ pc'["main"] = to
  BY <1>1, <1>2, MoveType DEF TInv, ReadInv, Thread
<1>4. ~Setting /\ ~Renaming /\ ~Setting' /\ ~Renaming'
  BY <1>3, IdleMeans DEF Setting, Renaming, Update
<1>5. rest \in [slots : [Eid -> Slots], rx_id : Uint16] /\ slots \in [Eid -> Slots]
  BY DEF RInv, RestInv, TInv, TypeInv
<1>6. /\ rest' \in [slots : [Eid -> Slots], rx_id : Uint16] /\ rest'.rx_id = rest.rx_id
      /\ rest'.slots[el_idx] = slots[el_idx]
      /\ \A e \in Eid \ {el_idx} : rest'.slots[e] = rest.slots[e]
  BY <1>1, <1>2, <1>5
<1>7. Sound(slots[el_idx])
  <2>1. PICK declared \in DeclareResults :
          slots[el_idx] = UpdateEntityState(NewSlot(el_idx), Target(el_idx), declared)
    BY <1>1, <1>2 DEF RInv, SetUpInv, SettingUp, Updating, Updates
  <2> QED
    BY <1>2, <2>1, NewSlotAgrees, UpdateAgrees
<1>8. \A e \in Eid : e # el_idx => slots[e] = rest.slots[e]
  BY <1>4 DEF RInv, RestInv, AtWork
<1>9. RestInv'
  <2>1. \A e \in Eid : slots'[e] = rest'.slots[e]
    BY <1>1, <1>6, <1>8
  <2>2. \A e \in Eid : e < el_idx' <=> e < el_idx \/ e = el_idx
    BY <1>1, <1>2, Sizes
  <2> QED
    BY <1>6, <1>7, <2>1, <2>2 DEF RInv, RestInv
<1>10. SetUpInv'
  <2>1. ASSUME el_idx' < 3 PROVE to = "type" /\ el_idx' \in Eid /\ el_idx' # el_idx
    BY <1>1, <1>2, <2>1, Sizes DEF to
  <2>2. ASSUME el_idx' < 3 PROVE slots'[el_idx'].data = rest'.slots[el_idx'].data
    BY <1>1, <1>6, <1>8, <2>1, <2>2
  <2>3. "type" \notin Update \cup {"added", "state", "size", "alloc", "copy"}
    BY DEF Update
  <2> QED
    BY <1>3, <2>1, <2>2, <2>3 DEF SetUpInv, SettingUp, NewSlot
<1>11. SettingInv' /\ RenamingInv' /\ ListInv'
  BY <1>3, <1>4 DEF SettingInv, RenamingInv, ListInv
<1>12. QueryInv'
  BY <1>1, <1>3, <1>4, <1>6 DEF RInv, QueryInv
<1> QED
  BY <1>9, <1>10, <1>11, <1>12 DEF RInv

-----------------------------------------------------------------------------
(* Renames, on a slot.                                                      *)

LEMMA StopAgrees ==
  ASSUME NEW before \in Slots, Sound(before)
  PROVE  /\ Stopped(before) \in Slots /\ Sound(Stopped(before))
         /\ Stopped(before).state = OFF
<1>1. Agrees(before)
  BY DEF Sound
<1> QED
  BY <1>1, UpdateAgrees, States DEF Stopped, Restarts, Sound

LEMMA StoreAgrees ==
  ASSUME NEW before \in Slots, Sound(before), NEW ke \in KeyExprs
  PROVE  /\ StoredStopped(before, ke) \in Slots /\ Sound(StoredStopped(before, ke))
         /\ StoredStopped(before, ke) = StoreKeyexpr(Stopped(before), ke)
         /\ StoredStopped(before, ke).state = OFF
<1>1. StoredStopped(before, ke) = StoreKeyexpr(Stopped(before), ke)
  BY DEF StoredStopped, Stopped
<1>2. ASSUME NEW ent \in Slots, Sound(ent), ent.state = OFF
      PROVE  /\ StoreKeyexpr(ent, ke) \in Slots /\ Sound(StoreKeyexpr(ent, ke))
             /\ StoreKeyexpr(ent, ke).state = OFF
  <2>1. /\ StoreKeyexpr(ent, ke) \in Slots /\ StoreKeyexpr(ent, ke).state = OFF
        /\ StoreKeyexpr(ent, ke).type = ent.type /\ StoreKeyexpr(ent, ke).data = ent.data
        /\ StoreKeyexpr(ent, ke).ke_suffix = ke
    BY <1>2, SmallSlot DEF StoreKeyexpr, Slots
  <2> QED
    BY <1>2, <2>1, States DEF Sound, Agrees
<1> QED
  BY <1>1, <1>2, StopAgrees

LEMMA RenameAgrees ==
  ASSUME NEW before \in Slots, Sound(before), NEW ke \in KeyExprs, NEW declared
  PROVE  /\ Sound(RenameEntity(before, ke, declared))
         /\ RenameOrphans(before, ke) = {}
         /\ ~RenameIsUndefined(before, ke)
<1> DEFINE st == StoredStopped(before, ke)
<1>1. st \in Slots /\ Sound(st) /\ Agrees(st) /\ Agrees(before)
  BY StoreAgrees DEF Sound
<1>2. OFF \in {OFF, ON} /\ ON \in {OFF, ON}
  OBVIOUS
<1>3. UpdateOrphans(st, ON) = {} /\ ~UpdateIsUndefined(st, ON) /\ ~UpdateIsUndefined(before, OFF)
      /\ Sound(UpdateEntityState(st, ON, declared))
  BY <1>1, <1>2, UpdateAgrees, SwitchableDefined
<1>4. before.ke_suffix # Wild /\ before.ke_suffix # NULL
  BY KeyExprAssumption DEF Sound, Agrees
<1> QED
  BY <1>1, <1>3, <1>4 DEF RenameEntity, RenameOrphans, RenameIsUndefined

\* realloc and strcpy, one after the other, are StoreKeyexpr.
LEMMA StoreInPieces ==
  ASSUME NEW ent \in Slots, NEW ke \in KeyExprs
  PROVE  [[Grow(ent, ke) EXCEPT !.ke_suffix = Torn] EXCEPT !.ke_suffix = ke] =
           StoreKeyexpr(ent, ke)
<1> DEFINE size == IF NewSize(ke) > ent.ke_size THEN NewSize(ke) ELSE ent.ke_size
<1>1. NewSize(ke) \in Nat /\ ent.ke_size \in Nat
  BY SmallSlot DEF Slots
<1>2. StoreKeyexpr(ent, ke) = [ent EXCEPT !.ke_suffix = ke, !.ke_size = size]
  BY DEF StoreKeyexpr
<1>3. PICK x : Grow(ent, ke) = [ent EXCEPT !.ke_size = size, !.ke_suffix = x]
  <2>1. CASE NewSize(ke) <= ent.ke_size
    <3>1. size = ent.ke_size
      BY <1>1, <2>1
    <3>2. ent = [ent EXCEPT !.ke_size = ent.ke_size, !.ke_suffix = ent.ke_suffix]
      BY DEF Slots
    <3> QED
      BY <2>1, <3>1, <3>2 DEF Grow
  <2>2. CASE ~(NewSize(ke) <= ent.ke_size)
    <3>1. size = NewSize(ke)
      BY <1>1, <2>2
    <3> QED
      BY <2>2, <3>1 DEF Grow
  <2> QED
    BY <2>1, <2>2
<1> HIDE DEF size
<1>4. [[[ent EXCEPT !.ke_size = size, !.ke_suffix = x] EXCEPT !.ke_suffix = Torn]
          EXCEPT !.ke_suffix = ke] = [ent EXCEPT !.ke_suffix = ke, !.ke_size = size]
  BY DEF Slots
<1> QED
  BY <1>2, <1>3, <1>4

\* A string that realloc moves, once its pointer and size are stored and
\* strcpy has begun.
LEMMA MovedIsGrown ==
  ASSUME NEW ent \in Slots, NEW ke \in KeyExprs, NewSize(ke) > ent.ke_size
  PROVE  [[ent EXCEPT !.ke_suffix = Freed] EXCEPT !.ke_suffix = Torn, !.ke_size = NewSize(ke)]
           = [Grow(ent, ke) EXCEPT !.ke_suffix = Torn]
<1>1. NewSize(ke) \in Nat /\ ent.ke_size \in Nat
  BY SmallSlot DEF Slots
<1>2. PICK x : Grow(ent, ke) = [ent EXCEPT !.ke_size = NewSize(ke), !.ke_suffix = x]
  <2>1. ~(NewSize(ke) <= ent.ke_size)
    BY <1>1
  <2> DEFINE x == IF ent.ke_suffix = NULL THEN Torn ELSE ent.ke_suffix
  <2>2. Grow(ent, ke) = [ent EXCEPT !.ke_size = NewSize(ke), !.ke_suffix = x]
    BY <2>1 DEF Grow
  <2> HIDE DEF x
  <2> QED
    BY <2>2
<1> QED
  BY <1>2 DEF Slots

-----------------------------------------------------------------------------
(* Steps that ZdcNode does not see.                                         *)

LEMMA SameR ==
  ASSUME TInv, RInv, el_idx = 3, pc'["read"] = pc["read"],
         UNCHANGED <<slots, el_idx, upd, cmd, list, rx_id, rest>>,
         fault' \in {"none", "overrun", "publisher"}
  PROVE  RInv'
<1>1. (Setting' <=> Setting) /\ (Renaming' <=> Renaming)
  BY DEF Setting, Renaming
<1>2. RestInv'
  <2>1. \A e \in Eid : ~AtWork(e)' => ~AtWork(e)
    BY <1>1, Sizes DEF AtWork
  <2> QED
    BY <2>1 DEF RInv, RestInv
<1> QED
  BY <1>1, <1>2 DEF RInv, SetUpInv, SettingInv, RenamingInv, ListInv, QueryInv

LEMMA PublishR ==
  ASSUME TInv, RInv, Publish
  PROVE  RInv' /\ UNCHANGED Node!vars
<1>1. /\ pc["main"] \in Loop /\ fault = "none"
      /\ \E to : pc' = [pc EXCEPT !["main"] = to]
      /\ UNCHANGED <<slots, el_idx, upd, cmd, list, rx_id, rest, reply>>
      /\ fault' \in {"none", "publisher"}
  BY DEF Publish, PubCheck, PubKeyexpr, PubPut, Move, PubRest, Loop
<1>2. el_idx = 3
  BY <1>1 DEF TInv, MainInv
<1>3. pc'["read"] = pc["read"]
  BY <1>1, MoveType DEF TInv, Thread
<1> QED
  BY <1>1, <1>2, <1>3, SameR, Stutter

\* Between commands the table is what the last operation left.
LEMMA AtRest ==
  ASSUME TInv, RInv, el_idx = 3, pc["read"] \in {"idle", "entry"}
  PROVE  slots = rest.slots /\ rx_id = rest.rx_id
<1>1. \A e \in Eid : slots[e] = rest.slots[e]
  BY IdleMeans, Sizes DEF RInv, RestInv, AtWork
<1>2. slots \in [Eid -> Slots] /\ rest.slots \in [Eid -> Slots]
  BY DEF RInv, RestInv, TInv, TypeInv
<1> QED
  BY <1>1, <1>2, IdleMeans DEF RInv, QueryInv

\* A command starts to work on a slot.
LEMMA StartR ==
  ASSUME TInv, RInv, el_idx = 3, pc["read"] = "idle", IsDeclared(slots[0]), fault = "none",
         NEW to, pc' = [pc EXCEPT !["read"] = to], to # "entry",
         UNCHANGED <<slots, el_idx, rest, list, fault>>, Setting' \/ Renaming',
         SettingInv', RenamingInv'
  PROVE  RInv'
<1>1. pc'["read"] = to
  BY MoveType DEF TInv, Thread
<1>2. RestInv'
  BY AtRest DEF RInv, RestInv
<1>3. QueryInv'
  BY AtRest DEF QueryInv
<1> QED
  BY <1>1, <1>2, <1>3 DEF RInv, SetUpInv, ListInv

\* A command takes the slot it works on to the next stage.
LEMMA WorkR ==
  ASSUME TInv, RInv, el_idx = 3, pc["read"] \notin {"idle", "entry"},
         NEW to, pc' = [pc EXCEPT !["read"] = to], to # "entry",
         NEW w \in Eid, NEW new, slots' = [slots EXCEPT ![w] = new],
         (Setting /\ Setting' /\ w = upd["read"].e /\ w = upd'["read"].e)
           \/ (Renaming /\ Renaming' /\ w = cmd.e),
         UNCHANGED <<el_idx, rest, rx_id, list, cmd, fault>>,
         SettingInv', RenamingInv'
  PROVE  RInv'
<1>1. pc'["read"] = to
  BY MoveType DEF TInv, Thread
<1>2. ~(Setting /\ Renaming)
  BY DEF Setting, Renaming, Update
<1>3. \A e \in Eid : ~AtWork(e)' => e # w /\ ~AtWork(e)
  BY <1>2, Sizes DEF AtWork
<1>4. \A e \in Eid \ {w} : slots'[e] = slots[e]
  BY DEF TInv, TypeInv
<1>5. RestInv'
  BY <1>3, <1>4 DEF RInv, RestInv
<1>6. QueryInv'
  BY DEF RInv, QueryInv
<1> QED
  BY <1>1, <1>5, <1>6 DEF RInv, SetUpInv, ListInv

\* The slots of completed operations, as a command finds them.
LEMMA RestSound ==
  ASSUME TInv, RInv, el_idx = 3, NEW e \in Eid
  PROVE  rest.slots[e] \in Slots /\ Sound(rest.slots[e]) /\ Agrees(rest.slots[e])
<1>1. e < el_idx
  BY Sizes
<1> QED
  BY <1>1 DEF RInv, RestInv, Sound

LEMMA SetStateStartR ==
  ASSUME TInv, RInv, Settled, NEW id \in EntityIds, NEW s \in {OFF, ON}, SetState(id, s),
         ~\E m : AnswerAtOnce(CopyUint16(rx_id, id), m)
  PROVE  RInv' /\ UNCHANGED Node!vars
<1> DEFINE e    == CopyUint16(rx_id, id)
           call == [e |-> e, s |-> s, ok |-> TRUE, ret |-> "set"]
<1>1. Dispatch /\ e \in 1 .. EntityNb /\ Call("read", "idle", e, s, "set")
      /\ rx_id' = e /\ UNCHANGED <<shared, list, reply, fault, rest>>
  BY DEF SetState
<1>2. el_idx = 3 /\ pc["read"] = "idle" /\ fault = "none" /\ IsDeclared(slots[0])
  BY <1>1, DispatchT DEF Dispatch
<1>3. pc' = [pc EXCEPT !["read"] = "check"] /\ upd' = [upd EXCEPT !["read"] = call]
      /\ UNCHANGED <<slots, el_idx>>
  BY <1>1 DEF Call, Move, shared
<1>4. e \in Eid /\ e # 0
  BY <1>1, Sizes
<1>5. pc'["read"] = "check" /\ upd'["read"] = call
  BY <1>3, InvParts, MoveType DEF TInv, Thread
<1>6. slots = rest.slots /\ rx_id = rest.rx_id
  BY <1>2, AtRest
<1>7. call.e = e /\ call.s = s /\ call.ok = TRUE /\ call.ret = "set"
  OBVIOUS
<1> HIDE DEF call
<1>8. Setting' /\ ~Renaming'
  BY <1>5, <1>7 DEF Setting, Renaming, Update
<1>9. Updating(rest.slots[e], slots[e], s, "check")
  BY <1>6 DEF Updating
<1>10. e = CopyUint16(rest.rx_id, id)
  BY <1>6
<1> HIDE DEF e
<1>11. SettingInv'
  BY <1>1, <1>3, <1>4, <1>5, <1>7, <1>9, <1>10 DEF SettingInv
<1>12. RenamingInv'
  BY <1>8 DEF RenamingInv
<1> QED
  BY <1>1, <1>2, <1>3, <1>8, <1>11, <1>12, StartR, Stutter

LEMMA SetKeyexprStartR ==
  ASSUME TInv, RInv, Settled, NEW id \in EntityIds, NEW ke \in KeyExprs, SetKeyexpr(id, ke),
         ~\E m : AnswerAtOnce(CopyUint16(rx_id, id), m)
  PROVE  RInv' /\ UNCHANGED Node!vars
<1> DEFINE e    == CopyUint16(rx_id, id)
           r    == Restarts(slots[e])
           call == [e |-> e, s |-> OFF, ok |-> TRUE, ret |-> "grow"]
<1>1. /\ Dispatch /\ e < ElSize /\ cmd' = [e |-> e, ke |-> ke, restart |-> r] /\ rx_id' = e
      /\ IF r THEN /\ pc' = [pc EXCEPT !["read"] = "check"]
                   /\ upd' = [upd EXCEPT !["read"] = call]
              ELSE pc' = [pc EXCEPT !["read"] = "grow"] /\ UNCHANGED upd
      /\ UNCHANGED <<slots, el_idx, list, reply, fault, rest>>
  BY DEF SetKeyexpr, Call, Move, RenameRest, history
<1>2. el_idx = 3 /\ pc["read"] = "idle" /\ fault = "none" /\ IsDeclared(slots[0])
  BY <1>1, DispatchT DEF Dispatch
<1>3. slots = rest.slots /\ rx_id = rest.rx_id
  BY <1>2, AtRest
<1>4. e = CopyUint16(rest.rx_id, id) /\ call.s = OFF /\ call.ret = "grow"
  BY <1>3
<1>5. r = Restarts(rest.slots[e])
  BY <1>3
<1> HIDE DEF e, call, r
<1>6. cmd'.e = e /\ cmd'.ke = ke /\ cmd'.restart = r
  BY <1>1
<1>7. CASE r
  <2>1. pc'["read"] = "check" /\ upd'["read"] = call
    BY <1>1, <1>7, InvParts, MoveType DEF TInv, Thread
  <2>2. Renaming' /\ ~Setting'
    BY <1>4, <2>1 DEF Setting, Renaming, Update
  <2>3. Updating(rest.slots[e], slots[e], OFF, "check")
    BY <1>3 DEF Updating
  <2>4. "check" \in Update
    BY DEF Update
  <2>5. RenamingInv'
    BY <1>1, <1>4, <1>5, <1>6, <2>1, <2>3, <2>4 DEF RenamingInv
  <2>6. SettingInv'
    BY <2>2 DEF SettingInv
  <2> QED
    BY <1>1, <1>2, <1>7, <2>2, <2>5, <2>6, StartR, Stutter
<1>8. CASE ~r
  <2>1. pc'["read"] = "grow"
    BY <1>1, <1>8, MoveType DEF TInv, Thread
  <2>2. Renaming' /\ ~Setting'
    BY <2>1 DEF Setting, Renaming, Update
  <2>3. RenamingSlot(rest.slots[e], slots[e], ke, "grow")
    BY <1>3, <1>5, <1>8 DEF RenamingSlot, Stopped
  <2>4. "grow" \notin Update
    BY DEF Update
  <2>5. RenamingInv'
    BY <1>1, <1>4, <1>5, <1>6, <2>1, <2>3, <2>4 DEF RenamingInv
  <2>6. SettingInv'
    BY <2>2 DEF SettingInv
  <2> QED
    BY <1>1, <1>2, <1>8, <2>2, <2>5, <2>6, StartR, Stutter
<1> QED
  BY <1>7, <1>8

LEMMA ReadUpdateR ==
  ASSUME TInv, RInv, Settled, zdc_update_entity_state("read")
  PROVE  RInv' /\ UNCHANGED Node!vars
<1> DEFINE e   == upd["read"].e
           s   == upd["read"].s
           ret == upd["read"].ret
           before == IF Setting \/ ret = "grow" THEN rest.slots[e]
                     ELSE StoredStopped(rest.slots[e], cmd.ke)
<1>1. pc["read"] \in Update
  BY DEF zdc_update_entity_state, UpdateCheck, UpdateMark, UpdateSwitch, UpdateStore, Move, Update
<1>2. el_idx = 3
  BY <1>1, ReadRuns DEF Update
<1>3. e \in Eid /\ s \in {OFF, ON} /\ ret \in {"set", "grow", "renamed"}
  BY <1>1, InvParts DEF Thread, Calls, ReadInv
<1>4. /\ Setting <=> ret = "set"
      /\ Renaming <=> ret \in {"grow", "renamed"}
      /\ Renaming => cmd.ke \in KeyExprs /\ e = cmd.e /\ cmd.restart
                     /\ s = IF ret = "grow" THEN OFF ELSE ON
  BY <1>1, <1>3, InvParts DEF Setting, Renaming, Update, ReadInv
<1>5. before \in Slots /\ Agrees(before)
  BY <1>2, <1>3, <1>4, RestSound, StoreAgrees DEF Sound
<1>6. Updating(before, slots[e], s, pc["read"])
  BY <1>1, <1>3, <1>4 DEF RInv, SettingInv, RenamingInv
<1>7. Switchable(before, s) /\ before.type \in Types
  BY <1>3, <1>5, UpdateAgrees DEF Agrees
<1> HIDE DEF e, s, ret, before
<1>8. /\ UNCHANGED <<upd, fault>> /\ UpdateRest
      /\ \E to \in Update \cup {ret}, new \in Slots :
           /\ pc' = [pc EXCEPT !["read"] = to]
           /\ slots' = [slots EXCEPT ![e] = new]
           /\ Updating(before, new, s, to)
  BY <1>1, <1>3, <1>5, <1>6, <1>7, UpdateStage DEF TInv, Thread, e, s, ret
<1>9. PICK to \in Update \cup {ret}, new \in Slots :
        /\ pc' = [pc EXCEPT !["read"] = to]
        /\ slots' = [slots EXCEPT ![e] = new]
        /\ Updating(before, new, s, to)
  BY <1>8
<1>10. UNCHANGED <<el_idx, rest, rx_id, list, cmd, reply>>
  BY <1>8 DEF UpdateRest, history
<1>11. pc'["read"] = to /\ to # "entry"
  BY <1>3, <1>9, MoveType DEF TInv, Thread, Update
<1>12. slots'[e] = new
  BY <1>3, <1>9 DEF TInv, TypeInv
<1>13. (Setting' <=> Setting) /\ (Renaming' <=> Renaming)
  BY <1>1, <1>3, <1>8, <1>9, <1>11 DEF Setting, Renaming, Update, ret
<1>14. SettingInv'
  <2> SUFFICES ASSUME Setting' PROVE SettingInv'
    BY DEF SettingInv
  <2>1. before = rest.slots[e]
    BY <1>13 DEF before
  <2> QED
    BY <1>8, <1>9, <1>10, <1>11, <1>12, <1>13, <2>1 DEF RInv, SettingInv, e, s
<1>15. RenamingInv'
  <2> SUFFICES ASSUME Renaming' PROVE RenamingInv'
    BY DEF RenamingInv
  <2>1. Renaming /\ e = cmd.e /\ cmd.restart = Restarts(rest.slots[cmd.e]) /\ cmd.restart
        /\ s = (IF ret = "grow" THEN OFF ELSE ON) /\ ret \in {"grow", "renamed"} /\ ~Setting
    BY <1>4, <1>13 DEF RInv, RenamingInv
  <2>2. before = IF ret = "grow" THEN rest.slots[cmd.e] ELSE StoredStopped(rest.slots[cmd.e], cmd.ke)
    BY <2>1 DEF before
  <2>3. CASE to \in Update
    BY <1>8, <1>9, <1>10, <1>11, <1>12, <2>1, <2>2, <2>3 DEF RInv, RenamingInv, e, s, ret
  <2>4. CASE to \notin Update
    <3>1. to = ret /\ new \in Updates(before, s)
      BY <1>9, <2>4 DEF Updating, Update
    <3>2. RenamingSlot(rest.slots[cmd.e], new, cmd.ke, to)
      <4>1. CASE ret = "grow"
        BY <2>1, <2>2, <3>1, <4>1, UpdatesOff DEF RenamingSlot, Stopped
      <4>2. CASE ret = "renamed"
        BY <2>1, <2>2, <3>1, <4>2 DEF RenamingSlot, Renames, Updates, RenameEntity
      <4> QED
        BY <2>1, <4>1, <4>2
    <3> QED
      BY <1>8, <1>10, <1>11, <1>12, <2>1, <2>4, <3>2 DEF RInv, RenamingInv, e
  <2> QED
    BY <2>3, <2>4
<1>16. \/ Setting /\ Setting' /\ e = upd["read"].e /\ e = upd'["read"].e
       \/ Renaming /\ Renaming' /\ e = cmd.e
  BY <1>3, <1>4, <1>8, <1>13 DEF e, ret
<1>17. pc["read"] \notin {"idle", "entry"}
  BY <1>1 DEF Update
<1> QED
  BY <1>2, <1>3, <1>8, <1>9, <1>10, <1>11, <1>14, <1>15, <1>16, <1>17, WorkR, Stutter

LEMMA RenamingR ==
  ASSUME TInv, RInv, Settled, RenameGrow \/ RenameStore \/ RenameTear \/ RenameCopied
  PROVE  RInv' /\ UNCHANGED Node!vars
<1> DEFINE ent    == slots[cmd.e]
           before == rest.slots[cmd.e]
<1>1. pc["read"] \in {"grow", "moved", "tear", "copied"}
  BY DEF RenameGrow, RenameStore, RenameTear, RenameCopied, Move, Call
<1>2. Renaming /\ ~Setting /\ pc["read"] \notin Update \cup {"idle", "entry"}
  BY <1>1 DEF Renaming, Setting, Update
<1>3. el_idx = 3 /\ cmd.e \in Eid /\ cmd.ke \in KeyExprs
  BY <1>1, <1>2, ReadRuns DEF TInv, TypeInv, ReadInv
<1>4. before \in Slots /\ Sound(before) /\ Stopped(before) \in Slots
  BY <1>3, RestSound, StopAgrees
<1>5. RenamingSlot(before, ent, cmd.ke, pc["read"])
      /\ cmd.restart = Restarts(before)
      /\ \E id \in EntityIds : rx_id = CopyUint16(rest.rx_id, id) /\ rx_id = cmd.e
  BY <1>2 DEF RInv, RenamingInv
<1> HIDE DEF ent, before
<1>6. ASSUME NEW to \in {"moved", "tear", "copied", "renamed"}, NEW new,
             pc' = [pc EXCEPT !["read"] = to], slots' = [slots EXCEPT ![cmd.e] = new],
             UNCHANGED <<upd, cmd, rx_id, fault>>, RenameRest,
             RenamingSlot(before, new, cmd.ke, to)
      PROVE  RInv' /\ UNCHANGED Node!vars
  <2>1. pc'["read"] = to /\ to \notin Update \cup {"entry"} /\ slots'[cmd.e] = new
    BY <1>3, <1>6, MoveType DEF TInv, TypeInv, Thread, Update
  <2>2. UNCHANGED <<el_idx, rest, list, reply>>
    BY <1>6 DEF RenameRest, history
  <2>3. Renaming' /\ ~Setting'
    BY <2>1 DEF Renaming, Setting, Update
  <2>4. RenamingInv'
    BY <1>5, <1>6, <2>1, <2>2 DEF RenamingInv, before
  <2>5. SettingInv'
    BY <2>3 DEF SettingInv
  <2> QED
    BY <1>2, <1>3, <1>6, <2>1, <2>2, <2>3, <2>4, <2>5, WorkR, Stutter
<1>7. CASE RenameGrow
  <2> DEFINE new == Grow(ent, cmd.ke)
  <2>1. pc["read"] = "grow"
    BY <1>7 DEF RenameGrow, Move
  <2>2. ent = Stopped(before)
    BY <1>5, <2>1 DEF RenamingSlot
  <2>3. ent.ke_suffix \in KeyExprs
    BY <1>3, <2>1, SettledSlots DEF ent
  <2>4. ent.ke_suffix # Wild /\ new.ke_suffix # NULL
    <3>1. new.ke_suffix = ent.ke_suffix
      BY <1>4, <2>2, <2>3, KeyExprAssumption DEF Grow, Slots
    <3> HIDE DEF new
    <3> QED
      BY <2>3, <3>1, KeyExprAssumption
  <2>5. CASE ~(pc' = [pc EXCEPT !["read"] = "moved"])
    <3>1. /\ pc' = [pc EXCEPT !["read"] = "tear"] /\ slots' = [slots EXCEPT ![cmd.e] = new]
          /\ UNCHANGED <<upd, cmd, rx_id, fault>> /\ RenameRest
      BY <1>7, <2>4, <2>5 DEF RenameGrow, Move, SetSlot, ent
    <3>2. RenamingSlot(before, new, cmd.ke, "tear")
      BY <2>2 DEF RenamingSlot
    <3> HIDE DEF new
    <3> QED
      BY <1>6, <3>1, <3>2
  <2>6. CASE pc' = [pc EXCEPT !["read"] = "moved"]
    <3> DEFINE moved == [ent EXCEPT !.ke_suffix = Freed]
    <3>1. pc'["read"] = "moved"
      BY <2>6, MoveType DEF TInv, Thread
    <3>2. /\ slots' = [slots EXCEPT ![cmd.e] = moved] /\ NewSize(cmd.ke) > ent.ke_size
          /\ UNCHANGED <<upd, cmd, rx_id, fault>> /\ RenameRest
      BY <1>7, <2>4, <3>1, MoveType DEF RenameGrow, Move, SetSlot, ent, TInv, Thread
    <3>3. RenamingSlot(before, moved, cmd.ke, "moved")
      BY <2>2, <3>2 DEF RenamingSlot
    <3> HIDE DEF moved
    <3> QED
      BY <1>6, <2>6, <3>2, <3>3
  <2> QED
    BY <2>5, <2>6
<1>10. CASE RenameStore
  <2> DEFINE new == [ent EXCEPT !.ke_suffix = Torn, !.ke_size = NewSize(cmd.ke)]
  <2>1. /\ pc["read"] = "moved" /\ pc' = [pc EXCEPT !["read"] = "copied"]
        /\ slots' = [slots EXCEPT ![cmd.e] = new]
        /\ UNCHANGED <<upd, cmd, rx_id, fault>> /\ RenameRest
    BY <1>10 DEF RenameStore, Move, SetSlot, ent
  <2>2. ent = [Stopped(before) EXCEPT !.ke_suffix = Freed]
        /\ NewSize(cmd.ke) > Stopped(before).ke_size
    BY <1>5, <2>1 DEF RenamingSlot
  <2>3. new = [Grow(Stopped(before), cmd.ke) EXCEPT !.ke_suffix = Torn]
    BY <1>3, <1>4, <2>2, MovedIsGrown
  <2> HIDE DEF new
  <2>4. RenamingSlot(before, new, cmd.ke, "copied")
    BY <2>3 DEF RenamingSlot
  <2> QED
    BY <1>6, <2>1, <2>4
<1>8. CASE RenameTear
  <2> DEFINE new == [ent EXCEPT !.ke_suffix = Torn]
  <2>1. /\ pc["read"] = "tear" /\ pc' = [pc EXCEPT !["read"] = "copied"]
        /\ slots' = [slots EXCEPT ![cmd.e] = new]
        /\ UNCHANGED <<upd, cmd, rx_id, fault>> /\ RenameRest
    BY <1>8 DEF RenameTear, Move, SetSlot, ent
  <2>2. RenamingSlot(before, new, cmd.ke, "copied")
    BY <1>5, <2>1 DEF RenamingSlot
  <2> HIDE DEF new
  <2> QED
    BY <1>6, <2>1, <2>2
<1>9. CASE RenameCopied
  <2> DEFINE new == [ent EXCEPT !.ke_suffix = cmd.ke]
  <2>1. /\ pc["read"] = "copied" /\ slots' = [slots EXCEPT ![cmd.e] = new]
        /\ UNCHANGED <<cmd, rx_id, fault>> /\ RenameRest
    BY <1>9 DEF RenameCopied, SetSlot, Call, Move, ent
  <2>2. new = StoredStopped(before, cmd.ke)
    <3>1. ent = [Grow(Stopped(before), cmd.ke) EXCEPT !.ke_suffix = Torn]
      BY <1>5, <2>1 DEF RenamingSlot
    <3>2. [[Grow(Stopped(before), cmd.ke) EXCEPT !.ke_suffix = Torn] EXCEPT !.ke_suffix = cmd.ke]
            = StoreKeyexpr(Stopped(before), cmd.ke)
      BY <1>3, <1>4, StoreInPieces
    <3>3. StoredStopped(before, cmd.ke) = StoreKeyexpr(Stopped(before), cmd.ke)
      BY <1>3, <1>4, StoreAgrees
    <3> QED
      BY <3>1, <3>2, <3>3
  <2> HIDE DEF new
  <2>3. CASE ~cmd.restart
    <3>1. pc' = [pc EXCEPT !["read"] = "renamed"] /\ UNCHANGED upd
      BY <1>9, <2>3 DEF RenameCopied, Move
    <3>2. RenamingSlot(before, new, cmd.ke, "renamed")
      BY <1>5, <2>2, <2>3, ThreadsAssumption DEF RenamingSlot, Renames, RenameEntity
    <3> QED
      BY <1>6, <2>1, <3>1, <3>2
  <2>4. CASE cmd.restart
    <3> DEFINE call == [e |-> cmd.e, s |-> ON, ok |-> TRUE, ret |-> "renamed"]
    <3>1. pc' = [pc EXCEPT !["read"] = "check"] /\ upd' = [upd EXCEPT !["read"] = call]
      BY <1>9, <2>4 DEF RenameCopied, Call, Move
    <3>2. pc'["read"] = "check" /\ upd'["read"] = call /\ slots'[cmd.e] = new
      BY <1>3, <2>1, <3>1, InvParts, MoveType DEF TInv, TypeInv, Thread
    <3>3. call.s = ON /\ call.ret = "renamed"
      OBVIOUS
    <3> HIDE DEF call
    <3>4. UNCHANGED <<el_idx, rest, list, reply>>
      BY <2>1 DEF RenameRest, history
    <3>5. Renaming' /\ ~Setting' /\ "check" \in Update
      BY <3>2, <3>3 DEF Renaming, Setting, Update
    <3>6. Updating(StoredStopped(before, cmd.ke), new, ON, "check")
      BY <2>2 DEF Updating
    <3>7. RenamingInv'
      BY <1>5, <2>1, <3>2, <3>3, <3>4, <3>5, <3>6 DEF RenamingInv, before
    <3>8. SettingInv'
      BY <3>5 DEF SettingInv
    <3> QED
      BY <1>2, <1>3, <2>1, <3>1, <3>4, <3>5, <3>7, <3>8, WorkR, Stutter
  <2> QED
    BY <2>3, <2>4
<1> QED
  BY <1>7, <1>8, <1>9, <1>10

\* A step of the entity list, which reads a table at rest.
LEMMA ListR ==
  ASSUME TInv, RInv, el_idx = 3, pc["read"] \in {"idle", "entry"}, IsDeclared(rest.slots[0]),
         fault = "none", NEW to \in {"idle", "entry"}, pc' = [pc EXCEPT !["read"] = to],
         UNCHANGED <<slots, el_idx, upd, cmd, rx_id, rest, fault>>, ListInv'
  PROVE  RInv'
<1>1. pc'["read"] = to
  BY MoveType DEF TInv, Thread
<1>2. ~Setting' /\ ~Renaming'
  BY <1>1 DEF Setting, Renaming, Update
<1>3. RestInv'
  BY AtRest DEF RInv, RestInv
<1>4. QueryInv'
  BY <1>1, AtRest DEF QueryInv
<1> QED
  BY <1>2, <1>3, <1>4 DEF RInv, SetUpInv, SettingInv, RenamingInv

LEMMA RestIsSized ==
  ASSUME TInv, RInv, el_idx = 3
  PROVE  Sized(rest.slots, 3) /\ \A e \in Eid : rest.slots[e].ke_suffix \in KeyExprs
<1>1. \A e \in Eid : rest.slots[e] \in Slots /\ Agrees(rest.slots[e])
  BY RestSound
<1> QED
  BY <1>1, Sizes DEF Sized, Slots, Agrees

LEMMA ListStartR ==
  ASSUME TInv, RInv, Settled, ListStart
  PROVE  RInv' /\ UNCHANGED Node!vars
<1>1. /\ Dispatch /\ pc' = [pc EXCEPT !["read"] = "entry"] /\ list' = NoList
      /\ UNCHANGED <<slots, el_idx, upd, cmd, rx_id, rest, reply, fault>>
  BY DEF ListStart, Move, ListRest, shared, history
<1>2. el_idx = 3 /\ pc["read"] = "idle" /\ fault = "none" /\ IsDeclared(slots[0])
  BY <1>1, DispatchT DEF Dispatch
<1>3. ListIdx(rest.slots, 3)[0] = 0
  BY <1>2, RestIsSized, ListIdxGrows
<1>4. ListInv'
  BY <1>1, <1>3 DEF ListInv, NoList
<1> QED
  BY <1>1, <1>2, <1>4, AtRest, ListR, Stutter

-----------------------------------------------------------------------------
(* Steps that complete a command of ZdcNode.                                *)

\* Nothing is left in ZdcNode's send buffer between two queries.
LEMMA NodeFinishes ==
  ASSUME NEW m, Node!Reply(m)
  PROVE  Node!Finish(m)
<1>1. Node!Waiting(m) = m
  BY DEF Node!Waiting
<1> QED
  BY <1>1 DEF Node!Finish

\* The query the read task is busy with was one ZdcNode may receive.
LEMMA NodeReceives ==
  ASSUME el_idx = 3, fault = "none", IsDeclared(rest.slots[0])
  PROVE  Node!Receiving
<1>1. Node!IsDeclared(rest.slots[0])
  BY DEF Node!IsDeclared, IsDeclared
<1>2. (IF el_idx = 0 THEN "boot" ELSE "up") = "up"
      /\ (IF fault = "publisher" THEN "none" ELSE fault) = "none"
  OBVIOUS
<1> QED
  BY <1>1, <1>2 DEF Node!Receiving, Node!Listening

LEMMA NodeHandles ==
  ASSUME \/ Node!ListEntities \/ Node!Unexecuted
         \/ \E id \in EntityIds :
              \/ \E s \in {OFF, ON} : Node!SetEntityState(id, s)
              \/ \E ke \in KeyExprs : Node!SetEntityKeyexpr(id, ke)
              \/ Node!SetEntityConfig(id)
  PROVE  Node!Next
  BY DEF Node!Next, Node!zdc_cmd_handler

LEMMA ListOneR ==
  ASSUME TInv, RInv, Settled, ListOne
  PROVE  RInv' /\ (Node!Next \/ UNCHANGED Node!vars)
<1> DEFINE n   == Len(list.entries)
           ent == slots[n]
           idx == ListIdx(rest.slots, 3)
           end == list.tmp_idx + 3 + ent.ke_size
<1>1. n < 3 /\ pc["read"] = "entry" /\ fault = "none"
  BY Sizes DEF ListOne, Move
<1>2. el_idx = 3 /\ n \in 0 .. 2 /\ n \in Eid
  <2>1. el_idx = 3
    BY <1>1, ReadRuns
  <2>2. n \in 0 .. 3
    BY InvParts
  <2>3. n \in 0 .. 2
    BY <1>1, <2>2
  <2> QED
    BY <2>1, <2>3, Sizes
<1>3. slots = rest.slots /\ IsDeclared(rest.slots[0])
  BY <1>1, <1>2, AtRest DEF RInv, QueryInv
<1>4. list \in Lists /\ list.tmp_idx = idx[n]
      /\ \A k \in 1 .. n : list.entries[k] = Node!ListEntry(rest.slots[k - 1])
  BY <1>1, InvParts DEF RInv, ListInv
<1>5. Sized(rest.slots, 3) /\ \A e \in Eid : rest.slots[e].ke_suffix \in KeyExprs
  BY <1>2, RestIsSized
<1>6. ent.ke_suffix # Wild
  BY <1>2, <1>3, <1>5, KeyExprAssumption
<1>7. end = idx[n + 1] /\ n + 1 \in 0 .. 3
  <2> HIDE DEF n
  <2>1. n \in 0 .. 3 - 1 /\ n + 1 \in 0 .. 3
    BY <1>2
  <2>2. idx[n + 1] = idx[n] + 3 + rest.slots[n].ke_size
    BY <1>5, <2>1, ListIdxGrows
  <2> QED
    BY <1>3, <1>4, <2>1, <2>2
<1>8. CASE end > Node!ListBuffer
  <2>1. idx[n + 1] <= idx[3] /\ idx[n + 1] \in Nat /\ idx[3] \in Nat
    <3> HIDE DEF n
    <3> QED
      BY <1>5, <1>7, ListIdxGrows, ListIdxMonotonic
  <2>2. Node!ListSize > Node!ListBuffer
    <3>1. idx[n + 1] > 192
      BY <1>7, <1>8, Sizes
    <3> HIDE DEF idx, end
    <3>2. idx[3] > 192
      BY <2>1, <3>1
    <3> QED
      BY <3>2, SameListIdx, Sizes DEF idx
  <2>3. ~(end <= Node!ListBuffer)
    <3>1. end \in Nat
      BY <1>7, <2>1
    <3> HIDE DEF end
    <3> QED
      BY <1>8, <3>1, Sizes
  <2> HIDE DEF end, ent
  <2>4. Undefined("overrun")
    BY <1>6, <2>3 DEF ListOne, end, ent
  <2>5. /\ fault' = "overrun" /\ reply' = NoMsg
        /\ UNCHANGED <<slots, el_idx, pc, upd, cmd, list, rx_id, rest>>
    BY <2>4 DEF Undefined, shared, history
  <2>6. RInv'
    BY <1>2, <2>5, SameR
  <2>7. ~Node!ReadsUnwritten
    BY <1>5, KeyExprAssumption, Sizes DEF Node!ReadsUnwritten
  <2>8. Node!Undefined("overrun")
    BY <2>5 DEF Node!Undefined
  <2>9. Node!ListEntities
    BY <1>1, <1>2, <1>3, <2>2, <2>5, <2>7, <2>8, NodeReceives DEF Node!ListEntities
  <2> QED
    BY <2>6, <2>9, NodeHandles
<1>9. CASE ~(end > Node!ListBuffer)
  <2>1. /\ pc' = [pc EXCEPT !["read"] = "entry"]
        /\ list' = [entries |-> Append(list.entries, Node!ListEntry(ent)), tmp_idx |-> end]
        /\ UNCHANGED <<slots, el_idx, upd, cmd, rx_id, rest, reply, fault>>
    BY <1>6, <1>9 DEF ListOne, Move, ListRest, shared, history
  <2>2. list.entries \in Seq(Entry) /\ n \in Nat
    BY <1>4 DEF Lists
  <2>3. Len(list'.entries) = n + 1 /\ list'.entries[n + 1] = Node!ListEntry(rest.slots[n])
        /\ \A k \in 1 .. n : list'.entries[k] = list.entries[k]
    <3> DEFINE new == Node!ListEntry(ent)
    <3>1. list'.entries = Append(list.entries, new)
      BY <2>1
    <3>2. new = Node!ListEntry(rest.slots[n])
      BY <1>3
    <3> HIDE DEF new
    <3>3. /\ Len(Append(list.entries, new)) = n + 1
          /\ Append(list.entries, new)[n + 1] = new
          /\ \A k \in 1 .. n : Append(list.entries, new)[k] = list.entries[k]
      BY <2>2
    <3> QED
      BY <3>1, <3>2, <3>3
  <2>4. list'.tmp_idx = idx[n + 1]
    BY <1>7, <2>1
  <2>5. ListInv'
    <3> HIDE DEF n, idx
    <3>1. ASSUME NEW k \in 1 .. n + 1
          PROVE  list'.entries[k] = Node!ListEntry(rest.slots[k - 1])
      <4>1. k \in 1 .. n \/ k = n + 1
        BY <2>2, <3>1
      <4> QED
        BY <1>4, <2>2, <2>3, <4>1
    <3>2. \A e : Node!ListEntry(e)' = Node!ListEntry(e)
      OBVIOUS
    <3> QED
      BY <2>1, <2>3, <2>4, <3>1 DEF ListInv, idx
  <2>6. RInv'
    BY <1>1, <1>2, <1>3, <2>1, <2>5, ListR
  <2> QED
    BY <2>1, <2>6, Stutter
<1> QED
  BY <1>8, <1>9

\* A command that leaves the table alone: the invariant.
LEMMA AnswerR ==
  ASSUME TInv, RInv, el_idx = 3, pc["read"] = "idle", NEW r \in Uint16, rx_id' = r,
         rest' = [rest EXCEPT !.rx_id = r],
         UNCHANGED <<slots, el_idx, fault>>, pc'["read"] = "idle"
  PROVE  RInv' /\ rest'.slots = rest.slots /\ rest'.rx_id = r
<1>1. ~Setting' /\ ~Renaming'
  BY DEF Setting, Renaming, Update
<1>2. rest \in [slots : [Eid -> Slots], rx_id : Uint16]
  BY DEF RInv, RestInv
<1>3. /\ rest' \in [slots : [Eid -> Slots], rx_id : Uint16]
      /\ rest'.slots = rest.slots /\ rest'.rx_id = r
  BY <1>2
<1>4. RestInv'
  BY <1>3, AtRest DEF RInv, RestInv
<1>5. QueryInv'
  BY <1>1, <1>3 DEF RInv, QueryInv
<1> QED
  BY <1>1, <1>3, <1>4, <1>5 DEF RInv, SetUpInv, SettingInv, RenamingInv, ListInv

LEMMA RejectedR ==
  ASSUME TInv, RInv, Settled, Rejected
  PROVE  RInv' /\ Node!Next
<1>1. /\ Dispatch /\ pc' = [pc EXCEPT !["read"] = "idle"] /\ Node!Reply(NoMsg)
      /\ UNCHANGED <<slots, el_idx, rx_id, rest, fault>>
  BY DEF Rejected, Finish, Move, shared, history
<1>2. el_idx = 3 /\ pc["read"] = "idle" /\ fault = "none" /\ IsDeclared(slots[0])
  BY <1>1, DispatchT DEF Dispatch
<1>3. slots = rest.slots /\ rx_id = rest.rx_id /\ pc'["read"] = "idle"
  BY <1>1, <1>2, AtRest, MoveType DEF TInv, Thread
<1>4. rest' = [rest EXCEPT !.rx_id = rx_id] /\ rx_id \in Uint16
  BY <1>1, <1>3 DEF RInv, RestInv
<1>5. RInv'
  BY <1>1, <1>2, <1>3, <1>4, AnswerR
<1>6. Node!Unexecuted
  BY <1>1, <1>2, <1>3, NodeReceives, NodeFinishes DEF Node!Unexecuted, Node!AnswerOnly
<1> QED
  BY <1>5, <1>6, NodeHandles

\* An id no command works on is answered at once.
LEMMA AnswerAtOnceR ==
  ASSUME TInv, RInv, Settled, Dispatch, NEW id \in EntityIds, NEW m,
         AnswerAtOnce(CopyUint16(rx_id, id), m)
  PROVE  /\ RInv' /\ Node!Receiving /\ Node!GetData(id)
         /\ Node!ReceivedId(id) = CopyUint16(rx_id, id)
         /\ Node!Finish(m) /\ rest'.slots = rest.slots /\ UNCHANGED <<el_idx, fault>>
<1> DEFINE e == CopyUint16(rx_id, id)
<1>1. /\ Node!Finish(m) /\ rx_id' = e /\ rest' = [rest EXCEPT !.rx_id = e]
      /\ UNCHANGED <<slots, el_idx, pc, fault>>
  BY NodeFinishes DEF AnswerAtOnce, shared
<1>2. el_idx = 3 /\ pc["read"] = "idle" /\ fault = "none" /\ IsDeclared(slots[0])
  BY DispatchT DEF Dispatch
<1>3. slots = rest.slots /\ rx_id = rest.rx_id
  BY <1>2, AtRest
<1>4. e \in Uint16
  BY IdType, InvParts, ThreadsAssumption
<1>5. Node!ReceivedId(id) = e
  BY <1>3, SameIds DEF Node!ReceivedId
<1> HIDE DEF e
<1>6. RInv' /\ rest'.slots = rest.slots /\ rest'.rx_id = e
  BY <1>1, <1>2, <1>4, AnswerR
<1>7. Node!GetData(id)
  BY <1>5, <1>6 DEF Node!GetData
<1> QED
  BY <1>1, <1>2, <1>3, <1>5, <1>6, <1>7, NodeReceives DEF e

LEMMA SetStateR ==
  ASSUME TInv, RInv, Settled, NEW id \in EntityIds, NEW s \in {OFF, ON}, SetState(id, s)
  PROVE  RInv' /\ (Node!Next \/ UNCHANGED Node!vars)
<1> DEFINE e == CopyUint16(rx_id, id)
<1>1. CASE ~\E m : AnswerAtOnce(e, m)
  BY <1>1, SetStateStartR
<1>2. CASE \E m : AnswerAtOnce(e, m)
  <2>1. Dispatch /\ pc["read"] = "idle"
    BY DEF SetState, Dispatch
  <2>2. UNCHANGED pc
    BY <1>2 DEF AnswerAtOnce
  <2>3. PICK m : /\ AnswerAtOnce(e, m)
                 /\ \/ e >= ElSize /\ m = NoMsg
                    \/ e = 0 /\ m = Node!SendStatus(STATUS_ERR)
    <3>1. CASE e >= ElSize /\ AnswerAtOnce(e, NoMsg)
      BY <3>1
    <3>2. CASE e = 0 /\ AnswerAtOnce(e, Node!SendStatus(STATUS_ERR))
      BY <3>2
    <3>3. CASE Call("read", "idle", e, s, "set")
      <4>1. pc'["read"] = "check"
        BY <3>3, MoveType DEF Call, Move, TInv, Thread
      <4> QED
        BY <2>1, <2>2, <4>1
    <3> QED
      BY <3>1, <3>2, <3>3 DEF SetState
  <2>4. /\ RInv' /\ Node!Receiving /\ Node!GetData(id) /\ Node!ReceivedId(id) = e
        /\ Node!Finish(m) /\ rest'.slots = rest.slots /\ UNCHANGED <<el_idx, fault>>
    BY <2>1, <2>3, AnswerAtOnceR
  <2> HIDE DEF e
  <2>5. Node!SetEntityState(id, s)
    <3>1. CASE e >= ElSize /\ m = NoMsg
      BY <2>4, <3>1, Sizes DEF Node!SetEntityState, Node!AnswerOnly
    <3>2. CASE e = 0 /\ m = Node!SendStatus(STATUS_ERR)
      <4>1. Node!STATUS_ERR = STATUS_ERR
        BY DEF Node!STATUS_ERR, STATUS_ERR
      <4> QED
        BY <2>4, <3>2, <4>1 DEF Node!SetEntityState, Node!AnswerOnly
    <3> QED
      BY <2>3, <3>1, <3>2
  <2> QED
    BY <2>4, <2>5, NodeHandles
<1> QED
  BY <1>1, <1>2

LEMMA SetConfigR ==
  ASSUME TInv, RInv, Settled, NEW id \in EntityIds, SetConfig(id)
  PROVE  RInv' /\ Node!Next
<1> DEFINE e == CopyUint16(rx_id, id)
           m == IF e < ElSize THEN Node!SendStatus(STATUS_OK) ELSE NoMsg
<1>1. Dispatch /\ AnswerAtOnce(e, m)
  BY DEF SetConfig
<1>2. /\ RInv' /\ Node!Receiving /\ Node!GetData(id) /\ Node!ReceivedId(id) = e
      /\ Node!Finish(m) /\ rest'.slots = rest.slots /\ UNCHANGED <<el_idx, fault>>
  BY <1>1, AnswerAtOnceR
<1>3. e \in Uint16 /\ ElSize \in Int
  BY IdType, InvParts, ThreadsAssumption, Sizes
<1>4. e < ElSize \/ e >= ElSize
  <2> HIDE DEF e
  <2>1. UINT16_MAX \in Int
    BY DEF UINT16_MAX
  <2> QED
    BY <1>3, <2>1 DEF Uint16
<1>5. Node!STATUS_OK = STATUS_OK
  BY DEF Node!STATUS_OK, STATUS_OK
<1> HIDE DEF e
<1>6. Node!SetEntityConfig(id)
  <2>1. CASE e < ElSize
    BY <1>2, <1>5, <2>1, Sizes DEF Node!SetEntityConfig, Node!AnswerOnly
  <2>2. CASE ~(e < ElSize)
    BY <1>2, <1>4, <2>2, Sizes DEF Node!SetEntityConfig, Node!AnswerOnly
  <2> QED
    BY <2>1, <2>2
<1> QED
  BY <1>2, <1>6, NodeHandles

LEMMA SetKeyexprR ==
  ASSUME TInv, RInv, Settled, NEW id \in EntityIds, NEW ke \in KeyExprs, SetKeyexpr(id, ke)
  PROVE  RInv' /\ (Node!Next \/ UNCHANGED Node!vars)
<1> DEFINE e == CopyUint16(rx_id, id)
<1>1. CASE ~\E m : AnswerAtOnce(e, m)
  BY <1>1, SetKeyexprStartR
<1>2. CASE \E m : AnswerAtOnce(e, m)
  <2>1. Dispatch /\ pc["read"] = "idle"
    BY DEF SetKeyexpr, Dispatch
  <2>2. UNCHANGED pc
    BY <1>2 DEF AnswerAtOnce
  <2>3. e >= ElSize /\ AnswerAtOnce(e, NoMsg)
    <3>1. pc'["read"] = "idle"
      BY <2>1, <2>2
    <3>2. CASE Call("read", "idle", e, OFF, "grow") \/ Move("read", "idle", "grow")
      <4>1. pc'["read"] \in {"check", "grow"}
        BY <3>2, MoveType DEF Call, Move, TInv, Thread
      <4> QED
        BY <3>1, <4>1
    <3> QED
      BY <3>2 DEF SetKeyexpr
  <2>4. /\ RInv' /\ Node!Receiving /\ Node!GetData(id) /\ Node!ReceivedId(id) = e
        /\ Node!Finish(NoMsg) /\ rest'.slots = rest.slots /\ UNCHANGED <<el_idx, fault>>
    BY <2>1, <2>3, AnswerAtOnceR
  <2> HIDE DEF e
  <2>5. Node!SetEntityKeyexpr(id, ke)
    BY <2>3, <2>4, Sizes DEF Node!SetEntityKeyexpr, Node!AnswerOnly
  <2> QED
    BY <2>4, <2>5, NodeHandles
<1> QED
  BY <1>1, <1>2

\* A command that has worked on slot e makes it good with its answer.
LEMMA CompleteR ==
  ASSUME TInv, RInv, el_idx = 3, pc["read"] \notin {"idle", "entry"}, fault = "none",
         NEW e \in Eid, \A o \in Eid : AtWork(o) => o = e, Sound(slots[e]), Complete(e),
         pc' = [pc EXCEPT !["read"] = "idle"], UNCHANGED <<slots, el_idx, rx_id, fault>>
  PROVE  /\ RInv'
         /\ rest'.slots = [rest.slots EXCEPT ![e] = slots[e]] /\ rest'.rx_id = rx_id
         /\ Node!Receiving
<1>1. pc'["read"] = "idle"
  BY MoveType DEF TInv, Thread
<1>2. ~Setting' /\ ~Renaming'
  BY <1>1 DEF Setting, Renaming, Update
<1>3. /\ slots \in [Eid -> Slots] /\ rest.slots \in [Eid -> Slots] /\ rx_id \in Uint16
  BY DEF RInv, RestInv, TInv, TypeInv
<1>4. rest'.slots = [rest.slots EXCEPT ![e] = slots[e]] /\ rest'.rx_id = rx_id
      /\ rest' \in [slots : [Eid -> Slots], rx_id : Uint16]
  BY <1>3 DEF Complete
<1>5. rest'.slots[e] = slots[e] /\ \A o \in Eid \ {e} : rest'.slots[o] = rest.slots[o]
  BY <1>3, <1>4
<1>6. \A o \in Eid : slots[o] = rest'.slots[o]
  BY <1>5 DEF RInv, RestInv
<1>7. \A o \in Eid : o < 3
  BY Sizes
<1>8. RestInv'
  BY <1>4, <1>5, <1>6, <1>7 DEF RInv, RestInv
<1>9. QueryInv'
  BY <1>1, <1>2, <1>4 DEF RInv, QueryInv
<1>10. RInv'
  BY <1>1, <1>2, <1>8, <1>9 DEF RInv, SetUpInv, SettingInv, RenamingInv, ListInv
<1>11. Node!Receiving
  BY NodeReceives DEF RInv, QueryInv
<1> QED
  BY <1>4, <1>10, <1>11

LEMMA SetStateDoneR ==
  ASSUME TInv, RInv, Settled, SetStateDone
  PROVE  RInv' /\ Node!Next
<1> DEFINE e      == upd["read"].e
           s      == upd["read"].s
           before == rest.slots[e]
<1>1. /\ pc["read"] = "set" /\ pc' = [pc EXCEPT !["read"] = "idle"] /\ fault = "none"
      /\ Node!Reply(Node!SendStatus(IF upd["read"].ok THEN STATUS_OK ELSE STATUS_ERR))
      /\ Complete(e) /\ UNCHANGED <<slots, el_idx, rx_id, fault>>
  BY DEF SetStateDone, Finish, Move, shared
<1>2. el_idx = 3 /\ Setting /\ ~Renaming
  BY <1>1, ReadRuns DEF Setting, Renaming, Update
<1>3. e \in Eid /\ s \in {OFF, ON}
  BY InvParts DEF Thread, Calls
<1>4. PICK id \in EntityIds : rx_id = CopyUint16(rest.rx_id, id) /\ rx_id = e
  BY <1>2 DEF RInv, SettingInv
<1>5. PICK declared \in DeclareResults :
        slots[e] = UpdateEntityState(before, s, declared) /\ upd["read"].ok /\ e # 0
  BY <1>1, <1>2 DEF RInv, SettingInv, Updating, Updates
<1>6. before \in Slots /\ Agrees(before)
  BY <1>2, <1>3, RestSound
<1>7. Sound(slots[e]) /\ UpdateOrphans(before, s) = {} /\ ~UpdateIsUndefined(before, s)
      /\ UpdateReturns(before, s)
  BY <1>3, <1>5, <1>6, UpdateAgrees, SwitchableDefined DEF UpdateReturns, Agrees
<1>8. \A o \in Eid : AtWork(o) => o = e
  BY <1>2, Sizes DEF AtWork
<1> HIDE DEF e, s
<1>9. /\ RInv' /\ Node!Receiving
      /\ rest'.slots = [rest.slots EXCEPT ![e] = slots[e]] /\ rest'.rx_id = rx_id
  BY <1>1, <1>2, <1>3, <1>7, <1>8, CompleteR
<1>10. Node!ReceivedId(id) = e
  BY <1>4, SameIds DEF Node!ReceivedId
<1>11. Node!GetData(id)
  BY <1>4, <1>9, <1>10 DEF Node!GetData
<1>12. /\ slots[e] = Node!UpdateEntityState(before, s, declared)
       /\ Node!UpdateOrphans(before, s) = {} /\ ~Node!UpdateIsUndefined(before, s)
       /\ Node!UpdateReturns(before, s)
  BY <1>5, <1>7, SameUpdate
<1>13. {} = {} \cup {<<e, ke>> : ke \in {}}
  OBVIOUS
<1>14. Node!Finish(Node!SendStatus(Node!STATUS_OK))
  BY <1>1, <1>5, NodeFinishes DEF Node!STATUS_OK, STATUS_OK
<1>15. Node!SetState(e, s)
  BY <1>1, <1>9, <1>12, <1>13, <1>14 DEF Node!SetState, Node!SetEntity
<1>16. e \in 1 .. EntityNb
  BY <1>3, <1>5, Sizes
<1>17. Node!SetEntityState(id, s)
  BY <1>9, <1>10, <1>11, <1>15, <1>16 DEF Node!SetEntityState
<1> QED
  BY <1>3, <1>9, <1>17, NodeHandles

LEMMA RenameDoneR ==
  ASSUME TInv, RInv, Settled, RenameDone
  PROVE  RInv' /\ Node!Next
<1> DEFINE e      == cmd.e
           ke     == cmd.ke
           before == rest.slots[e]
<1>1. /\ pc["read"] = "renamed" /\ pc' = [pc EXCEPT !["read"] = "idle"] /\ fault = "none"
      /\ Node!Reply(Node!SendStatus(STATUS_OK))
      /\ Complete(e) /\ UNCHANGED <<slots, el_idx, rx_id, fault>>
  BY DEF RenameDone, Finish, Move, shared
<1>2. el_idx = 3 /\ Renaming /\ ~Setting /\ pc["read"] \notin Update
  BY <1>1, ReadRuns DEF Setting, Renaming, Update
<1>3. e \in Eid /\ ke \in KeyExprs
  BY <1>2, InvParts DEF Commands, ReadInv
<1>4. PICK id \in EntityIds : rx_id = CopyUint16(rest.rx_id, id) /\ rx_id = e
  BY <1>2 DEF RInv, RenamingInv
<1>5. PICK declared \in DeclareResults : slots[e] = RenameEntity(before, ke, declared)
  BY <1>1, <1>2 DEF RInv, RenamingInv, RenamingSlot, Renames
<1>6. before \in Slots /\ Sound(before)
  BY <1>2, <1>3, RestSound
<1>7. Sound(slots[e]) /\ RenameOrphans(before, ke) = {} /\ ~RenameIsUndefined(before, ke)
  BY <1>3, <1>5, <1>6, RenameAgrees
<1>8. \A o \in Eid : AtWork(o) => o = e
  BY <1>2, Sizes DEF AtWork
<1> HIDE DEF e, ke
<1>9. /\ RInv' /\ Node!Receiving
      /\ rest'.slots = [rest.slots EXCEPT ![e] = slots[e]] /\ rest'.rx_id = rx_id
  BY <1>1, <1>2, <1>3, <1>7, <1>8, CompleteR
<1>10. Node!ReceivedId(id) = e
  BY <1>4, SameIds DEF Node!ReceivedId
<1>11. Node!GetData(id)
  BY <1>4, <1>9, <1>10 DEF Node!GetData
<1>12. /\ slots[e] = Node!RenameEntity(before, ke, declared)
       /\ Node!RenameOrphans(before, ke) = {} /\ ~Node!RenameIsUndefined(before, ke)
  BY <1>5, <1>7, SameRename
<1>13. {} = {} \cup {<<e, k>> : k \in {}}
  OBVIOUS
<1>14. Node!Finish(Node!SendStatus(Node!STATUS_OK))
  BY <1>1, NodeFinishes DEF Node!STATUS_OK, STATUS_OK
<1>15. Node!Rename(e, ke)
  BY <1>1, <1>9, <1>12, <1>13, <1>14 DEF Node!Rename, Node!SetEntity
<1>16. e < Node!ElSize
  BY <1>3, Sizes
<1>17. Node!SetEntityKeyexpr(id, ke)
  BY <1>9, <1>10, <1>11, <1>15, <1>16 DEF Node!SetEntityKeyexpr
<1> QED
  BY <1>3, <1>9, <1>17, NodeHandles

LEMMA ListDoneR ==
  ASSUME TInv, RInv, Settled, ListDone
  PROVE  RInv' /\ Node!Next
<1> DEFINE entries == [e \in Eid |-> list.entries[e + 1]]
<1>1. /\ Len(list.entries) = 3 /\ fault = "none"
      /\ pc["read"] = "entry" /\ pc' = [pc EXCEPT !["read"] = "idle"]
      /\ Node!Reply(Node!SendCommand([cmd |-> "LIST_ENTITIES_RESP", entities |-> entries],
                                     ListOverhead + list.tmp_idx))
      /\ UNCHANGED <<slots, el_idx, upd, cmd, rx_id, rest, fault>>
  BY Sizes DEF ListDone, Move, ListRest, shared, history
<1>2. el_idx = 3
  BY <1>1, ReadRuns
<1>3. IsDeclared(rest.slots[0])
  BY <1>1 DEF RInv, QueryInv
<1>4. /\ \A k \in 1 .. 3 : list.entries[k] = Node!ListEntry(rest.slots[k - 1])
      /\ list.tmp_idx = ListIdx(rest.slots, 3)[3]
  BY <1>1 DEF RInv, ListInv
<1>5. list.tmp_idx = Node!ListSize /\ list.tmp_idx \in 0 .. 192
  BY <1>4, SameListIdx, InvParts DEF Lists
<1>6. entries = [e \in Node!Eid |-> Node!ListEntry(rest.slots[e])]
  <2>2. ASSUME NEW e \in Eid PROVE list.entries[e + 1] = Node!ListEntry(rest.slots[e])
    <3>1. PICK k \in 1 .. 3 : k = e + 1 /\ k - 1 = e
      BY Sizes
    <3>2. list.entries[k] = Node!ListEntry(rest.slots[k - 1])
      BY <1>4
    <3> QED
      BY <3>1, <3>2
  <2> QED
    BY <2>2, Sizes
<1> HIDE DEF entries
<1>7. Node!Finish(Node!SendCommand(Node!ListResp, ListOverhead + Node!ListSize))
  BY <1>1, <1>5, <1>6, NodeFinishes DEF Node!ListResp
<1>8. ~Node!ReadsUnwritten
  BY <1>2, RestIsSized, KeyExprAssumption, Sizes DEF Node!ReadsUnwritten
<1>9. Node!ListSize <= Node!ListBuffer
  BY <1>5, Sizes
<1>10. Node!AnswerOnly(Node!SendCommand(Node!ListResp, ListOverhead + Node!ListSize))
  BY <1>1, <1>7 DEF Node!AnswerOnly
<1>11. Node!ListEntities
  BY <1>1, <1>2, <1>3, <1>8, <1>9, <1>10, NodeReceives DEF Node!ListEntities
<1>12. ListInv'
  BY <1>1, MoveType DEF ListInv, TInv, Thread
<1>13. RInv'
  BY <1>1, <1>2, <1>3, <1>12, ListR
<1> QED
  BY <1>11, <1>13, NodeHandles

-----------------------------------------------------------------------------
(* The refinement.                                                          *)

LEMMA InitN == Init => Node!Init
<1> SUFFICES ASSUME Init PROVE Node!Init
  OBVIOUS
<1>1. Node!MallocedSlots = MallocedSlots
  BY DEF Node!MallocedSlots, MallocedSlots, Node!ZeroSlot, ZeroSlot, Node!WildSlots, WildSlots,
         Node!Types, Types, Node!BadType, BadType, Node!OFF, OFF, Node!ON, ON,
         Node!INVALID, INVALID
<1>2. rest.slots \in [Eid -> MallocedSlots] /\ rest.rx_id = 0
  BY ThreadsAssumption DEF Init
<1> QED
  BY <1>1, <1>2, Sizes DEF Init, Node!Init

LEMMA StepR ==
  ASSUME TInv, RInv, Settled, [Next]_vars
  PROVE  RInv' /\ (Node!Next \/ UNCHANGED Node!vars)
<1>1. CASE MainThread
  BY <1>1, MainInitR, AddR, AddedR, AddedStep, PublishR, MainUpdateR DEF MainThread, AddEntities
<1>2. CASE Receive
  BY <1>2, RejectedR, ListStartR, SetStateR, SetKeyexprR, SetConfigR DEF Receive
<1>3. CASE Execute
  BY <1>3, ReadUpdateR, SetStateDoneR, RenamingR, RenameDoneR, ListOneR, ListDoneR DEF Execute
<1>4. CASE UNCHANGED vars
  <2>1. UNCHANGED <<slots, el_idx, pc, upd, cmd, list, rx_id, reply, fault, rest>>
    BY <1>4 DEF vars
  <2>2. RInv'
    BY <2>1
    DEF RInv, RestInv, SetUpInv, SettingInv, RenamingInv, ListInv, QueryInv, AtWork,
        Setting, Renaming, SettingUp, NewSlot
  <2> QED
    BY <2>1, <2>2, Stutter
<1> QED
  BY <1>1, <1>2, <1>3, <1>4 DEF Next

\* With the set-up done before the first query, node B's two threads carry
\* out, statement by statement, the operations of ZdcNode: what a command
\* does to its slot on the way is made good before its answer leaves, no
\* set-up is seen half done, no pointer or handle is used before it is
\* written, and the entity list is the table of one moment.
THEOREM ThreadsImplementNode ==
  ASSUME Settled PROVE Spec => ImplementsNode
<1>1. Init => RInv
  BY InitR
<1>2. TInv /\ RInv /\ [Next]_vars => RInv' /\ [Node!Next]_(Node!vars)
  BY StepR
<1> QED
  BY <1>1, <1>2, InitN, ThreadsInvariance, PTL DEF Spec, ImplementsNode, Node!Spec

\* Whatever zenoh refused, and wherever the statements of the publisher fell:
\* between commands a subscriber or queryable that is not on is declared
\* nowhere, and a declared one on its current key expression.
THEOREM OffIsOffBetweenCommands ==
  ASSUME Settled PROVE Spec => []OffMeansUndeclared
<1>1. Init => RInv
  BY InitR
<1>2. TInv /\ RInv /\ [Next]_vars => RInv'
  BY StepR
<1>3. ASSUME TInv, RInv PROVE OffMeansUndeclared
  <2> SUFFICES ASSUME pc["read"] = "idle", el_idx = ElSize,
                      NEW e \in Eid, slots[e].type \in Declarable, IsDeclared(slots[e])
               PROVE  slots[e].state = ON /\ slots[e].data = slots[e].ke_suffix
    BY DEF OffMeansUndeclared
  <2>1. slots = rest.slots
    BY <1>3, AtRest, Sizes
  <2>2. Sound(slots[e])
    BY <1>3, <2>1, Sizes DEF RInv, RestInv
  <2> QED
    BY <2>2, KeyExprAssumption DEF Sound, Agrees, IsDeclared
<1> QED
  BY <1>1, <1>2, <1>3, ThreadsInvariance, PTL DEF Spec

-----------------------------------------------------------------------------
(* What remains undefined.                                                  *)

\* Headers and strings of at most 61 bytes never add up to the buffer.
RoomInv == fault = "overrun" => \E e \in Eid : rest.slots[e].ke_size > 61 /\ ~AtWork(e)

LEMMA ListOneRoom ==
  ASSUME TInv, RInv, Settled, ListOne
  PROVE  RoomInv'
<1> DEFINE n   == Len(list.entries)
           ent == slots[n]
           idx == ListIdx(rest.slots, 3)
           end == list.tmp_idx + 3 + ent.ke_size
<1>1. n < 3 /\ pc["read"] = "entry" /\ fault = "none"
  BY Sizes DEF ListOne, Move
<1>2. el_idx = 3 /\ n \in 0 .. 2 /\ n \in Eid
  <2>1. el_idx = 3
    BY <1>1, ReadRuns
  <2>2. n \in 0 .. 3
    BY InvParts
  <2>3. n \in 0 .. 2
    BY <1>1, <2>2
  <2> QED
    BY <2>1, <2>3, Sizes
<1>3. slots = rest.slots /\ list.tmp_idx = idx[n]
  BY <1>1, <1>2, AtRest DEF RInv, ListInv
<1>4. Sized(rest.slots, 3)
  BY <1>2, RestIsSized
<1>5. end = idx[n + 1] /\ n + 1 \in 0 .. 3
  <2> HIDE DEF n
  <2>1. n \in 0 .. 3 - 1 /\ n + 1 \in 0 .. 3
    BY <1>2
  <2>2. idx[n + 1] = idx[n] + 3 + rest.slots[n].ke_size
    BY <1>4, <2>1, ListIdxGrows
  <2> QED
    BY <1>3, <2>1, <2>2
<1>6. ASSUME \A i \in 0 .. 3 - 1 : rest.slots[i].ke_size <= 61
      PROVE  end <= Node!ListBuffer /\ ~(end > Node!ListBuffer)
  <2>1. idx[n + 1] \in Nat /\ idx[3] \in Nat /\ idx[n + 1] <= idx[3] /\ idx[3] <= 64 * 3
    <3> HIDE DEF n
    <3> QED
      BY <1>4, <1>5, <1>6, ListIdxGrows, ListIdxMonotonic, ListIdxBound
  <2>2. end \in Nat /\ end <= 192
    <3> HIDE DEF end, idx
    <3> QED
      BY <1>5, <2>1
  <2> HIDE DEF end
  <2> QED
    BY <2>2, Sizes
<1>7. fault' = "overrun" => ent.ke_suffix # Wild /\ end > Node!ListBuffer
  BY <1>1 DEF ListOne, Undefined, ListRest
<1>8. ASSUME fault' = "overrun"
      PROVE  \E e \in Eid : rest.slots[e].ke_size > 61
  <2> HIDE DEF end, ent, idx, n
  <2>1. PICK i \in 0 .. 3 - 1 : ~(rest.slots[i].ke_size <= 61)
    BY <1>6, <1>7, <1>8
  <2>2. i \in Eid /\ rest.slots[i].ke_size \in Nat
    BY <1>4, <2>1, Sizes DEF Sized
  <2> QED
    BY <2>1, <2>2
<1>9. UNCHANGED rest
  BY DEF ListOne, Undefined, ListRest, history
<1>10. \A e \in Eid : ~AtWork(e)'
  <2>1. pc'["read"] = "entry" /\ UNCHANGED el_idx
    BY <1>1, MoveType DEF ListOne, Undefined, ListRest, shared, Move, TInv, Thread
  <2> QED
    BY <1>2, <2>1, Sizes DEF AtWork, Setting, Renaming, Update
<1> QED
  BY <1>8, <1>9, <1>10 DEF RoomInv

\* Only the list outgrows a buffer, and nothing moves after it has.
LEMMA StepRoom ==
  ASSUME TInv, RInv, RoomInv, Settled, [Next]_vars
  PROVE  RoomInv'
<1>1. CASE ListOne
  BY <1>1, ListOneRoom
<1>2. CASE UNCHANGED vars
  BY <1>2 DEF vars, RoomInv, AtWork, Setting, Renaming
<1>3. CASE ~ListOne /\ Next
  <2>1. CASE MainThread
    BY <2>1
    DEF MainThread, MainInit, Call, Move, MainRest, AddEntities, AddType, AddState, AddSize,
        AddAlloc, AddCopy, AddWrite, Added, Publish, PubCheck, PubKeyexpr, PubPut, Undefined,
        zdc_update_entity_state, UpdateCheck, UpdateMark, UpdateSwitch, UpdateStore, RoomInv
  <2>2. CASE Receive
    BY <2>2
    DEF Receive, Dispatch, Rejected, Finish, SetState, SetKeyexpr, SetConfig, AnswerAtOnce,
        ListStart, RoomInv
  <2>3. CASE Execute
    BY <1>3, <2>3
    DEF Execute, SetStateDone, RenameGrow, RenameStore, RenameTear, RenameCopied, RenameDone,
        ListDone, Finish, Move, Call, Undefined,
        zdc_update_entity_state, UpdateCheck, UpdateMark, UpdateSwitch, UpdateStore, RoomInv
  <2> QED
    BY <1>3, <2>1, <2>2, <2>3 DEF Next
<1> QED
  BY <1>1, <1>2, <1>3

\* With the set-up done before the first query, no statement of
\* zdc_update_entity_state, of a command or of the set-up is undefined,
\* whatever zenoh refuses and in whatever order the two threads take them.
\* What is left is the publisher's pointer and a list longer than its buffer,
\* and that takes an entity with a key expression of more than 60 characters.
THEOREM NodeStaysDefined ==
  ASSUME Settled PROVE Spec => []OnlyKnownFaults
<1>1. Init => RInv /\ RoomInv
  BY InitR DEF Init, RoomInv
<1>2. TInv /\ RInv /\ RoomInv /\ [Next]_vars => RInv' /\ RoomInv'
  BY StepR, StepRoom
<1>3. RInv /\ RoomInv => OnlyKnownFaults
  BY DEF RInv, QueryInv, RestInv, RoomInv, OnlyKnownFaults, Node!EntryRoom
<1> QED
  BY <1>1, <1>2, <1>3, ThreadsInvariance, PTL DEF Spec
=============================================================================
