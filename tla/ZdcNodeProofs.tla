--------------------------- MODULE ZdcNodeProofs ---------------------------
(***************************************************************************)
(* Proofs about ZdcNode, for every number of entities, every set of key    *)
(* expressions and every buffer size.                                      *)
(***************************************************************************)
EXTENDS ZdcNode, TLAPS

-----------------------------------------------------------------------------
(* Integers of the protocol.                                                *)

LEMMA ByteOfInt == ASSUME NEW n \in Int PROVE n % 256 \in Uint8
  BY DEF Uint8

LEMMA Int8Type == ASSUME NEW v \in Uint8 PROVE Int8(v) \in Int8Values
  BY DEF Uint8, Int8, Int8Values

LEMMA CopyUint16Bounds ==
  ASSUME NEW dst \in Int, 0 <= dst, dst <= 65535,
         NEW v \in Int, 0 <= v, v <= 65535
  PROVE  /\ CopyUint16(dst, v) \in Int
         /\ 0 <= CopyUint16(dst, v) /\ CopyUint16(dst, v) <= 65535
<1>1. CASE v < 256
  <2>1. PICK high \in Int : high = dst - (dst % 256) /\ 0 <= high /\ high <= 65280
    OBVIOUS
  <2>2. high + v \in Int /\ 0 <= high + v /\ high + v <= 65535
    BY <1>1, <2>1
  <2> QED
    BY <1>1, <2>1, <2>2 DEF CopyUint16, GetVLESize
<1>2. CASE ~(v < 256)
  BY <1>2 DEF CopyUint16, GetVLESize
<1> QED BY <1>1, <1>2

LEMMA CopyUint16Type ==
  ASSUME NEW dst \in Uint16, NEW v \in Uint16
  PROVE  CopyUint16(dst, v) \in Uint16
<1>0. UINT16_MAX \in Int
  BY DEF UINT16_MAX
<1>1. UINT16_MAX = 65535
  BY DEF UINT16_MAX
<1>2. /\ dst \in Int /\ 0 <= dst /\ dst <= UINT16_MAX
      /\ v \in Int /\ 0 <= v /\ v <= UINT16_MAX
  BY <1>0 DEF Uint16
<1>3. /\ CopyUint16(dst, v) \in Int
      /\ 0 <= CopyUint16(dst, v) /\ CopyUint16(dst, v) <= UINT16_MAX
  BY <1>1, <1>2, CopyUint16Bounds
<1> QED
  BY <1>0, <1>3 DEF Uint16

-----------------------------------------------------------------------------
(* Slots.                                                                   *)

LEMMA MallocedSlotsType == MallocedSlots \subseteq Entities
  BY DEF MallocedSlots, ZeroSlot, WildSlots, Entities, Types, BadType, OFF, ON, INVALID,
         Int8Values

LEMMA NewSizeType == ASSUME NEW ke \in KeyExprs PROVE NewSize(ke) \in Nat
  BY KeyExprAssumption DEF NewSize

\* A state update writes values that fit the slot, as long as it declares
\* nothing through a pointer that was never written.
LEMMA UpdateType ==
  ASSUME NEW ent \in Entities, NEW s \in Uint8, NEW declared \in BOOLEAN,
         ~UpdateIsUndefined(ent, s)
  PROVE  UpdateEntityState(ent, s, declared) \in Entities
<1>1. Int8(s) \in Int8Values /\ INVALID \in Int8Values
  BY Int8Type DEF INVALID, Int8Values
<1>2. ASSUME MustSwitch(ent, s)
      PROVE  Switch(ent, s, declared) \in Entities
  <2>1. CASE ent.type \in Declarable /\ s = ON
    <3>1. ent.ke_suffix \in KeyExprs
      BY <1>2, <2>1 DEF UpdateIsUndefined, SwitchIsUndefined
    <3> QED
      BY <2>1, <3>1 DEF Switch, Entities
  <2>2. CASE ~(ent.type \in Declarable /\ s = ON)
    BY <2>2 DEF Switch, Entities
  <2> QED BY <2>1, <2>2
<1> QED
  BY <1>1, <1>2 DEF UpdateEntityState, Entities

LEMMA StoreType ==
  ASSUME NEW ent \in Entities, NEW ke \in KeyExprs
  PROVE  StoreKeyexpr(ent, ke) \in Entities
  BY NewSizeType DEF StoreKeyexpr, Entities

LEMMA RenameType ==
  ASSUME NEW ent \in Entities, NEW ke \in KeyExprs, NEW declared \in BOOLEAN,
         ~RenameIsUndefined(ent, ke)
  PROVE  RenameEntity(ent, ke, declared) \in Entities
<1>1. OFF \in Uint8 /\ ON \in Uint8
  BY DEF OFF, ON, Uint8
<1>2. CASE Restarts(ent)
  <2>1. UpdateEntityState(ent, OFF, TRUE) \in Entities
    BY <1>1, <1>2, UpdateType DEF RenameIsUndefined
  <2>2. StoredStopped(ent, ke) \in Entities
    BY <1>2, <2>1, StoreType DEF StoredStopped
  <2>3. UpdateEntityState(StoredStopped(ent, ke), ON, declared) \in Entities
    BY <1>1, <1>2, <2>2, UpdateType DEF RenameIsUndefined
  <2> QED
    BY <1>2, <2>3 DEF RenameEntity
<1>3. CASE ~Restarts(ent)
  BY <1>3, StoreType DEF RenameEntity, StoredStopped
<1> QED
  BY <1>2, <1>3

LEMMA UpdateOrphansType ==
  ASSUME NEW ent, NEW s
  PROVE  UpdateOrphans(ent, s) \subseteq KeyExprs
  BY DEF UpdateOrphans, IsDeclared

LEMMA RenameOrphansType ==
  ASSUME NEW ent, NEW ke
  PROVE  RenameOrphans(ent, ke) \subseteq KeyExprs
  BY UpdateOrphansType DEF RenameOrphans

-----------------------------------------------------------------------------
(* The node.                                                                *)

LEMMA EidType == Eid \subseteq Int /\ 0 \in Eid /\ ElSize \in Int
  BY NodeAssumption DEF Eid, ElSize

\* An id is that of a slot exactly when the commands' bound check lets it by.
LEMMA ReceivedIdType ==
  ASSUME TypeOK, NEW id \in EntityIds
  PROVE  /\ ReceivedId(id) \in Uint16
         /\ ReceivedId(id) < ElSize => ReceivedId(id) \in Eid
<1>1. ReceivedId(id) \in Uint16
  BY CopyUint16Type, NodeAssumption DEF TypeOK, ReceivedId
<1>2. UINT16_MAX \in Int
  BY DEF UINT16_MAX
<1> QED
  BY <1>1, <1>2, NodeAssumption DEF Uint16, ElSize, Eid

LEMMA StatusType == ASSUME NEW v \in {STATUS_OK, STATUS_ERR}
                    PROVE  SendStatus(v) \in Messages \cup {NoMsg}
  BY DEF SendStatus, SendCommand, Status, Messages

LEMMA ListRespType == ASSUME TypeOK PROVE ListResp \in Messages
<1>1. ASSUME NEW e \in Eid
      PROVE  ListEntry(entity_list[e]) \in
               [type : Types \cup {BadType}, state : Uint8, ke_len : Uint8,
                ke : KeyExprs \cup {NULL, Wild, Freed}]
  <2>1. entity_list[e] \in Entities
    BY DEF TypeOK
  <2>2. entity_list[e].state \in Int /\ entity_list[e].ke_size \in Int
    BY <2>1 DEF Entities, Int8Values
  <2> QED
    BY <2>1, <2>2, ByteOfInt DEF ListEntry, Entities
<1> QED
  BY <1>1 DEF ListResp, Messages

\* The operations on the variables that several actions share.
LEMMA FinishType ==
  ASSUME TypeOK, NEW encoded \in Messages \cup {NoMsg}, Finish(encoded)
  PROVE  /\ curr_msg' \in Messages \cup {NoMsg}
         /\ reply' \in Messages \cup {NoMsg}
  BY DEF TypeOK, Finish, Reply, Waiting

LEMMA SetEntityType ==
  ASSUME TypeOK, NEW e \in Eid, NEW ent \in Entities, NEW lost \in SUBSET KeyExprs,
         SetEntity(e, ent, lost)
  PROVE  /\ entity_list' \in [Eid -> Entities]
         /\ orphans' \subseteq Eid \X KeyExprs
  BY DEF TypeOK, SetEntity

LEMMA AnswerOnlyType ==
  ASSUME TypeOK, NEW msg \in Messages \cup {NoMsg}, AnswerOnly(msg), rx_id' \in Uint16
  PROVE  TypeOK'
  BY FinishType DEF TypeOK, AnswerOnly

LEMMA UndefinedType ==
  ASSUME TypeOK, NEW kind \in {"handler", "application", "overrun"}, Undefined(kind),
         rx_id' \in Uint16
  PROVE  TypeOK'
  BY DEF TypeOK, Undefined

LEMMA InitType == Init => TypeOK
<1> SUFFICES ASSUME Init PROVE TypeOK
  OBVIOUS
<1>1. entity_list \in [Eid -> Entities]
  BY MallocedSlotsType DEF Init
<1>2. el_idx \in 0 .. ElSize
  BY NodeAssumption DEF Init, ElSize
<1>3. rx_id \in Uint16
  BY DEF Init, Uint16, UINT16_MAX
<1> QED
  BY <1>1, <1>2, <1>3 DEF Init, TypeOK

LEMMA SetStateType ==
  ASSUME TypeOK, NEW e \in Eid, NEW s \in StateVals, SetState(e, s), rx_id' \in Uint16
  PROVE  TypeOK'
<1>1. CASE UpdateIsUndefined(entity_list[e], s)
  BY <1>1, UndefinedType DEF SetState
<1>2. CASE ~UpdateIsUndefined(entity_list[e], s)
  <2>1. PICK declared \in DeclareResults :
          SetEntity(e, UpdateEntityState(entity_list[e], s, declared),
                       UpdateOrphans(entity_list[e], s))
    BY <1>2 DEF SetState
  <2>2. UpdateEntityState(entity_list[e], s, declared) \in Entities
    BY <1>2, UpdateType, NodeAssumption DEF TypeOK
  <2>3. entity_list' \in [Eid -> Entities] /\ orphans' \subseteq Eid \X KeyExprs
    BY <2>1, <2>2, SetEntityType, UpdateOrphansType
  <2>4. curr_msg' \in Messages \cup {NoMsg} /\ reply' \in Messages \cup {NoMsg}
    BY <1>2, FinishType, StatusType DEF SetState
  <2> QED
    BY <1>2, <2>3, <2>4 DEF SetState, TypeOK
<1> QED
  BY <1>1, <1>2

LEMMA RenameStepType ==
  ASSUME TypeOK, NEW e \in Eid, NEW ke \in KeyExprs, Rename(e, ke), rx_id' \in Uint16
  PROVE  TypeOK'
<1>1. CASE RenameIsUndefined(entity_list[e], ke)
  BY <1>1, UndefinedType DEF Rename
<1>2. CASE ~RenameIsUndefined(entity_list[e], ke)
  <2>1. PICK declared \in DeclareResults :
          SetEntity(e, RenameEntity(entity_list[e], ke, declared),
                       RenameOrphans(entity_list[e], ke))
    BY <1>2 DEF Rename
  <2>2. RenameEntity(entity_list[e], ke, declared) \in Entities
    BY <1>2, RenameType, NodeAssumption DEF TypeOK
  <2>3. entity_list' \in [Eid -> Entities] /\ orphans' \subseteq Eid \X KeyExprs
    BY <2>1, <2>2, SetEntityType, RenameOrphansType
  <2>4. curr_msg' \in Messages \cup {NoMsg} /\ reply' \in Messages \cup {NoMsg}
    BY <1>2, FinishType, StatusType DEF Rename
  <2> QED
    BY <1>2, <2>3, <2>4 DEF Rename, TypeOK
<1> QED
  BY <1>1, <1>2

LEMMA NewEntityType ==
  ASSUME TypeOK, NEW e \in Eid, NEW type \in Types, NEW s \in {OFF, INVALID},
         NEW ke \in KeyExprs
  PROVE  NewEntity(e, type, s, ke) \in Entities
<1>1. entity_list[e] \in Entities
  BY DEF TypeOK
<1> QED
  BY <1>1, NewSizeType DEF NewEntity, Entities, Int8Values, OFF, INVALID

LEMMA AddEntityType ==
  ASSUME TypeOK, NEW type \in Types, NEW on \in BOOLEAN, NEW ke \in KeyExprs,
         AddEntity(type, on, ke)
  PROVE  TypeOK'
<1> DEFINE new    == NewEntity(el_idx, type, INVALID, ke)
           target == IF on THEN ON ELSE OFF
<1>1. el_idx \in Eid /\ el_idx + 1 \in 0 .. ElSize
  BY NodeAssumption DEF AddEntity, TypeOK, Eid, ElSize
<1>2. new \in Entities
  BY <1>1, NewEntityType
<1>3. target \in Uint8
  BY DEF OFF, ON, Uint8
<1>4. rx_id' \in Uint16
  BY DEF AddEntity, TypeOK
<1>5. CASE UpdateIsUndefined(new, target)
  BY <1>4, <1>5, UndefinedType DEF AddEntity
<1>6. CASE ~UpdateIsUndefined(new, target)
  <2>1. PICK declared \in DeclareResults :
          SetEntity(el_idx, UpdateEntityState(new, target, declared),
                            UpdateOrphans(new, target))
    BY <1>6 DEF AddEntity
  <2> HIDE DEF new, target
  <2>2. UpdateEntityState(new, target, declared) \in Entities
    BY <1>2, <1>3, <1>6, UpdateType, NodeAssumption
  <2>3. entity_list' \in [Eid -> Entities] /\ orphans' \subseteq Eid \X KeyExprs
    BY <1>1, <2>1, <2>2, SetEntityType, UpdateOrphansType
  <2> QED
    BY <1>1, <1>4, <1>6, <2>3 DEF AddEntity, TypeOK, new, target
<1> QED
  BY <1>5, <1>6

LEMMA MainInitType ==
  ASSUME TypeOK, NEW ke \in KeyExprs, MainInit(ke)
  PROVE  TypeOK'
<1> DEFINE new == NewEntity(0, "QUERYABLE", OFF, ke)
<1>1. new \in Entities /\ new.ke_suffix \in KeyExprs
  BY NewEntityType, EidType DEF Types, NewEntity
<1>2. ~UpdateIsUndefined(new, ON) /\ ON \in Uint8
  BY <1>1 DEF UpdateIsUndefined, SwitchIsUndefined, ON, OFF, Uint8
<1>3. PICK declared \in DeclareResults : SetEntity(0, UpdateEntityState(new, ON, declared), {})
  BY DEF MainInit
<1>4. UpdateEntityState(new, ON, declared) \in Entities
  BY <1>1, <1>2, UpdateType, NodeAssumption
<1>5. entity_list' \in [Eid -> Entities] /\ orphans' \subseteq Eid \X KeyExprs
  BY <1>3, <1>4, SetEntityType, EidType
<1>6. 1 \in 0 .. ElSize
  BY NodeAssumption DEF ElSize
<1> QED
  BY <1>5, <1>6 DEF MainInit, TypeOK

LEMMA CloseType ==
  ASSUME TypeOK, Close
  PROVE  TypeOK'
<1>0. rx_id' \in Uint16
  BY DEF Close, TypeOK
<1>1. CASE \E e \in Eid : entity_list[e].state = ON /\ UpdateIsUndefined(entity_list[e], OFF)
  BY <1>0, <1>1, UndefinedType DEF Close
<1>2. CASE ~\E e \in Eid : entity_list[e].state = ON /\ UpdateIsUndefined(entity_list[e], OFF)
  <2>1. ASSUME NEW e \in Eid
        PROVE  CloseEntity(entity_list[e]) \in Entities
    <3>1. entity_list[e] \in Entities /\ OFF \in Uint8
      BY DEF TypeOK, OFF, Uint8
    <3>2. entity_list[e].state = ON => UpdateEntityState(entity_list[e], OFF, TRUE) \in Entities
      BY <1>2, <3>1, UpdateType
    <3> QED
      BY <3>1, <3>2 DEF CloseEntity, Entities
  <2> QED
    BY <1>0, <1>2, <2>1 DEF Close, TypeOK
<1> QED
  BY <1>1, <1>2

LEMMA HandlerType ==
  ASSUME TypeOK, zdc_cmd_handler
  PROVE  TypeOK'
<1>0. NoMsg \in Messages \cup {NoMsg}
  OBVIOUS
<1>1. ASSUME NEW id \in EntityIds, NEW s \in StateVals, SetEntityState(id, s)
      PROVE  TypeOK'
  <2>1. rx_id' \in Uint16
    BY <1>1, ReceivedIdType DEF SetEntityState, GetData
  <2>2. 1 .. EntityNb \subseteq Eid
    BY NodeAssumption DEF Eid
  <2> QED
    BY <1>0, <1>1, <2>1, <2>2, AnswerOnlyType, StatusType, SetStateType DEF SetEntityState
<1>2. ASSUME NEW id \in EntityIds, NEW ke \in KeyExprs, SetEntityKeyexpr(id, ke)
      PROVE  TypeOK'
  <2>1. rx_id' \in Uint16
    BY <1>2, ReceivedIdType DEF SetEntityKeyexpr, GetData
  <2> QED
    BY <1>0, <1>2, <2>1, ReceivedIdType, AnswerOnlyType, RenameStepType DEF SetEntityKeyexpr
<1>3. ASSUME NEW id \in EntityIds, SetEntityConfig(id)
      PROVE  TypeOK'
  <2>1. rx_id' \in Uint16
    BY <1>3, ReceivedIdType DEF SetEntityConfig, GetData
  <2> QED
    BY <1>0, <1>3, <2>1, AnswerOnlyType, StatusType DEF SetEntityConfig
<1>4. CASE ListEntities
  <2>1. rx_id' \in Uint16
    BY <1>4 DEF ListEntities, TypeOK
  <2>2. SendCommand(ListResp, ListOverhead + ListSize) \in Messages \cup {NoMsg}
    BY ListRespType DEF SendCommand
  <2> QED
    BY <1>4, <2>1, <2>2, UndefinedType, AnswerOnlyType DEF ListEntities
<1>5. CASE Unexecuted
  BY <1>0, <1>5, AnswerOnlyType DEF Unexecuted, TypeOK
<1>6. CASE EmptyQuery
  BY <1>6 DEF EmptyQuery, TypeOK
<1> QED
  BY <1>1, <1>2, <1>3, <1>4, <1>5, <1>6 DEF zdc_cmd_handler

\* Every value stays in the range of the C field it models: in particular a
\* state fits its int8_t, a serialised byte its uint8_t and a received id its
\* uint16_t, whatever the commands carry and whatever malloc returned.
THEOREM TypeCorrect == Spec => []TypeOK
<1>1. Init => TypeOK
  BY InitType
<1>2. TypeOK /\ [Next]_vars => TypeOK'
  <2> SUFFICES ASSUME TypeOK, [Next]_vars PROVE TypeOK'
    OBVIOUS
  <2>1. CASE zdc_cmd_handler
    BY <2>1, HandlerType
  <2>2. ASSUME NEW ke \in KeyExprs, MainInit(ke) PROVE TypeOK'
    BY <2>2, MainInitType
  <2>3. ASSUME NEW ke \in KeyExprs, NEW on \in BOOLEAN, AddPubEntity(on, ke) PROVE TypeOK'
    BY <2>3, AddEntityType DEF AddPubEntity, Types
  <2>4. ASSUME NEW ke \in KeyExprs, NEW on \in BOOLEAN, AddSubEntity(on, ke) PROVE TypeOK'
    BY <2>4, AddEntityType DEF AddSubEntity, Types
  <2>5. CASE Close
    BY <2>5, CloseType
  <2>6. CASE UNCHANGED vars
    BY <2>6 DEF vars, TypeOK, Messages
  <2> QED
    BY <2>1, <2>2, <2>3, <2>4, <2>5, <2>6 DEF Next, Application
<1> QED
  BY <1>1, <1>2, PTL DEF Spec

-----------------------------------------------------------------------------
(* The inductive invariant behind the safety properties, for commands that  *)
(* carry the states the protocol defines.                                   *)

OnOffOnly == StateVals \subseteq {OFF, ON}

\* A slot the application has added.  While it is on, its handle is that of
\* its key expression, or null if zenoh may refuse.
AddedConsistent(ent) ==
  /\ ent.type \in Types /\ ent.state \in {OFF, ON} /\ ent.ke_suffix \in KeyExprs
  /\ ent.state = OFF \/ ent.type \notin Declarable => ~IsDeclared(ent)
  /\ ent.state = ON /\ ent.type \in Declarable =>
       ent.data = ent.ke_suffix \/ (ent.data = NULL /\ FALSE \in DeclareResults)

\* A slot it has not added, which early commands may already have changed.
NeverDeclared(ent) ==
  /\ ~IsDeclared(ent)
  /\ ent.ke_suffix = Wild \/ ent.type \notin Declarable

SlotsConsistent ==
  \A e \in Eid : IF e < el_idx THEN AddedConsistent(entity_list[e])
                               ELSE NeverDeclared(entity_list[e])

IInv ==
  /\ TypeOK
  /\ orphans = {}
  /\ phase = "boot" <=> el_idx = 0
  /\ phase = "boot" => fault = "none"
  /\ phase # "closed" => SlotsConsistent
  /\ phase = "up" => entity_list[0].type = "QUERYABLE" /\ entity_list[0].state = ON
  /\ phase = "closed" => \A e \in Eid : ~IsDeclared(entity_list[e])
  /\ fault # "application"
  /\ fault = "handler" => el_idx < ElSize

LEMMA SmallStates ==
  /\ Int8(OFF) = OFF /\ Int8(ON) = ON
  /\ OFF # ON /\ OFF # INVALID /\ ON # INVALID /\ OFF \in Uint8 /\ ON \in Uint8
  BY DEF Int8, OFF, ON, INVALID, Uint8

\* What zdc_update_entity_state does to a slot whose declaration agrees with
\* its state, and to one the application has just filled.
Fresh(ent, s) ==
  /\ ent.type \in Types /\ ent.ke_suffix \in KeyExprs /\ ~IsDeclared(ent)
  /\ ent.state # ON /\ (s = OFF => ent.state = INVALID)

LEMMA UpdateAdded ==
  ASSUME NEW ent \in Entities, NEW s \in {OFF, ON}, NEW declared \in DeclareResults,
         AddedConsistent(ent) \/ Fresh(ent, s)
  PROVE  LET upd == UpdateEntityState(ent, s, declared)
         IN /\ ~UpdateIsUndefined(ent, s) /\ UpdateOrphans(ent, s) = {}
            /\ upd \in Entities /\ AddedConsistent(upd)
            /\ upd.state = s /\ upd.type = ent.type /\ upd.ke_suffix = ent.ke_suffix
<1> DEFINE upd == UpdateEntityState(ent, s, declared)
<1>0. declared \in BOOLEAN /\ (declared = FALSE => FALSE \in DeclareResults)
  BY NodeAssumption
<1>1. ~UpdateIsUndefined(ent, s)
  BY SmallStates, KeyExprAssumption
  DEF AddedConsistent, Fresh, UpdateIsUndefined, SwitchIsUndefined, MustSwitch, IsDeclared
<1>2. UpdateOrphans(ent, s) = {}
  BY SmallStates DEF AddedConsistent, Fresh, UpdateOrphans, MustSwitch, IsDeclared
<1>3. upd \in Entities
  BY <1>0, <1>1, SmallStates, UpdateType
<1>4. CASE ~MustSwitch(ent, s)
  <2>1. upd = [ent EXCEPT !.state = s]
    BY <1>4, SmallStates DEF UpdateEntityState, UpdateReturns
  <2>2. upd.state = s /\ upd.type = ent.type /\ upd.ke_suffix = ent.ke_suffix
        /\ upd.data = ent.data
    BY <2>1 DEF Entities
  <2>3. AddedConsistent(upd)
    BY <1>4, <2>2, SmallStates DEF AddedConsistent, Fresh, MustSwitch, IsDeclared
  <2> QED
    BY <1>1, <1>2, <1>3, <2>2, <2>3
<1>5. CASE MustSwitch(ent, s)
  <2>1. UpdateReturns(ent, s)
    BY DEF UpdateReturns, AddedConsistent, Fresh
  <2>2. upd = [Switch(ent, s, declared) EXCEPT !.state = s]
    BY <1>5, <2>1, SmallStates DEF UpdateEntityState
  <2>3. /\ upd.state = s /\ upd.type = ent.type /\ upd.ke_suffix = ent.ke_suffix
        /\ upd.data = IF ent.type \in Declarable
                      THEN IF s = ON /\ declared THEN ent.ke_suffix ELSE NULL
                      ELSE ent.data
    BY <2>2 DEF Switch, Entities
  <2>4. AddedConsistent(upd)
    BY <1>0, <2>3, SmallStates, KeyExprAssumption DEF AddedConsistent, Fresh, IsDeclared
  <2> QED
    BY <1>1, <1>2, <1>3, <2>3, <2>4
<1> QED
  BY <1>4, <1>5

LEMMA UpdateNeverDeclared ==
  ASSUME NEW ent \in Entities, NEW s \in {OFF, ON}, NEW declared \in BOOLEAN,
         NeverDeclared(ent), ~UpdateIsUndefined(ent, s)
  PROVE  /\ UpdateOrphans(ent, s) = {}
         /\ NeverDeclared(UpdateEntityState(ent, s, declared))
<1> DEFINE upd == UpdateEntityState(ent, s, declared)
<1>1. UpdateOrphans(ent, s) = {}
  BY DEF NeverDeclared, UpdateOrphans
<1>2. /\ upd.type = ent.type /\ upd.ke_suffix = ent.ke_suffix
      /\ \/ upd.data = ent.data
         \/ upd.data = NULL
         \/ MustSwitch(ent, s) /\ s = ON /\ ent.type \in Declarable
  BY DEF UpdateEntityState, Switch, Entities
<1>3. ~(MustSwitch(ent, s) /\ s = ON /\ ent.type \in Declarable)
  BY KeyExprAssumption DEF UpdateIsUndefined, SwitchIsUndefined, NeverDeclared
<1> QED
  BY <1>1, <1>2, <1>3, KeyExprAssumption DEF NeverDeclared, IsDeclared

\* The same for zdcExecuteset_entity_keyexpr.
LEMMA RenameAdded ==
  ASSUME NEW ent \in Entities, NEW ke \in KeyExprs, NEW declared \in DeclareResults,
         AddedConsistent(ent)
  PROVE  LET ren == RenameEntity(ent, ke, declared)
         IN /\ ~RenameIsUndefined(ent, ke) /\ RenameOrphans(ent, ke) = {}
            /\ AddedConsistent(ren)
            /\ ren.state = ent.state /\ ren.type = ent.type /\ ren.ke_suffix = ke
<1> DEFINE stopped == UpdateEntityState(ent, OFF, TRUE)
           ren     == RenameEntity(ent, ke, declared)
<1>1. /\ ent.ke_suffix # Wild /\ ent.ke_suffix # NULL
  BY KeyExprAssumption DEF AddedConsistent
<1>2. CASE ent.state = ON
  <2>1. StoredStopped(ent, ke) = StoreKeyexpr(stopped, ke)
    BY <1>2 DEF StoredStopped, Restarts
  <2>2. /\ ~UpdateIsUndefined(ent, OFF) /\ stopped \in Entities /\ ~IsDeclared(stopped)
        /\ stopped.state = OFF /\ stopped.type = ent.type
    <3>1. /\ ~UpdateIsUndefined(ent, OFF)
      BY <1>2, KeyExprAssumption, SmallStates DEF AddedConsistent, UpdateIsUndefined, SwitchIsUndefined
    <3>2. MustSwitch(ent, OFF) /\ UpdateReturns(ent, OFF)
      BY <1>2, SmallStates DEF MustSwitch, UpdateReturns, AddedConsistent
    <3>3. stopped = [Switch(ent, OFF, TRUE) EXCEPT !.state = OFF]
      BY <3>2, SmallStates DEF UpdateEntityState
    <3>4. /\ stopped.state = OFF /\ stopped.type = ent.type
          /\ stopped.data = IF ent.type \in Declarable THEN NULL ELSE ent.data
      BY <3>3, SmallStates DEF Switch, Entities
    <3>5. stopped \in Entities
      BY <3>1, SmallStates, UpdateType
    <3> QED
      BY <3>1, <3>4, <3>5, KeyExprAssumption DEF IsDeclared, AddedConsistent
  <2>3. /\ StoredStopped(ent, ke) \in Entities /\ StoredStopped(ent, ke).type = ent.type
        /\ StoredStopped(ent, ke).state = OFF /\ ~IsDeclared(StoredStopped(ent, ke))
        /\ StoredStopped(ent, ke).ke_suffix = ke
    <3>1. StoreKeyexpr(stopped, ke) \in Entities
      BY <2>2, StoreType
    <3> HIDE DEF stopped
    <3>2. /\ StoreKeyexpr(stopped, ke).type = stopped.type
          /\ StoreKeyexpr(stopped, ke).state = stopped.state
          /\ StoreKeyexpr(stopped, ke).data = stopped.data
          /\ StoreKeyexpr(stopped, ke).ke_suffix = ke
      BY <2>2 DEF StoreKeyexpr, Entities
    <3> QED
      BY <2>1, <2>2, <3>1, <3>2 DEF IsDeclared
  <2>4. Fresh(StoredStopped(ent, ke), ON)
    BY <2>3, SmallStates DEF Fresh, AddedConsistent
  <2>5. /\ ren = UpdateEntityState(StoredStopped(ent, ke), ON, declared)
        /\ RenameOrphans(ent, ke) = UpdateOrphans(StoredStopped(ent, ke), ON)
    BY <1>2 DEF RenameEntity, RenameOrphans, Restarts
  <2>6. /\ ~UpdateIsUndefined(StoredStopped(ent, ke), ON)
        /\ UpdateOrphans(StoredStopped(ent, ke), ON) = {}
        /\ AddedConsistent(ren)
        /\ ren.state = ON /\ ren.type = ent.type /\ ren.ke_suffix = ke
    BY <2>3, <2>4, <2>5, UpdateAdded
  <2> QED
    BY <1>1, <1>2, <2>2, <2>5, <2>6 DEF RenameIsUndefined
<1>3. CASE ent.state # ON
  <2>1. ren = StoreKeyexpr(ent, ke) /\ RenameOrphans(ent, ke) = {}
    BY <1>3 DEF RenameEntity, RenameOrphans, StoredStopped, Restarts
  <2>2. /\ ren.type = ent.type /\ ren.state = ent.state /\ ren.data = ent.data
        /\ ren.ke_suffix = ke
    BY <2>1 DEF StoreKeyexpr, Entities
  <2>3. AddedConsistent(ren)
    BY <1>3, <2>2 DEF AddedConsistent, IsDeclared
  <2> QED
    BY <1>1, <1>3, <2>1, <2>2, <2>3 DEF RenameIsUndefined, Restarts
<1> QED
  BY <1>2, <1>3

LEMMA RenameNeverDeclared ==
  ASSUME NEW ent \in Entities, NEW ke \in KeyExprs, NEW declared \in BOOLEAN,
         NeverDeclared(ent), ~RenameIsUndefined(ent, ke)
  PROVE  /\ RenameOrphans(ent, ke) = {}
         /\ NeverDeclared(RenameEntity(ent, ke, declared))
<1>1. ent.type \notin Declarable
  BY DEF RenameIsUndefined, NeverDeclared
<1>2. /\ \A s, d : UpdateEntityState(ent, s, d).type = ent.type
      /\ \A s, d : UpdateEntityState(ent, s, d).data = ent.data
      /\ \A s, d : DOMAIN UpdateEntityState(ent, s, d) = DOMAIN ent
  BY <1>1 DEF UpdateEntityState, Switch, Entities
<1>3. /\ StoredStopped(ent, ke).type = ent.type
      /\ StoredStopped(ent, ke).data = ent.data
      /\ DOMAIN StoredStopped(ent, ke) = DOMAIN ent
  BY <1>2 DEF StoredStopped, StoreKeyexpr, Entities
<1>4. /\ RenameEntity(ent, ke, declared).type = ent.type
      /\ RenameEntity(ent, ke, declared).data = ent.data
  BY <1>1, <1>3 DEF RenameEntity, UpdateEntityState, Switch, Entities
<1> QED
  BY <1>1, <1>3, <1>4 DEF NeverDeclared, IsDeclared, RenameOrphans, UpdateOrphans

-----------------------------------------------------------------------------
(* The invariant is inductive: one lemma per operation.                     *)

LEMMA InitInv == Init => IInv
<1> SUFFICES ASSUME Init PROVE IInv
  OBVIOUS
<1>1. TypeOK
  BY InitType
<1>2. ASSUME NEW ent \in MallocedSlots PROVE NeverDeclared(ent)
  BY KeyExprAssumption
  DEF MallocedSlots, ZeroSlot, WildSlots, NeverDeclared, IsDeclared, Declarable
<1>3. SlotsConsistent
  BY <1>2, EidType DEF Init, SlotsConsistent, Eid
<1> QED
  BY <1>1, <1>3 DEF Init, IInv

\* Replacing one slot by a slot as good keeps all of them consistent.
LEMMA SetEntityInv ==
  ASSUME IInv, phase = "up", NEW e \in Eid, NEW ent \in Entities, SetEntity(e, ent, {}),
         IF e < el_idx THEN AddedConsistent(ent) ELSE NeverDeclared(ent),
         e = 0 => ent.type = "QUERYABLE" /\ ent.state = ON,
         UNCHANGED <<phase, el_idx, fault>>, TypeOK'
  PROVE  IInv'
<1>1. orphans' = {}
  BY DEF SetEntity, IInv
<1>2. entity_list' = [entity_list EXCEPT ![e] = ent] /\ entity_list \in [Eid -> Entities]
  BY DEF SetEntity, IInv, TypeOK
<1>3. ASSUME NEW f \in Eid
      PROVE  IF f < el_idx THEN AddedConsistent(entity_list'[f])
                           ELSE NeverDeclared(entity_list'[f])
  BY <1>2, <1>3 DEF IInv, SlotsConsistent
<1>4. SlotsConsistent'
  BY <1>3 DEF SlotsConsistent
<1>5. entity_list'[0].type = "QUERYABLE" /\ entity_list'[0].state = ON
  BY <1>2, EidType DEF IInv
<1> QED
  BY <1>1, <1>4, <1>5 DEF IInv

\* A step that touches neither slots nor phase keeps the invariant.
LEMMA SameEntitiesInv ==
  ASSUME IInv, TypeOK', phase # "boot",
         UNCHANGED <<phase, el_idx, entity_list, orphans>>,
         fault' # "application", fault' = "handler" => el_idx < ElSize
  PROVE  IInv'
  BY DEF IInv, SlotsConsistent

LEMMA SetStateInv ==
  ASSUME IInv, TypeOK', OnOffOnly, phase = "up",
         NEW e \in 1 .. EntityNb, NEW s \in StateVals, SetState(e, s)
  PROVE  IInv'
<1>1. e \in Eid /\ e # 0 /\ el_idx \in Int /\ entity_list[e] \in Entities /\ s \in {OFF, ON}
  BY NodeAssumption DEF Eid, IInv, TypeOK, ElSize, OnOffOnly
<1>2. CASE e < el_idx
  <2>1. AddedConsistent(entity_list[e])
    BY <1>1, <1>2 DEF IInv, SlotsConsistent
  <2>2. ~UpdateIsUndefined(entity_list[e], s) /\ UpdateOrphans(entity_list[e], s) = {}
    BY <1>1, <2>1, UpdateAdded, NodeAssumption
  <2>3. PICK declared \in DeclareResults :
          SetEntity(e, UpdateEntityState(entity_list[e], s, declared), {})
    BY <2>2 DEF SetState
  <2>4. /\ UpdateEntityState(entity_list[e], s, declared) \in Entities
        /\ AddedConsistent(UpdateEntityState(entity_list[e], s, declared))
    BY <1>1, <2>1, UpdateAdded
  <2> QED
    BY <1>1, <1>2, <2>2, <2>3, <2>4, SetEntityInv DEF SetState
<1>3. CASE ~(e < el_idx) /\ ~UpdateIsUndefined(entity_list[e], s)
  <2>1. NeverDeclared(entity_list[e])
    BY <1>1, <1>3 DEF IInv, SlotsConsistent
  <2>2. UpdateOrphans(entity_list[e], s) = {}
    BY <1>1, <1>3, <2>1, UpdateNeverDeclared
  <2>3. PICK declared \in DeclareResults :
          SetEntity(e, UpdateEntityState(entity_list[e], s, declared), {})
    BY <1>3, <2>2 DEF SetState
  <2>4. /\ UpdateEntityState(entity_list[e], s, declared) \in Entities
        /\ NeverDeclared(UpdateEntityState(entity_list[e], s, declared))
    BY <1>1, <1>3, <2>1, UpdateNeverDeclared, UpdateType, SmallStates, NodeAssumption
  <2> QED
    BY <1>1, <1>3, <2>3, <2>4, SetEntityInv DEF SetState
<1>4. CASE ~(e < el_idx) /\ UpdateIsUndefined(entity_list[e], s)
  <2>1. el_idx < ElSize
    BY <1>1, <1>4, NodeAssumption DEF ElSize
  <2> QED
    BY <1>4, <2>1, SameEntitiesInv DEF SetState, Undefined
<1> QED
  BY <1>2, <1>3, <1>4

LEMMA RenameInv ==
  ASSUME IInv, TypeOK', phase = "up", NEW e \in Eid, NEW ke \in KeyExprs, Rename(e, ke)
  PROVE  IInv'
<1>1. el_idx \in Int /\ e \in Int /\ e < ElSize /\ entity_list[e] \in Entities
  BY NodeAssumption DEF Eid, IInv, TypeOK, ElSize
<1>2. CASE e < el_idx
  <2>1. AddedConsistent(entity_list[e])
    BY <1>1, <1>2 DEF IInv, SlotsConsistent
  <2>2. ~RenameIsUndefined(entity_list[e], ke) /\ RenameOrphans(entity_list[e], ke) = {}
    BY <1>1, <2>1, RenameAdded, NodeAssumption
  <2>3. PICK declared \in DeclareResults :
          SetEntity(e, RenameEntity(entity_list[e], ke, declared), {})
    BY <2>2 DEF Rename
  <2> DEFINE ren == RenameEntity(entity_list[e], ke, declared)
  <2>4. /\ AddedConsistent(ren) /\ ren.type = entity_list[e].type
        /\ ren.state = entity_list[e].state
    BY <1>1, <2>1, RenameAdded
  <2>5. ren \in Entities
    BY <1>1, <2>2, RenameType, NodeAssumption
  <2>6. e = 0 => ren.type = "QUERYABLE" /\ ren.state = ON
    BY <2>4 DEF IInv
  <2>7. UNCHANGED <<phase, el_idx, fault>>
    BY <2>2 DEF Rename
  <2> HIDE DEF ren
  <2> QED
    BY <1>2, <2>3, <2>4, <2>5, <2>6, <2>7, SetEntityInv DEF ren
<1>3. CASE ~(e < el_idx) /\ ~RenameIsUndefined(entity_list[e], ke)
  <2>1. NeverDeclared(entity_list[e])
    BY <1>1, <1>3 DEF IInv, SlotsConsistent
  <2>2. RenameOrphans(entity_list[e], ke) = {}
    BY <1>1, <1>3, <2>1, RenameNeverDeclared
  <2>3. PICK declared \in DeclareResults :
          SetEntity(e, RenameEntity(entity_list[e], ke, declared), {})
    BY <1>3, <2>2 DEF Rename
  <2>4. /\ RenameEntity(entity_list[e], ke, declared) \in Entities
        /\ NeverDeclared(RenameEntity(entity_list[e], ke, declared))
    BY <1>1, <1>3, <2>1, RenameNeverDeclared, RenameType, NodeAssumption
  <2>5. e # 0
    BY <1>1, <1>3, NodeAssumption DEF IInv, TypeOK, ElSize
  <2> QED
    BY <1>3, <2>3, <2>4, <2>5, SetEntityInv DEF Rename
<1>4. CASE ~(e < el_idx) /\ RenameIsUndefined(entity_list[e], ke)
  <2>1. el_idx < ElSize
    BY <1>1, <1>4, NodeAssumption DEF ElSize
  <2> QED
    BY <1>4, <2>1, SameEntitiesInv DEF Rename, Undefined
<1> QED
  BY <1>2, <1>3, <1>4

LEMMA HandlerInv ==
  ASSUME IInv, OnOffOnly, zdc_cmd_handler
  PROVE  IInv'
<1>1. TypeOK'
  BY HandlerType DEF IInv
<1>2. TypeOK /\ phase = "up" /\ fault = "none"
  BY DEF IInv, zdc_cmd_handler, SetEntityState, SetEntityKeyexpr, SetEntityConfig,
         ListEntities, Unexecuted, EmptyQuery, Receiving, Listening
<1>3. ASSUME NEW msg, AnswerOnly(msg) PROVE IInv'
  BY <1>1, <1>2, <1>3, SameEntitiesInv DEF AnswerOnly
<1>4. ASSUME NEW id \in EntityIds, NEW s \in StateVals, SetEntityState(id, s)
      PROVE  IInv'
  BY <1>1, <1>2, <1>3, <1>4, SetStateInv DEF SetEntityState
<1>5. ASSUME NEW id \in EntityIds, NEW ke \in KeyExprs, SetEntityKeyexpr(id, ke)
      PROVE  IInv'
  BY <1>1, <1>2, <1>3, <1>5, ReceivedIdType, RenameInv DEF SetEntityKeyexpr
<1>6. ASSUME NEW id \in EntityIds, SetEntityConfig(id) PROVE IInv'
  BY <1>3, <1>6 DEF SetEntityConfig
<1>7. CASE ListEntities
  <2>1. CASE ReadsUnwritten /\ Undefined("handler")
    <3>1. PICK e \in Eid : entity_list[e].ke_suffix = Wild
      BY <2>1 DEF ReadsUnwritten
    <3>2. ~(e < el_idx)
      BY <1>2, <3>1, KeyExprAssumption DEF IInv, SlotsConsistent, AddedConsistent
    <3>3. el_idx < ElSize
      BY <3>2, NodeAssumption DEF IInv, TypeOK, Eid, ElSize
    <3> QED
      BY <1>1, <1>2, <2>1, <3>3, SameEntitiesInv DEF Undefined
  <2>2. CASE Undefined("overrun")
    BY <1>1, <1>2, <2>2, SameEntitiesInv DEF Undefined
  <2> QED
    BY <1>3, <1>7, <2>1, <2>2 DEF ListEntities
<1>8. CASE Unexecuted
  BY <1>3, <1>8 DEF Unexecuted
<1>9. CASE EmptyQuery
  BY <1>1, <1>2, <1>9, SameEntitiesInv DEF EmptyQuery
<1> QED
  BY <1>4, <1>5, <1>6, <1>7, <1>8, <1>9 DEF zdc_cmd_handler

\* The application fills slot e, the first that is not added yet, and its
\* update leaves it consistent.
LEMMA AddInv ==
  ASSUME IInv, TypeOK', phase # "closed", NEW e, e = el_idx, e \in Eid,
         NEW ent \in Entities, SetEntity(e, ent, {}), AddedConsistent(ent),
         el_idx' = e + 1, phase' = "up", UNCHANGED fault, fault = "none",
         e = 0 => ent.type = "QUERYABLE" /\ ent.state = ON
  PROVE  IInv'
<1>1. e \in Int /\ 0 <= e
  BY NodeAssumption DEF Eid
<1>2. orphans' = {}
  BY DEF SetEntity, IInv
<1>3. entity_list' = [entity_list EXCEPT ![e] = ent] /\ entity_list \in [Eid -> Entities]
  BY DEF SetEntity, IInv, TypeOK
<1>4. ASSUME NEW f \in Eid
      PROVE  IF f < e + 1 THEN AddedConsistent(entity_list'[f])
                          ELSE NeverDeclared(entity_list'[f])
  <2>1. f \in Int
    BY NodeAssumption DEF Eid
  <2>2. CASE f = e
    BY <1>1, <1>3, <2>2
  <2>3. CASE f # e
    <3>1. entity_list'[f] = entity_list[f] /\ (f < e + 1 <=> f < el_idx)
      BY <1>1, <1>3, <2>1, <2>3
    <3> QED
      BY <3>1 DEF IInv, SlotsConsistent
  <2> QED
    BY <2>2, <2>3
<1>5. SlotsConsistent'
  BY <1>4 DEF SlotsConsistent
<1>6. entity_list'[0].type = "QUERYABLE" /\ entity_list'[0].state = ON
  <2>1. CASE e = 0
    BY <1>3, <2>1
  <2>2. CASE e # 0
    BY <1>3, <2>2, EidType DEF IInv, TypeOK
  <2> QED
    BY <2>1, <2>2
<1>7. ~(phase' = "boot") /\ ~(el_idx' = 0)
  BY <1>1
<1> QED
  BY <1>2, <1>5, <1>6, <1>7 DEF IInv

LEMMA MainInitInv ==
  ASSUME IInv, NEW ke \in KeyExprs, MainInit(ke)
  PROVE  IInv'
<1> DEFINE new == NewEntity(0, "QUERYABLE", OFF, ke)
<1>1. TypeOK' /\ el_idx = 0 /\ 0 \in Eid /\ fault = "none"
  BY MainInitType, EidType DEF IInv, MainInit
<1>2. new \in Entities
  BY NewEntityType, EidType DEF Types, IInv
<1>3. NeverDeclared(entity_list[0])
  BY <1>1, EidType DEF IInv, SlotsConsistent, MainInit
<1>4. Fresh(new, ON) /\ new.type = "QUERYABLE"
  BY <1>3, SmallStates DEF Fresh, NewEntity, NeverDeclared, IsDeclared, Types
<1>5. PICK declared \in DeclareResults : SetEntity(0, UpdateEntityState(new, ON, declared), {})
  BY DEF MainInit
<1> HIDE DEF new
<1>6. /\ UpdateEntityState(new, ON, declared) \in Entities
      /\ AddedConsistent(UpdateEntityState(new, ON, declared))
      /\ UpdateEntityState(new, ON, declared).state = ON
      /\ UpdateEntityState(new, ON, declared).type = "QUERYABLE"
  BY <1>2, <1>4, UpdateAdded
<1> QED
  BY <1>1, <1>5, <1>6, AddInv DEF MainInit

LEMMA AddEntityInv ==
  ASSUME IInv, NEW type \in Types, NEW on \in BOOLEAN, NEW ke \in KeyExprs,
         AddEntity(type, on, ke)
  PROVE  IInv'
<1> DEFINE new    == NewEntity(el_idx, type, INVALID, ke)
           target == IF on THEN ON ELSE OFF
<1>1. TypeOK'
  BY AddEntityType DEF IInv
<1>2. el_idx \in Eid /\ el_idx # 0 /\ phase = "up" /\ fault = "none"
  BY NodeAssumption DEF AddEntity, IInv, TypeOK, Eid, ElSize
<1>3. new \in Entities
  BY <1>2, NewEntityType DEF IInv
<1>4. NeverDeclared(entity_list[el_idx])
  BY <1>2, EidType DEF IInv, SlotsConsistent
<1>5. Fresh(new, target)
  BY <1>4, SmallStates DEF Fresh, NewEntity, NeverDeclared, IsDeclared
<1>6. target \in {OFF, ON}
  OBVIOUS
<1>7. /\ AddEntity(type, on, ke)
      /\ ~UpdateIsUndefined(new, target) /\ UpdateOrphans(new, target) = {}
  BY <1>3, <1>5, <1>6, UpdateAdded, NodeAssumption
<1>8. PICK declared \in DeclareResults :
        SetEntity(el_idx, UpdateEntityState(new, target, declared), {})
  BY <1>7 DEF AddEntity
<1>9. el_idx' = el_idx + 1 /\ UNCHANGED <<phase, fault>>
  BY <1>7 DEF AddEntity
<1> HIDE DEF new, target
<1>10. /\ UpdateEntityState(new, target, declared) \in Entities
       /\ AddedConsistent(UpdateEntityState(new, target, declared))
  BY <1>3, <1>5, <1>6, UpdateAdded
<1> QED
  BY <1>1, <1>2, <1>8, <1>9, <1>10, AddInv

LEMMA CloseInv ==
  ASSUME IInv, Close
  PROVE  IInv'
<1>1. TypeOK'
  BY CloseType DEF IInv
<1>2. phase = "up" /\ fault = "none" /\ el_idx = ElSize
  BY DEF Close
<1>3. ASSUME NEW e \in Eid
      PROVE  /\ AddedConsistent(entity_list[e]) /\ entity_list[e] \in Entities
             /\ entity_list[e].state = ON => ~UpdateIsUndefined(entity_list[e], OFF)
             /\ ~IsDeclared(CloseEntity(entity_list[e]))
  <2>1. AddedConsistent(entity_list[e]) /\ entity_list[e] \in Entities
    BY <1>2, NodeAssumption DEF IInv, SlotsConsistent, TypeOK, Eid, ElSize
  <2>2. ~UpdateIsUndefined(entity_list[e], OFF)
    BY <2>1, UpdateAdded, NodeAssumption
  <2>3. /\ UpdateEntityState(entity_list[e], OFF, TRUE) \in Entities
        /\ ~IsDeclared(UpdateEntityState(entity_list[e], OFF, TRUE))
    <3>1. UpdateEntityState(entity_list[e], OFF, TRUE) =
            UpdateEntityState(entity_list[e], OFF, FALSE)
      BY SmallStates DEF UpdateEntityState, Switch
    <3>2. PICK declared \in DeclareResults : declared \in BOOLEAN
      BY NodeAssumption
    <3>3. /\ UpdateEntityState(entity_list[e], OFF, declared) \in Entities
          /\ AddedConsistent(UpdateEntityState(entity_list[e], OFF, declared))
          /\ UpdateEntityState(entity_list[e], OFF, declared).state = OFF
      BY <2>1, UpdateAdded
    <3> QED
      BY <3>1, <3>2, <3>3 DEF AddedConsistent
  <2>4. ~IsDeclared(CloseEntity(entity_list[e]))
    BY <2>1, <2>3 DEF CloseEntity, AddedConsistent, IsDeclared, Entities
  <2> QED
    BY <2>1, <2>2, <2>4
<1>4. /\ entity_list' = [e \in Eid |-> CloseEntity(entity_list[e])]
      /\ phase' = "closed" /\ UNCHANGED <<el_idx, orphans, fault>>
  BY <1>3 DEF Close
<1>5. el_idx # 0
  BY <1>2 DEF IInv
<1> QED
  BY <1>1, <1>2, <1>3, <1>4, <1>5 DEF IInv

LEMMA StepInv == ASSUME IInv, OnOffOnly, [Next]_vars PROVE IInv'
<1>1. CASE zdc_cmd_handler
  BY <1>1, HandlerInv
<1>2. ASSUME NEW ke \in KeyExprs, MainInit(ke) PROVE IInv'
  BY <1>2, MainInitInv
<1>3. ASSUME NEW ke \in KeyExprs, NEW on \in BOOLEAN, AddPubEntity(on, ke) PROVE IInv'
  BY <1>3, AddEntityInv DEF AddPubEntity, Types
<1>4. ASSUME NEW ke \in KeyExprs, NEW on \in BOOLEAN, AddSubEntity(on, ke) PROVE IInv'
  BY <1>4, AddEntityInv DEF AddSubEntity, Types
<1>5. CASE Close
  BY <1>5, CloseInv
<1>6. CASE UNCHANGED vars
  BY <1>6 DEF vars, IInv, TypeOK, Messages, SlotsConsistent
<1> QED
  BY <1>1, <1>2, <1>3, <1>4, <1>5, <1>6 DEF Next, Application

\* With on and off as the only states, IInv holds at all times.
THEOREM Invariance == ASSUME OnOffOnly PROVE Spec => []IInv
<1>1. Init => IInv
  BY InitInv
<1>2. IInv /\ [Next]_vars => IInv'
  BY StepInv
<1> QED
  BY <1>1, <1>2, PTL DEF Spec

-----------------------------------------------------------------------------
(* The safety properties.                                                   *)

\* No sequence of commands, early or late, and no refusal of zenoh makes the
\* node lose the handle of a live declaration.
THEOREM DeclarationsKeepTheirHandle == ASSUME OnOffOnly PROVE Spec => []NoOrphans
<1>1. IInv => NoOrphans
  BY DEF IInv, NoOrphans
<1> QED
  BY <1>1, Invariance, PTL

\* An entity that is off is not declared, and one that is declared is so on
\* its current key expression, whatever zenoh refused before.
THEOREM OffIsOff == ASSUME OnOffOnly PROVE Spec => []OffMeansUndeclared
<1>1. ASSUME IInv PROVE OffMeansUndeclared
  <2>1. SUFFICES ASSUME phase = "up", NEW e \in Registered
                 PROVE  /\ IsDeclared(entity_list[e]) =>
                             /\ entity_list[e].state = ON
                             /\ entity_list[e].data = entity_list[e].ke_suffix
                        /\ entity_list[e].state = OFF =>
                             \A ke \in KeyExprs : <<e, ke>> \notin orphans
    BY DEF OffMeansUndeclared
  <2>2. AddedConsistent(entity_list[e]) /\ e \in Eid
    BY <1>1, <2>1, NodeAssumption
    DEF IInv, SlotsConsistent, Registered, TypeOK, Eid, ElSize
  <2>3. orphans = {}
    BY <1>1 DEF IInv
  <2> QED
    BY <2>2, <2>3, KeyExprAssumption DEF AddedConsistent, IsDeclared
<1> QED
  BY <1>1, Invariance, PTL

\* Memory that was never written is only followed by commands that arrive
\* before the last zdc_add_*_entity.
THEOREM OnlyEarlyCommandsAreUndefined ==
  ASSUME OnOffOnly PROVE Spec => []OnlyEarlyCommandsFault
<1>1. IInv => OnlyEarlyCommandsFault
  BY DEF IInv, OnlyEarlyCommandsFault
<1> QED
  BY <1>1, Invariance, PTL

\* After zdc_close zenoh holds no declaration of the node.
THEOREM CloseIsComplete == ASSUME OnOffOnly PROVE Spec => []CloseReleasesEverything
<1>1. IInv => CloseReleasesEverything
  BY DEF IInv, CloseReleasesEverything
<1> QED
  BY <1>1, Invariance, PTL

\* If zenoh refuses nothing, every added entity is declared exactly while it
\* is on, and on its current key expression.
THEOREM StateAndDeclarationAgree ==
  ASSUME OnOffOnly, FALSE \notin DeclareResults PROVE Spec => []EntitiesConsistent
<1>1. ASSUME IInv PROVE EntitiesConsistent
  <2>1. ASSUME phase = "up", NEW e \in Registered
        PROVE  AddedConsistent(entity_list[e])
    BY <1>1, <2>1, NodeAssumption
    DEF IInv, SlotsConsistent, Registered, TypeOK, Eid, ElSize
  <2> QED
    BY <2>1 DEF EntitiesConsistent, AddedConsistent, IInv
<1> QED
  BY <1>1, Invariance, PTL

LEMMA UpMeansListening ==
  ASSUME IInv, FALSE \notin DeclareResults, phase = "up"
  PROVE  Listening /\ entity_list[0].state = ON
<1>1. 0 \in Eid /\ 0 < el_idx
  BY NodeAssumption DEF IInv, TypeOK, Eid, ElSize
<1>2. AddedConsistent(entity_list[0])
  BY <1>1 DEF IInv, SlotsConsistent
<1> QED
  BY <1>1, <1>2 DEF IInv, AddedConsistent, Listening, IsDeclared, Declarable

\* If zenoh refuses nothing, no sequence of commands makes the node deaf.
THEOREM ControlSurvives ==
  ASSUME OnOffOnly, FALSE \notin DeclareResults PROVE Spec => []ControlStaysUp
<1>1. IInv => ControlStaysUp
  BY UpMeansListening DEF ControlStaysUp
<1> QED
  BY <1>1, Invariance, PTL

\* What zdc_MainInit says when it returns true is then so, and stays so until
\* zdc_close: a refused declaration, as in node_init_refused, is the only way
\* to make it wrong.
THEOREM InitIsHonest ==
  ASSUME OnOffOnly, FALSE \notin DeclareResults PROVE Spec => []InitSuccessMeansListening
<1>1. IInv => InitSuccessMeansListening
  BY UpMeansListening DEF InitSuccessMeansListening
<1> QED
  BY <1>1, Invariance, PTL
=============================================================================
