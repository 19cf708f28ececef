------------------------- MODULE ZdcNodeStepProofs -------------------------
(***************************************************************************)
(* Proofs of what one step of ZdcNode may and may not do: its action       *)
(* properties, and that stored strings fit their slots, for every number   *)
(* of entities, every set of key expressions and every buffer size.        *)
(***************************************************************************)
EXTENDS ZdcNodeProofs, ZdcEntityProofs

-----------------------------------------------------------------------------
(* The invariant of these proofs.  Unlike IInv it holds for every state a   *)
(* command may carry.                                                       *)

\* A slot that was written since malloc has a type.
Typed(ent) == ent.ke_suffix # Wild => ent.type \in Types

Fits(ent) == ent.ke_suffix \in KeyExprs => NewSize(ent.ke_suffix) <= ent.ke_size

\* All the ids node A's encoder produces: it writes one byte for those.
OneByteIds == EntityIds \subseteq Uint8

NInv ==
  /\ TypeOK
  /\ curr_msg = NoMsg
  /\ OneByteIds => rx_id \in Uint8
  /\ \A e \in Eid : Fits(entity_list[e])
  /\ phase # "closed" => \A e \in Eid : Typed(entity_list[e])

-----------------------------------------------------------------------------
(* Slots.                                                                   *)

\* A state update leaves the string of a slot and its type alone.
LEMMA UpdateKeeps ==
  ASSUME NEW ent \in Entities, NEW s, NEW declared
  PROVE  LET upd == UpdateEntityState(ent, s, declared)
         IN /\ upd.ke_suffix = ent.ke_suffix /\ upd.ke_size = ent.ke_size
            /\ upd.type = ent.type
            /\ DOMAIN upd = DOMAIN ent
  BY DEF UpdateEntityState, Switch, Entities

LEMMA UpdateFits ==
  ASSUME NEW ent \in Entities, NEW s, NEW declared, Fits(ent), Typed(ent)
  PROVE  /\ Fits(UpdateEntityState(ent, s, declared))
         /\ Typed(UpdateEntityState(ent, s, declared))
  BY UpdateKeeps DEF Fits, Typed

\* Before the restart, the slot has its old type and room for its new string.
LEMMA StoredKeeps ==
  ASSUME NEW ent \in Entities, NEW ke \in KeyExprs
  PROVE  LET stored == StoredStopped(ent, ke)
         IN /\ stored.ke_suffix = ke /\ NewSize(ke) <= stored.ke_size
            /\ NewSize(ke) <= ent.ke_size => stored.ke_size = ent.ke_size
            /\ stored.ke_size \in {ent.ke_size, NewSize(ke)}
            /\ stored.type = ent.type
            /\ stored.state = IF Restarts(ent) THEN UpdateEntityState(ent, OFF, TRUE).state
                                               ELSE ent.state
            /\ stored.data = IF Restarts(ent) THEN UpdateEntityState(ent, OFF, TRUE).data
                                              ELSE ent.data
            /\ DOMAIN stored = DOMAIN ent
<1> DEFINE before == IF Restarts(ent) THEN UpdateEntityState(ent, OFF, TRUE) ELSE ent
<1>1. /\ before.type = ent.type /\ before.ke_size = ent.ke_size
      /\ DOMAIN before = DOMAIN ent
  BY UpdateKeeps
<1>2. ent.ke_size \in Nat /\ NewSize(ke) \in Nat
  BY NewSizeType DEF Entities
<1>3. StoredStopped(ent, ke) = StoreKeyexpr(before, ke)
  BY DEF StoredStopped
<1>4. DOMAIN ent = {"type", "state", "ke_suffix", "ke_size", "data"}
  BY DEF Entities
<1>5. before.state = (IF Restarts(ent) THEN UpdateEntityState(ent, OFF, TRUE).state ELSE ent.state)
      /\ before.data = (IF Restarts(ent) THEN UpdateEntityState(ent, OFF, TRUE).data ELSE ent.data)
  OBVIOUS
<1> HIDE DEF before
<1>6. /\ StoreKeyexpr(before, ke).ke_suffix = ke
      /\ StoreKeyexpr(before, ke).type = before.type
      /\ StoreKeyexpr(before, ke).state = before.state
      /\ StoreKeyexpr(before, ke).data = before.data
      /\ StoreKeyexpr(before, ke).ke_size =
           IF NewSize(ke) > before.ke_size THEN NewSize(ke) ELSE before.ke_size
      /\ DOMAIN StoreKeyexpr(before, ke) = DOMAIN before
  BY <1>1, <1>4 DEF StoreKeyexpr
<1> QED
  BY <1>1, <1>2, <1>3, <1>5, <1>6

\* A rename stores the new string, in room enough, and keeps the type.
LEMMA RenameKeeps ==
  ASSUME NEW ent \in Entities, NEW ke \in KeyExprs, NEW declared
  PROVE  LET ren == RenameEntity(ent, ke, declared)
         IN /\ ren.ke_suffix = ke /\ NewSize(ke) <= ren.ke_size /\ ren.type = ent.type
            /\ NewSize(ke) <= ent.ke_size => ren.ke_size = ent.ke_size
            /\ ren.ke_size \in {ent.ke_size, NewSize(ke)}
<1> DEFINE stored == StoredStopped(ent, ke)
<1>1. /\ stored.ke_suffix = ke /\ NewSize(ke) <= stored.ke_size /\ stored.type = ent.type
      /\ NewSize(ke) <= ent.ke_size => stored.ke_size = ent.ke_size
      /\ stored.ke_size \in {ent.ke_size, NewSize(ke)}
      /\ DOMAIN stored = {"type", "state", "ke_suffix", "ke_size", "data"}
  BY StoredKeeps DEF Entities
<1> HIDE DEF stored
<1>2. /\ UpdateEntityState(stored, ON, declared).ke_suffix = stored.ke_suffix
      /\ UpdateEntityState(stored, ON, declared).ke_size = stored.ke_size
      /\ UpdateEntityState(stored, ON, declared).type = stored.type
  BY <1>1 DEF UpdateEntityState, Switch
<1> QED
  BY <1>1, <1>2 DEF RenameEntity, stored

\* The stop before a rename leaves no declaration to be overwritten.
LEMMA RenameOrphansNone ==
  ASSUME NEW ent \in Entities, NEW ke \in KeyExprs
  PROVE  RenameOrphans(ent, ke) = {}
<1> DEFINE stored  == StoredStopped(ent, ke)
           stopped == UpdateEntityState(ent, OFF, TRUE)
<1>1. CASE Restarts(ent) /\ ent.type \in Declarable
  <2>1. MustSwitch(ent, OFF) /\ UpdateReturns(ent, OFF)
    BY <1>1, SmallStates DEF Restarts, MustSwitch, UpdateReturns, Declarable, Types
  <2>2. stopped.data = NULL
    BY <1>1, <2>1, SmallStates DEF UpdateEntityState, Switch, Entities
  <2>3. stored.data = NULL
    BY <1>1, <2>2, StoredKeeps
  <2> QED
    BY <2>3, KeyExprAssumption DEF RenameOrphans, UpdateOrphans, IsDeclared
<1>2. CASE ent.type \notin Declarable
  BY <1>2, StoredKeeps DEF RenameOrphans, UpdateOrphans
<1>3. CASE ~Restarts(ent)
  BY <1>3 DEF RenameOrphans
<1> QED
  BY <1>1, <1>2, <1>3

\* A written slot is after a rename in the state it was in before.
LEMMA RenameKeepsSlotState ==
  ASSUME NEW ent \in Entities, NEW ke \in KeyExprs, NEW declared, ent.type \in Types
  PROVE  RenameEntity(ent, ke, declared).state = ent.state
<1> DEFINE stored  == StoredStopped(ent, ke)
           stopped == UpdateEntityState(ent, OFF, TRUE)
<1>1. CASE Restarts(ent)
  <2>1. MustSwitch(ent, OFF) /\ UpdateReturns(ent, OFF)
    BY <1>1, SmallStates DEF Restarts, MustSwitch, UpdateReturns
  <2>2. stopped.state = OFF
    BY <2>1, SmallStates DEF UpdateEntityState, Switch, Entities
  <2>3. /\ stored.state = OFF /\ stored.type \in Types
        /\ DOMAIN stored = {"type", "state", "ke_suffix", "ke_size", "data"}
    BY <1>1, <2>2, StoredKeeps DEF Entities
  <2> HIDE DEF stored
  <2>4. MustSwitch(stored, ON) /\ UpdateReturns(stored, ON)
    BY <2>3, SmallStates DEF MustSwitch, UpdateReturns
  <2>5. UpdateEntityState(stored, ON, declared).state = ON
    BY <2>3, <2>4, SmallStates DEF UpdateEntityState, Switch
  <2> QED
    BY <1>1, <2>5 DEF RenameEntity, Restarts, stored
<1>2. CASE ~Restarts(ent)
  BY <1>2, StoredKeeps DEF RenameEntity
<1> QED
  BY <1>1, <1>2

-----------------------------------------------------------------------------
(* The commands.                                                            *)

\* A byte id replaces the low byte of a static payload whose high byte is 0.
LEMMA ByteIdArrives ==
  ASSUME NInv, OneByteIds, NEW id \in EntityIds
  PROVE  ReceivedId(id) = id
<1>1. id \in 0 .. 255 /\ rx_id \in 0 .. 255
  BY DEF OneByteIds, NInv, Uint8
<1> QED
  BY <1>1 DEF ReceivedId, CopyUint16, GetVLESize

\* An acknowledgement always fits the send buffer, and is a message.
LEMMA StatusIsSent ==
  ASSUME NEW v \in {STATUS_OK, STATUS_ERR}
  PROVE  SendStatus(v) = Status(v) /\ Status(v) # NoMsg
<1>1. StatusSize <= BuffSize
  BY NodeAssumption
<1>2. Status(v) \in Messages
  BY DEF Status, Messages
<1> QED
  BY <1>1, <1>2, MessageAssumption DEF SendStatus, SendCommand

LEMMA ListRespIsMessage ==
  ASSUME TypeOK PROVE ListResp # NoMsg
  BY ListRespType, MessageAssumption

\* A reply zenoh cannot refuse reaches the controller.
LEMMA ReplyIsTaken ==
  ASSUME FALSE \notin ReplyResults, NEW msg, Reply(msg)
  PROVE  reply' = msg
<1>1. \A taken \in ReplyResults : taken = TRUE
  BY NodeAssumption
<1> QED
  BY <1>1 DEF Reply

\* A command that leaves every slot alone leaves nothing in the send buffer.
LEMMA AnswerOnlyEffect ==
  ASSUME NEW v \in {STATUS_OK, STATUS_ERR}, AnswerOnly(SendStatus(v))
  PROVE  Reply(Status(v))
  BY StatusIsSent DEF AnswerOnly, Finish, Waiting

\* What a command that reaches a slot answers and writes.
LEMMA SetStateEffect ==
  ASSUME NEW e \in Eid, NEW s, SetState(e, s)
  PROVE  \/ Undefined("handler")
         \/ /\ ~UpdateIsUndefined(entity_list[e], s)
            /\ \E declared \in DeclareResults :
                 SetEntity(e, UpdateEntityState(entity_list[e], s, declared),
                              UpdateOrphans(entity_list[e], s))
            /\ Reply(Status(IF UpdateReturns(entity_list[e], s)
                            THEN STATUS_OK ELSE STATUS_ERR))
            /\ curr_msg' = NoMsg
            /\ UNCHANGED <<phase, el_idx, fault>>
<1> DEFINE v == IF UpdateReturns(entity_list[e], s) THEN STATUS_OK ELSE STATUS_ERR
<1>1. SendStatus(v) = Status(v) /\ Status(v) # NoMsg
  BY StatusIsSent
<1> QED
  BY <1>1 DEF SetState, Finish, Waiting

LEMMA RenameEffect ==
  ASSUME NEW e \in Eid, NEW ke \in KeyExprs, Rename(e, ke)
  PROVE  \/ Undefined("handler")
         \/ /\ ~RenameIsUndefined(entity_list[e], ke)
            /\ \E declared \in DeclareResults :
                 SetEntity(e, RenameEntity(entity_list[e], ke, declared),
                              RenameOrphans(entity_list[e], ke))
            /\ Reply(Status(STATUS_OK))
            /\ curr_msg' = NoMsg
            /\ UNCHANGED <<phase, el_idx, fault>>
<1>1. SendStatus(STATUS_OK) = Status(STATUS_OK) /\ Status(STATUS_OK) # NoMsg
  BY StatusIsSent
<1> QED
  BY <1>1 DEF Rename, Finish, Waiting

\* An id past the table is answered with nothing and changes nothing.
LEMMA UnknownIdEffect ==
  ASSUME TypeOK, curr_msg = NoMsg, NEW id \in EntityIds, ReceivedId(id) >= ElSize
  PROVE  /\ \A s : SetEntityState(id, s) => reply' = NoMsg
         /\ \A ke : SetEntityKeyexpr(id, ke) => reply' = NoMsg
         /\ SetEntityConfig(id) => reply' = NoMsg
<1>1. ReceivedId(id) \in Int /\ EntityNb \in Int /\ 0 <= EntityNb
  <2>1. UINT16_MAX \in Int
    BY DEF UINT16_MAX
  <2> QED
    BY <2>1, ReceivedIdType, NodeAssumption DEF Uint16
<1>2. ~(ReceivedId(id) < ElSize) /\ ReceivedId(id) # 0 /\ ReceivedId(id) \notin 1 .. EntityNb
  BY <1>1 DEF ElSize
<1>3. AnswerOnly(NoMsg) => reply' = NoMsg
  BY DEF AnswerOnly, Finish, Reply, Waiting
<1> QED
  BY <1>2, <1>3 DEF SetEntityState, SetEntityKeyexpr, SetEntityConfig

-----------------------------------------------------------------------------
(* NInv is inductive.                                                       *)

LEMMA InitN == Init => NInv
<1> SUFFICES ASSUME Init PROVE NInv
  OBVIOUS
<1>1. ASSUME NEW ent \in MallocedSlots PROVE Fits(ent) /\ Typed(ent)
  BY KeyExprAssumption DEF MallocedSlots, ZeroSlot, WildSlots, Fits, Typed, Types
<1>2. rx_id \in Uint8
  BY DEF Init, Uint8
<1>3. \A e \in Eid : entity_list[e] \in MallocedSlots
  BY DEF Init
<1> QED
  BY <1>1, <1>2, <1>3, InitType DEF Init, NInv

\* A step that writes one slot and one that writes none.
LEMMA SetEntityN ==
  ASSUME NInv, TypeOK', NEW e \in Eid, NEW ent \in Entities, NEW lost, SetEntity(e, ent, lost),
         Fits(ent), Typed(ent), curr_msg' = NoMsg, OneByteIds => rx_id' \in Uint8,
         phase # "closed"
  PROVE  NInv'
<1>1. entity_list' = [entity_list EXCEPT ![e] = ent] /\ entity_list \in [Eid -> Entities]
  BY DEF SetEntity, NInv, TypeOK
<1>2. ASSUME NEW f \in Eid PROVE Fits(entity_list'[f]) /\ Typed(entity_list'[f])
  BY <1>1 DEF NInv
<1> QED
  BY <1>2 DEF NInv, OneByteIds

LEMMA SameEntitiesN ==
  ASSUME NInv, TypeOK', UNCHANGED <<phase, entity_list>>, curr_msg' = NoMsg,
         OneByteIds => rx_id' \in Uint8
  PROVE  NInv'
  BY DEF NInv, OneByteIds

\* The id a command leaves in the static payload.
LEMMA GetDataN ==
  ASSUME NInv, NEW id \in EntityIds, GetData(id)
  PROVE  OneByteIds => rx_id' \in Uint8
  BY ByteIdArrives DEF GetData, OneByteIds

LEMMA HandlerN ==
  ASSUME NInv, zdc_cmd_handler
  PROVE  NInv'
<1>1. TypeOK /\ TypeOK' /\ curr_msg = NoMsg
  BY HandlerType DEF NInv
<1>2. Receiving /\ phase # "closed"
  BY DEF zdc_cmd_handler, SetEntityState, SetEntityKeyexpr, SetEntityConfig, ListEntities,
         Unexecuted, EmptyQuery, Receiving, Listening
<1>3. ASSUME NEW msg, AnswerOnly(msg), OneByteIds => rx_id' \in Uint8 PROVE NInv'
  BY <1>1, <1>3, SameEntitiesN DEF AnswerOnly, Finish
<1>4. ASSUME NEW kind, Undefined(kind), OneByteIds => rx_id' \in Uint8 PROVE NInv'
  BY <1>1, <1>4, SameEntitiesN DEF Undefined
<1>5. rx_id' = rx_id => (OneByteIds => rx_id' \in Uint8)
  BY DEF NInv
<1>6. ASSUME NEW id \in EntityIds, NEW s \in StateVals, SetEntityState(id, s)
      PROVE  NInv'
  <2>1. OneByteIds => rx_id' \in Uint8
    BY <1>6, GetDataN DEF SetEntityState
  <2>2. ASSUME NEW e \in Eid, SetState(e, s), ~Undefined("handler") PROVE NInv'
    <3>1. PICK declared \in DeclareResults :
            SetEntity(e, UpdateEntityState(entity_list[e], s, declared),
                         UpdateOrphans(entity_list[e], s))
      BY <2>2, SetStateEffect
    <3>2. ~UpdateIsUndefined(entity_list[e], s) /\ curr_msg' = NoMsg
      BY <2>2, SetStateEffect
    <3>3. entity_list[e] \in Entities /\ Fits(entity_list[e]) /\ Typed(entity_list[e])
      BY <1>2 DEF NInv, TypeOK
    <3>4. UpdateEntityState(entity_list[e], s, declared) \in Entities
      BY <3>2, <3>3, UpdateType, NodeAssumption
    <3> QED
      BY <1>1, <1>2, <2>1, <3>1, <3>2, <3>3, <3>4, UpdateFits, SetEntityN
  <2>3. 1 .. EntityNb \subseteq Eid
    BY NodeAssumption DEF Eid
  <2> QED
    BY <1>3, <1>4, <1>6, <2>1, <2>2, <2>3 DEF SetEntityState
<1>7. ASSUME NEW id \in EntityIds, NEW ke \in KeyExprs, SetEntityKeyexpr(id, ke)
      PROVE  NInv'
  <2>1. OneByteIds => rx_id' \in Uint8
    BY <1>7, GetDataN DEF SetEntityKeyexpr
  <2>2. ASSUME NEW e \in Eid, Rename(e, ke), ~Undefined("handler") PROVE NInv'
    <3>1. PICK declared \in DeclareResults :
            SetEntity(e, RenameEntity(entity_list[e], ke, declared),
                         RenameOrphans(entity_list[e], ke))
      BY <2>2, RenameEffect
    <3>2. ~RenameIsUndefined(entity_list[e], ke) /\ curr_msg' = NoMsg
      BY <2>2, RenameEffect
    <3>3. entity_list[e] \in Entities /\ Typed(entity_list[e])
      BY <1>2 DEF NInv, TypeOK
    <3>4. RenameEntity(entity_list[e], ke, declared) \in Entities
      BY <3>2, <3>3, RenameType, NodeAssumption
    <3>5. entity_list[e].type \in Types
      BY <3>2, <3>3 DEF Typed, RenameIsUndefined
    <3>6. /\ Fits(RenameEntity(entity_list[e], ke, declared))
          /\ Typed(RenameEntity(entity_list[e], ke, declared))
      BY <3>3, <3>5, RenameKeeps DEF Fits, Typed
    <3> QED
      BY <1>1, <1>2, <2>1, <3>1, <3>2, <3>4, <3>6, SetEntityN
  <2> QED
    BY <1>1, <1>3, <1>4, <1>7, <2>1, <2>2, ReceivedIdType DEF SetEntityKeyexpr
<1>8. ASSUME NEW id \in EntityIds, SetEntityConfig(id) PROVE NInv'
  BY <1>3, <1>8, GetDataN DEF SetEntityConfig
<1>9. CASE ListEntities
  BY <1>3, <1>4, <1>5, <1>9 DEF ListEntities
<1>10. CASE Unexecuted
  BY <1>3, <1>5, <1>10 DEF Unexecuted
<1>11. CASE EmptyQuery
  BY <1>1, <1>5, <1>11, SameEntitiesN DEF EmptyQuery
<1> QED
  BY <1>6, <1>7, <1>8, <1>9, <1>10, <1>11 DEF zdc_cmd_handler

\* A slot the application writes is typed and holds its string.
LEMMA NewEntityN ==
  ASSUME NEW e, NEW type \in Types, NEW state, NEW ke \in KeyExprs
  PROVE  Fits(NewEntity(e, type, state, ke)) /\ Typed(NewEntity(e, type, state, ke))
  BY NewSizeType DEF NewEntity, Fits, Typed

LEMMA MainInitN ==
  ASSUME NInv, NEW ke \in KeyExprs, MainInit(ke)
  PROVE  NInv'
<1> DEFINE new == NewEntity(0, "QUERYABLE", OFF, ke)
<1>1. TypeOK' /\ curr_msg' = NoMsg /\ UNCHANGED rx_id /\ phase # "closed" /\ 0 \in Eid
  BY MainInitType, EidType DEF NInv, MainInit
<1>2. new \in Entities /\ new.ke_suffix \in KeyExprs
  BY NewEntityType, EidType DEF NInv, Types, NewEntity
<1>3. Fits(new) /\ Typed(new)
  BY NewEntityN DEF Types
<1>4. PICK declared \in DeclareResults : SetEntity(0, UpdateEntityState(new, ON, declared), {})
  BY DEF MainInit
<1>5. UpdateEntityState(new, ON, declared) \in Entities
  BY <1>2, UpdateType, SmallStates, NodeAssumption DEF UpdateIsUndefined, SwitchIsUndefined
<1> HIDE DEF new
<1> QED
  BY <1>1, <1>2, <1>3, <1>4, <1>5, UpdateFits, SetEntityN DEF NInv

LEMMA AddEntityN ==
  ASSUME NInv, NEW type \in Types, NEW on \in BOOLEAN, NEW ke \in KeyExprs,
         AddEntity(type, on, ke)
  PROVE  NInv'
<1> DEFINE new    == NewEntity(el_idx, type, INVALID, ke)
           target == IF on THEN ON ELSE OFF
<1>1. TypeOK' /\ UNCHANGED rx_id /\ phase # "closed"
  BY AddEntityType DEF NInv, AddEntity
<1>2. el_idx \in Eid
  BY NodeAssumption DEF AddEntity, NInv, TypeOK, Eid, ElSize
<1>3. new \in Entities /\ Fits(new) /\ Typed(new)
  BY <1>2, NewEntityType, NewEntityN DEF NInv
<1>4. CASE UpdateIsUndefined(new, target)
  BY <1>1, <1>4, SameEntitiesN DEF AddEntity, Undefined, NInv
<1>5. CASE ~UpdateIsUndefined(new, target)
  <2>1. PICK declared \in DeclareResults :
          SetEntity(el_idx, UpdateEntityState(new, target, declared),
                            UpdateOrphans(new, target))
    BY <1>5 DEF AddEntity
  <2>2. curr_msg' = NoMsg
    BY <1>5 DEF AddEntity, NInv
  <2>3. target \in Uint8
    BY SmallStates
  <2> HIDE DEF new, target
  <2>4. UpdateEntityState(new, target, declared) \in Entities
    BY <1>3, <1>5, <2>3, UpdateType, NodeAssumption
  <2> QED
    BY <1>1, <1>2, <1>3, <2>1, <2>2, <2>4, UpdateFits, SetEntityN DEF NInv
<1> QED
  BY <1>4, <1>5

LEMMA CloseN ==
  ASSUME NInv, Close
  PROVE  NInv'
<1>1. TypeOK' /\ UNCHANGED rx_id
  BY CloseType DEF NInv, Close
<1>2. CASE Undefined("application")
  BY <1>1, <1>2, SameEntitiesN DEF Undefined, NInv
<1>3. CASE ~Undefined("application")
  <2>1. /\ entity_list' = [e \in Eid |-> CloseEntity(entity_list[e])]
        /\ phase' = "closed" /\ UNCHANGED curr_msg
    BY <1>3 DEF Close
  <2>2. ASSUME NEW e \in Eid PROVE Fits(CloseEntity(entity_list[e]))
    <3>1. entity_list[e] \in Entities
      BY DEF NInv, TypeOK
    <3>2. CloseEntity(entity_list[e]).ke_suffix = Freed
      BY <3>1, UpdateKeeps DEF CloseEntity, Entities
    <3> QED
      BY <3>2, KeyExprAssumption DEF Fits
  <2> QED
    BY <1>1, <2>1, <2>2 DEF NInv, OneByteIds
<1> QED
  BY <1>2, <1>3

LEMMA StepN == ASSUME NInv, [Next]_vars PROVE NInv'
<1>1. CASE zdc_cmd_handler
  BY <1>1, HandlerN
<1>2. ASSUME NEW ke \in KeyExprs, MainInit(ke) PROVE NInv'
  BY <1>2, MainInitN
<1>3. ASSUME NEW ke \in KeyExprs, NEW on \in BOOLEAN, AddPubEntity(on, ke) PROVE NInv'
  BY <1>3, AddEntityN DEF AddPubEntity, Types
<1>4. ASSUME NEW ke \in KeyExprs, NEW on \in BOOLEAN, AddSubEntity(on, ke) PROVE NInv'
  BY <1>4, AddEntityN DEF AddSubEntity, Types
<1>5. CASE Close
  BY <1>5, CloseN
<1>6. CASE UNCHANGED vars
  BY <1>6 DEF vars, NInv, TypeOK, Messages, OneByteIds
<1> QED
  BY <1>1, <1>2, <1>3, <1>4, <1>5, <1>6 DEF Next, Application

\* For all states commands may carry and everything zenoh may refuse.
THEOREM NodeInvariance == Spec => []NInv
<1>1. Init => NInv
  BY InitN
<1>2. NInv /\ [Next]_vars => NInv'
  BY StepN
<1> QED
  BY <1>1, <1>2, PTL DEF Spec

-----------------------------------------------------------------------------
(* The properties.                                                          *)

\* No rename, early or late, stores a string its slot has no room for: the
\* strcpy of the next one and the memcpy into the list stay in bounds.
THEOREM StringsAlwaysFit == Spec => []StringsFit
<1>1. NInv => StringsFit
  BY DEF NInv, StringsFit, Fits
<1> QED
  BY <1>1, NodeInvariance, PTL

\* What the node does not execute it does not answer with an old message.
THEOREM RejectedIsSilent == Spec => RejectedGetsNoReply
<1>1. NInv /\ [Next]_vars =>
        [(\/ Unexecuted \/ EmptyQuery
          \/ \E id \in EntityIds : /\ ReceivedId(id) >= ElSize
                                   /\ \/ \E s \in StateVals : SetEntityState(id, s)
                                      \/ \E ke \in KeyExprs : SetEntityKeyexpr(id, ke)
                                      \/ SetEntityConfig(id))
         => reply' = NoMsg]_vars
  <2>1. ASSUME NInv, Unexecuted \/ EmptyQuery PROVE reply' = NoMsg
    BY <2>1 DEF NInv, Unexecuted, EmptyQuery, AnswerOnly, Finish, Reply, Waiting
  <2>2. ASSUME NInv, NEW id \in EntityIds, ReceivedId(id) >= ElSize,
               \/ \E s \in StateVals : SetEntityState(id, s)
               \/ \E ke \in KeyExprs : SetEntityKeyexpr(id, ke)
               \/ SetEntityConfig(id)
        PROVE  reply' = NoMsg
    BY <2>2, UnknownIdEffect DEF NInv
  <2> QED
    BY <2>1, <2>2
<1> QED
  BY <1>1, NodeInvariance, PTL DEF Spec, RejectedGetsNoReply

\* A rename, whatever states the commands before it have stored, overwrites
\* no handle of a live declaration.
THEOREM RenamesOrphanNothing == Spec => RenameNeverOrphans
<1>1. NInv /\ [Next]_vars =>
        [\A id \in EntityIds, ke \in KeyExprs :
           SetEntityKeyexpr(id, ke) => orphans' = orphans]_vars
  <2> SUFFICES ASSUME NInv, NEW id \in EntityIds, NEW ke \in KeyExprs,
                      SetEntityKeyexpr(id, ke)
               PROVE  orphans' = orphans
    OBVIOUS
  <2>1. ASSUME NEW e \in Eid, Rename(e, ke) PROVE orphans' = orphans
    <3>1. RenameOrphans(entity_list[e], ke) = {}
      BY RenameOrphansNone DEF NInv, TypeOK
    <3> QED
      BY <2>1, <3>1, RenameEffect DEF SetEntity, Undefined
  <2> QED
    BY <2>1, ReceivedIdType DEF NInv, SetEntityKeyexpr, AnswerOnly
<1> QED
  BY <1>1, NodeInvariance, PTL DEF Spec, RenameNeverOrphans

\* With one-byte ids and on and off as the only states, and if zenoh refuses
\* nothing, an acknowledged rename reached the entity it named, and left it
\* as on or off, and as declared or not, as it was.  (A refused restart, whose
\* result the code ignores, leaves it on and undeclared.)
THEOREM RenamesKeepTheState ==
  ASSUME OneByteIds, OnOffOnly, FALSE \notin DeclareResults PROVE Spec => RenameKeepsState
<1>1. NInv /\ IInv /\ [Next]_vars =>
        [\A id \in EntityIds \cap Registered, ke \in KeyExprs :
           SetEntityKeyexpr(id, ke) /\ reply' = Status(STATUS_OK) =>
             LET old == entity_list[id]
                 new == entity_list'[id]
             IN /\ new.ke_suffix = ke /\ new.state = old.state
                /\ IsDeclared(new) <=> IsDeclared(old)
                /\ IsDeclared(new) => new.data = ke]_vars
  <2> SUFFICES ASSUME NInv, IInv, NEW id \in EntityIds \cap Registered, NEW ke \in KeyExprs,
                      SetEntityKeyexpr(id, ke), reply' = Status(STATUS_OK)
               PROVE  /\ entity_list'[id].ke_suffix = ke
                      /\ entity_list'[id].state = entity_list[id].state
                      /\ IsDeclared(entity_list'[id]) <=> IsDeclared(entity_list[id])
                      /\ IsDeclared(entity_list'[id]) => entity_list'[id].data = ke
    OBVIOUS
  <2>1. ReceivedId(id) = id /\ id \in Eid /\ id < el_idx
    BY ByteIdArrives, NodeAssumption DEF Registered, IInv, TypeOK, Eid, ElSize
  <2>2. ~(id >= ElSize)
    BY <2>1, NodeAssumption DEF Eid, ElSize
  <2>3. Rename(id, ke)
    BY <2>1, <2>2 DEF SetEntityKeyexpr
  <2>4. ~Undefined("handler")
    BY StatusIsSent DEF Undefined
  <2>5. PICK declared \in DeclareResults :
          SetEntity(id, RenameEntity(entity_list[id], ke, declared),
                        RenameOrphans(entity_list[id], ke))
    BY <2>1, <2>3, <2>4, RenameEffect
  <2>6. entity_list'[id] = RenameEntity(entity_list[id], ke, declared)
    BY <2>1, <2>5 DEF SetEntity, NInv, TypeOK
  <2>7. entity_list[id] \in Entities /\ AddedConsistent(entity_list[id])
    BY <2>1 DEF SetEntityKeyexpr, Receiving, Listening, IInv, TypeOK, SlotsConsistent
  <2> DEFINE old == entity_list[id]
             new == RenameEntity(entity_list[id], ke, declared)
  <2>8. /\ AddedConsistent(new) /\ new.state = old.state /\ new.type = old.type
        /\ new.ke_suffix = ke
    BY <2>7, RenameAdded
  <2> HIDE DEF old, new
  <2>9. AddedConsistent(old)
    BY <2>7 DEF old
  <2>10. /\ IsDeclared(new) <=> IsDeclared(old)
         /\ IsDeclared(new) => new.data = ke
    BY <2>8, <2>9 DEF AddedConsistent, IsDeclared
  <2> QED
    BY <2>6, <2>8, <2>10 DEF old, new
<1> QED
  BY <1>1, NodeInvariance, Invariance, PTL DEF Spec, RenameKeepsState

\* With one-byte ids, and if zenoh takes the replies, every command that
\* names an entity of the node is answered; node_wide_ids shows a larger id
\* that is not.
THEOREM ValidIdsAreAnswered ==
  ASSUME OneByteIds, FALSE \notin ReplyResults PROVE Spec => ValidIdIsAnswered
<1>1. NInv /\ [Next]_vars =>
        [\A id \in EntityIds \cap Eid :
           /\ \/ \E s \in StateVals : SetEntityState(id, s)
              \/ \E ke \in KeyExprs : SetEntityKeyexpr(id, ke)
              \/ SetEntityConfig(id)
           /\ fault' = "none"
           => reply' # NoMsg]_vars
  <2> SUFFICES ASSUME NInv, NEW id \in EntityIds \cap Eid,
                      \/ \E s \in StateVals : SetEntityState(id, s)
                      \/ \E ke \in KeyExprs : SetEntityKeyexpr(id, ke)
                      \/ SetEntityConfig(id),
                      fault' = "none"
               PROVE  reply' # NoMsg
    OBVIOUS
  <2>1. ReceivedId(id) = id /\ id \in Eid
    BY ByteIdArrives
  <2>2. ~(id >= ElSize)
    BY <2>1, NodeAssumption DEF Eid, ElSize
  <2>3. ASSUME NEW v \in {STATUS_OK, STATUS_ERR}, Reply(Status(v)) PROVE reply' # NoMsg
    BY <2>3, StatusIsSent, ReplyIsTaken
  <2>4. ~Undefined("handler")
    BY DEF Undefined
  <2>5. ASSUME NEW s \in StateVals, SetEntityState(id, s) PROVE reply' # NoMsg
    <3>1. CASE AnswerOnly(SendStatus(STATUS_ERR))
      BY <2>3, <3>1, AnswerOnlyEffect
    <3>2. CASE SetState(id, s)
      BY <2>1, <2>3, <2>4, <3>2, SetStateEffect
    <3> QED
      BY <2>1, <2>2, <2>5, <3>1, <3>2 DEF SetEntityState
  <2>6. ASSUME NEW ke \in KeyExprs, SetEntityKeyexpr(id, ke) PROVE reply' # NoMsg
    <3>1. Rename(id, ke)
      BY <2>1, <2>2, <2>6 DEF SetEntityKeyexpr
    <3> QED
      BY <2>1, <2>3, <2>4, <3>1, RenameEffect
  <2>7. ASSUME SetEntityConfig(id) PROVE reply' # NoMsg
    BY <2>1, <2>2, <2>3, <2>7, AnswerOnlyEffect DEF SetEntityConfig
  <2> QED
    BY <2>5, <2>6, <2>7
<1> QED
  BY <1>1, NodeInvariance, PTL DEF Spec, ValidIdIsAnswered

\* With one-byte ids and on and off as the only states, and if zenoh refuses
\* nothing, an acknowledged set_entity_state was carried out on the entity
\* it named, in the table and in the session, and on no other.
THEOREM AcknowledgedIsDone ==
  ASSUME OneByteIds, OnOffOnly, FALSE \notin DeclareResults PROVE Spec => AckMeansDone
<1>1. NInv /\ IInv /\ [Next]_vars =>
        [\A id \in EntityIds \cap Registered, s \in {OFF, ON} :
           SetEntityState(id, s) /\ reply' = Status(STATUS_OK) =>
             LET ent == entity_list'[id]
             IN /\ ent.state = s
                /\ ent.type \in Declarable => (IsDeclared(ent) <=> s = ON)
                /\ \A e \in Eid \ {id} : entity_list'[e] = entity_list[e]]_vars
  <2> SUFFICES ASSUME NInv, IInv, NEW id \in EntityIds \cap Registered, NEW s \in {OFF, ON},
                      SetEntityState(id, s), reply' = Status(STATUS_OK)
               PROVE  /\ entity_list'[id].state = s
                      /\ entity_list'[id].type \in Declarable
                           => (IsDeclared(entity_list'[id]) <=> s = ON)
                      /\ \A e \in Eid \ {id} : entity_list'[e] = entity_list[e]
    OBVIOUS
  <2>1. ReceivedId(id) = id /\ id \in Eid /\ id < el_idx
    BY ByteIdArrives, NodeAssumption DEF Registered, IInv, TypeOK, Eid, ElSize
  <2>2. ~(id >= ElSize)
    BY <2>1, NodeAssumption DEF Eid, ElSize
  <2>3. Status(STATUS_ERR) # Status(STATUS_OK)
    BY DEF Status, STATUS_ERR, STATUS_OK
  <2>4. SetState(id, s)
    BY <2>1, <2>2, <2>3, StatusIsSent, AnswerOnlyEffect DEF SetEntityState, Reply
  <2>5. ~Undefined("handler")
    BY StatusIsSent DEF Undefined
  <2>6. PICK declared \in DeclareResults :
          SetEntity(id, UpdateEntityState(entity_list[id], s, declared),
                        UpdateOrphans(entity_list[id], s))
    BY <2>1, <2>4, <2>5, SetStateEffect
  <2>7. /\ entity_list' = [entity_list EXCEPT ![id] =
                             UpdateEntityState(entity_list[id], s, declared)]
        /\ entity_list \in [Eid -> Entities]
    BY <2>6 DEF SetEntity, IInv, TypeOK
  <2>8. entity_list[id] \in Entities /\ AddedConsistent(entity_list[id])
    BY <2>1 DEF SetEntityState, Receiving, Listening, IInv, TypeOK, SlotsConsistent
  <2>9. /\ UpdateEntityState(entity_list[id], s, declared).state = s
        /\ AddedConsistent(UpdateEntityState(entity_list[id], s, declared))
    BY <2>8, UpdateAdded
  <2> QED
    BY <2>1, <2>7, <2>9, SmallStates DEF AddedConsistent, IsDeclared
<1> QED
  BY <1>1, NodeInvariance, Invariance, PTL DEF Spec, AckMeansDone

-----------------------------------------------------------------------------
(* The buffer of the list.                                                  *)

\* Past the fault nothing runs, and nothing faults before the node is up.
BufferInv ==
  /\ OnlyLongKeyexprsOverrun
  /\ phase = "boot" => fault = "none"

\* Entries of 64 bytes and less each stay in 64 bytes for each.
LEMMA ListIsShort ==
  ASSUME TypeOK, \A e \in Eid : ~(entity_list[e].ke_size > EntryRoom)
  PROVE  ~(ListSize > ListBuffer)
<1>1. ElSize \in Nat /\ Eid = 0 .. ElSize - 1
  BY NodeAssumption DEF ElSize, Eid
<1>2. \A e \in Eid : entity_list[e].ke_size \in Nat /\ entity_list[e].ke_size <= 61
  BY DEF TypeOK, Entities, EntryRoom
<1>3. Sized(entity_list, ElSize)
  BY <1>1, <1>2 DEF Sized
<1>4. ListSize <= ListBuffer
  BY <1>1, <1>2, <1>3, ListIdxBound DEF ListSize, ListBuffer
<1>5. ListSize \in Int /\ ListBuffer \in Int
  BY <1>1, <1>3, ListIdxGrows DEF ListSize, ListBuffer
<1> QED
  BY <1>4, <1>5

LEMMA HandlerB ==
  ASSUME TypeOK, zdc_cmd_handler
  PROVE  BufferInv'
<1>1. phase = "up" /\ phase' = "up" /\ fault = "none"
  BY DEF zdc_cmd_handler, SetEntityState, SetState, SetEntityKeyexpr, Rename, SetEntityConfig,
         ListEntities, Unexecuted, EmptyQuery, AnswerOnly, Undefined, Receiving, Listening
<1>2. CASE fault' = "overrun"
  <2>1. ListSize > ListBuffer /\ UNCHANGED entity_list
    BY <1>1, <1>2
    DEF zdc_cmd_handler, SetEntityState, SetState, SetEntityKeyexpr, Rename, SetEntityConfig,
        ListEntities, Unexecuted, EmptyQuery, AnswerOnly, Undefined
  <2>2. \E e \in Eid : entity_list[e].ke_size > EntryRoom
    BY <2>1, ListIsShort
  <2> QED
    BY <1>1, <2>1, <2>2 DEF BufferInv, OnlyLongKeyexprsOverrun
<1> QED
  BY <1>1, <1>2 DEF BufferInv, OnlyLongKeyexprsOverrun

LEMMA ApplicationB ==
  ASSUME BufferInv, Application
  PROVE  BufferInv'
<1>1. fault = "none" /\ phase' # "boot" /\ fault' \in {"none", "application"}
  BY DEF BufferInv, Application, MainInit, AddPubEntity, AddSubEntity, AddEntity, Close,
         Undefined
<1> QED
  BY <1>1 DEF BufferInv, OnlyLongKeyexprsOverrun

\* For any key expressions and any renames: the entries of a list only leave
\* the 64 * el_size bytes node B mallocs for it when a slot was given a key
\* expression of more than 60 characters.  (node_any_state reaches such lists.)
THEOREM OverrunNeedsLongKeys == Spec => []OnlyLongKeyexprsOverrun
<1>1. Init => BufferInv
  BY DEF Init, BufferInv, OnlyLongKeyexprsOverrun
<1>2. NInv /\ BufferInv /\ [Next]_vars => BufferInv'
  <2>1. ASSUME BufferInv, UNCHANGED vars PROVE BufferInv'
    BY <2>1 DEF vars, BufferInv, OnlyLongKeyexprsOverrun
  <2> QED
    BY <2>1, HandlerB, ApplicationB DEF Next, NInv
<1>3. BufferInv => OnlyLongKeyexprsOverrun
  BY DEF BufferInv
<1> QED
  BY <1>1, <1>2, <1>3, NodeInvariance, PTL DEF Spec
=============================================================================
