------------------------------ MODULE ZdcNode ------------------------------
(***************************************************************************)
(* Node B, the configured node (zdc_Main_b.c, LCSF_Bridge_zdc_b.c and the  *)
(* set-up in main_rx.c), one action per operation.                         *)
(*                                                                         *)
(* Two threads drive the node: the application calls zdc_MainInit, the     *)
(* zdc_add_*_entity functions and zdc_close; zenoh-pico's read task calls  *)
(* zdc_cmd_handler for every query.  The read task already runs when the   *)
(* application calls zdc_MainInit, so commands arrive as soon as slot 0's  *)
(* queryable is declared, before the other slots are written.  Here every  *)
(* operation is atomic.                                                    *)
(***************************************************************************)
EXTENDS ZdcEntity, FiniteSets

CONSTANTS
  EntityNb,       (* entity_nb: the slots the application will add.         *)
  BuffSize,       (* buff_size: bytes of the send buffer.                   *)
  StatusSize,     (* Bytes of an encoded cmd_status.                        *)
  ListOverhead,   (* Bytes LCSF adds to an encoded entity list.             *)
  EntityIds,      (* Entity ids the commands carry.                         *)
  StateVals,      (* States the set_entity_state commands carry.            *)
  DeclareResults, (* Can zenoh accept (TRUE), refuse (FALSE) a declaration? *)
  ReplyResults,   (* Can zenoh take (TRUE), refuse (FALSE) a reply?         *)
  NoMsg           (* No message.                                            *)

\* el_idx is a uint8_t and el_size a uint16_t: with at most 255 slots neither
\* wraps.  A cmd_status fits the send buffer.
ASSUME NodeAssumption ==
  /\ EntityNb \in 0 .. 254
  /\ EntityIds \subseteq Uint16 /\ StateVals \subseteq Uint8
  /\ DeclareResults \subseteq BOOLEAN /\ DeclareResults # {}
  /\ ReplyResults \subseteq BOOLEAN /\ ReplyResults # {}
  /\ BuffSize \in Uint16 /\ StatusSize \in 1 .. BuffSize /\ ListOverhead \in Nat

ElSize == EntityNb + 1
Eid    == 0 .. EntityNb

\* Faulty variant: too little for an entry with a default key expression.
ListBufferOf16 == 16 * ElSize

\* Bytes allocated for the serialised list.
ListBuffer == 64 * ElSize

VARIABLES
  phase,        (* "boot", "up" (zdc_MainInit has returned) or "closed".      *)
  el_idx,       (* The next slot the application fills.                       *)
  entity_list,  (* The slots.                                                 *)
  orphans,      (* Live declarations no slot has the handle of: <<eid, ke>>.  *)
  rx_id,        (* entity_id in the bridge's static command payload.          *)
  curr_msg,     (* pSendBuffer's message while curr_msg_size is not 0.        *)
  reply,        (* What the last query was answered, NoMsg if nothing.        *)
  fault         (* Undefined behaviour reached: the run has no meaning after. *)

vars == <<phase, el_idx, entity_list, orphans, rx_id, curr_msg, reply, fault>>

-----------------------------------------------------------------------------
(* Messages.  A list entry is what zdcExecutelist_entities_req writes: the  *)
(* type, state and length bytes, then the key expression.                   *)

Status(v) == [cmd |-> "CMD_STATUS", status |-> v]

ListEntry(ent) == [type |-> ent.type, state |-> ent.state % 256,
                   ke_len |-> ent.ke_size % 256, ke |-> ent.ke_suffix]

ListResp == [cmd |-> "LIST_ENTITIES_RESP",
             entities |-> [e \in Eid |-> ListEntry(entity_list[e])]]

ListSize == ListIdx(entity_list, ElSize)[ElSize]

\* zdcSendCommand: the encoded message, or NoMsg when it does not fit.
SendCommand(msg, size) == IF size <= BuffSize THEN msg ELSE NoMsg
SendStatus(v)          == SendCommand(Status(v), StatusSize)

Messages ==
  [cmd : {"CMD_STATUS"}, status : {STATUS_OK, STATUS_ERR}] \cup
  [cmd : {"LIST_ENTITIES_RESP"},
   entities : [Eid -> [type : Types \cup {BadType}, state : Uint8, ke_len : Uint8,
                       ke : KeyExprs \cup {NULL, Wild, Freed}]]]

ASSUME MessageAssumption == NoMsg \notin Messages

-----------------------------------------------------------------------------
(* zdc_cmd_handler: dispatch, and the reply after the command was executed. *)

\* Zenoh dispatches a query to the handler while the queryable is declared.
Listening == phase = "up" /\ IsDeclared(entity_list[0])
Receiving == Listening /\ fault = "none"

\* The message that waits in the send buffer once the command was executed;
\* encoded is what the command put there, if anything.
Waiting(encoded) == IF encoded # NoMsg THEN encoded ELSE curr_msg

\* What reaches the controller: z_query_reply may fail.
Reply(msg) == \E taken \in ReplyResults : reply' = IF taken THEN msg ELSE NoMsg

\* Faulty variant: curr_msg_size is only reset once the reply was sent.
FinishKeepsRefused(encoded) ==
  /\ Reply(Waiting(encoded))
  /\ curr_msg' = IF reply' = NoMsg THEN Waiting(encoded) ELSE NoMsg

\* The handler answers with whatever the send buffer holds, and empties it
\* whether or not zenoh took the reply.
Finish(encoded) ==
  /\ Reply(Waiting(encoded))
  /\ curr_msg' = NoMsg

\* A pointer or handle that was never written is used, by the handler or by
\* the application, or a buffer is overrun: nothing is defined past this.
Undefined(kind) ==
  /\ fault' = kind /\ reply' = NoMsg
  /\ UNCHANGED <<phase, el_idx, entity_list, orphans, curr_msg>>

\* The bridge copies the attribute into its static payload and the command
\* reads the id back from there.
ReceivedId(id) == CopyUint16(rx_id, id)
GetData(id)    == rx_id' = ReceivedId(id)

\* Slot e becomes ent, declarations lost on the way stay with the session.
SetEntity(e, ent, lost) ==
  /\ entity_list' = [entity_list EXCEPT ![e] = ent]
  /\ orphans' = orphans \cup {<<e, ke>> : ke \in lost}

\* A command that leaves every slot alone and answers msg.
AnswerOnly(msg) ==
  /\ Finish(msg)
  /\ UNCHANGED <<phase, el_idx, entity_list, orphans, fault>>

-----------------------------------------------------------------------------
(* The commands.                                                            *)

SetState(e, s) ==
  IF UpdateIsUndefined(entity_list[e], s)
  THEN Undefined("handler")
  ELSE /\ \E declared \in DeclareResults :
            SetEntity(e, UpdateEntityState(entity_list[e], s, declared),
                         UpdateOrphans(entity_list[e], s))
       /\ Finish(SendStatus(IF UpdateReturns(entity_list[e], s)
                            THEN STATUS_OK ELSE STATUS_ERR))
       /\ UNCHANGED <<phase, el_idx, fault>>

\* Faulty variant: the zdcp entity is not protected.
SetEntityStateOfAny(id, s) ==
  /\ Receiving
  /\ GetData(id)
  /\ \/ ReceivedId(id) >= ElSize /\ AnswerOnly(NoMsg)
     \/ ReceivedId(id) < ElSize /\ SetState(ReceivedId(id), s)

SetEntityState(id, s) ==
  /\ Receiving
  /\ GetData(id)
  /\ \/ ReceivedId(id) >= ElSize /\ AnswerOnly(NoMsg)
     \/ ReceivedId(id) = 0 /\ AnswerOnly(SendStatus(STATUS_ERR))
     \/ ReceivedId(id) \in 1 .. EntityNb /\ SetState(ReceivedId(id), s)

Rename(e, ke) ==
  IF RenameIsUndefined(entity_list[e], ke)
  THEN Undefined("handler")
  ELSE /\ \E declared \in DeclareResults :
            SetEntity(e, RenameEntity(entity_list[e], ke, declared),
                         RenameOrphans(entity_list[e], ke))
       /\ Finish(SendStatus(STATUS_OK))
       /\ UNCHANGED <<phase, el_idx, fault>>

SetEntityKeyexpr(id, ke) ==
  /\ Receiving
  /\ GetData(id)
  /\ \/ ReceivedId(id) >= ElSize /\ AnswerOnly(NoMsg)
     \/ ReceivedId(id) < ElSize /\ Rename(ReceivedId(id), ke)

\* The config itself is not applied: the update is a TODO of the code.
SetEntityConfig(id) ==
  /\ Receiving
  /\ GetData(id)
  /\ \/ ReceivedId(id) >= ElSize /\ AnswerOnly(NoMsg)
     \/ ReceivedId(id) < ElSize /\ AnswerOnly(SendStatus(STATUS_OK))

\* Every slot is serialised, also those the application has not written yet.
ReadsUnwritten == \E e \in Eid : entity_list[e].ke_suffix = Wild

ListEntities ==
  /\ Receiving
  /\ UNCHANGED rx_id
  /\ \/ ReadsUnwritten /\ Undefined("handler")
     \/ ~ReadsUnwritten /\ ListSize > ListBuffer /\ Undefined("overrun")
     \/ /\ ~ReadsUnwritten /\ ListSize <= ListBuffer
        /\ AnswerOnly(SendCommand(ListResp, ListOverhead + ListSize))

\* A message LCSF rejects, or a command zdc_MainExecute has no case for.
Unexecuted ==
  /\ Receiving
  /\ UNCHANGED rx_id
  /\ AnswerOnly(NoMsg)

\* A query without payload: the handler returns before it looks at the send
\* buffer.
EmptyQuery ==
  /\ Receiving
  /\ reply' = NoMsg
  /\ UNCHANGED <<phase, el_idx, entity_list, orphans, rx_id, curr_msg, fault>>

zdc_cmd_handler ==
  \/ \E id \in EntityIds :
       \/ \E s \in StateVals : SetEntityState(id, s)
       \/ \E ke \in KeyExprs : SetEntityKeyexpr(id, ke)
       \/ SetEntityConfig(id)
  \/ ListEntities
  \/ Unexecuted
  \/ EmptyQuery

-----------------------------------------------------------------------------
(* The application.                                                         *)

\* A slot as zdc_MainInit and zdc_add_*_entity write it; the handle in the
\* union is not among the fields they set.
NewEntity(e, type, state, ke) ==
  [type |-> type, state |-> state, ke_suffix |-> ke, ke_size |-> NewSize(ke),
   data |-> entity_list[e].data]

MainInit(ke) ==
  /\ phase = "boot"
  /\ \E declared \in DeclareResults :
       SetEntity(0, UpdateEntityState(NewEntity(0, "QUERYABLE", OFF, ke), ON, declared), {})
  /\ phase' = "up" /\ el_idx' = 1 /\ curr_msg' = NoMsg
  /\ UNCHANGED <<rx_id, reply, fault>>

\* zdc_add_pub_entity and zdc_add_sub_entity: the application adds exactly
\* the entity_nb entities it announced to zdc_MainInit.
AddEntity(type, start_on, ke) ==
  LET new    == NewEntity(el_idx, type, INVALID, ke)
      target == IF start_on THEN ON ELSE OFF
  IN /\ phase = "up" /\ fault = "none" /\ el_idx < ElSize
     /\ UNCHANGED rx_id
     /\ IF UpdateIsUndefined(new, target)
        THEN Undefined("application")
        ELSE /\ \E declared \in DeclareResults :
                  SetEntity(el_idx, UpdateEntityState(new, target, declared),
                                    UpdateOrphans(new, target))
             /\ el_idx' = el_idx + 1
             /\ UNCHANGED <<phase, curr_msg, reply, fault>>

AddPubEntity(start_on, ke) == AddEntity("PUB", start_on, ke)
AddSubEntity(start_on, ke) == AddEntity("SUB", start_on, ke)

\* Faulty variant: freed without being stopped.
CloseEntityFreeOnly(ent) == [ent EXCEPT !.ke_suffix = Freed]

\* zdc_close, called after the read task was stopped: entities that are on
\* are stopped, every key expression is freed.
CloseEntity(ent) ==
  [IF ent.state = ON THEN UpdateEntityState(ent, OFF, TRUE) ELSE ent
     EXCEPT !.ke_suffix = Freed]

Close ==
  /\ phase = "up" /\ fault = "none" /\ el_idx = ElSize
  /\ IF \E e \in Eid : entity_list[e].state = ON /\ UpdateIsUndefined(entity_list[e], OFF)
     THEN Undefined("application")
     ELSE /\ entity_list' = [e \in Eid |-> CloseEntity(entity_list[e])]
          /\ phase' = "closed"
          /\ UNCHANGED <<el_idx, orphans, curr_msg, reply, fault>>
  /\ UNCHANGED rx_id

-----------------------------------------------------------------------------
Init ==
  /\ phase = "boot"
  /\ el_idx = 0
  /\ entity_list \in [Eid -> MallocedSlots]
  /\ orphans = {}
  /\ rx_id = 0
  /\ curr_msg = NoMsg /\ reply = NoMsg
  /\ fault = "none"

Application ==
  \/ \E ke \in KeyExprs :
       \/ MainInit(ke)
       \/ \E on \in BOOLEAN : AddPubEntity(on, ke) \/ AddSubEntity(on, ke)
  \/ Close

Next == zdc_cmd_handler \/ Application

Spec == Init /\ [][Next]_vars

-----------------------------------------------------------------------------
(* Properties.                                                              *)

\* The slots the application has added.
Registered == 0 .. el_idx - 1

\* Each variable stays in its range; in particular a state fits its int8_t
\* and the serialised bytes fit theirs.
TypeOK ==
  /\ phase \in {"boot", "up", "closed"}
  /\ el_idx \in 0 .. ElSize
  /\ entity_list \in [Eid -> Entities]
  /\ orphans \subseteq Eid \X KeyExprs
  /\ rx_id \in Uint16
  /\ curr_msg \in Messages \cup {NoMsg}
  /\ reply \in Messages \cup {NoMsg}
  /\ fault \in {"none", "handler", "application", "overrun"}

\* Between operations every added entity is on or off, never left INVALID,
\* and what zenoh knows agrees with it: a subscriber or queryable that is on
\* is declared on its current key expression, one that is off is not
\* declared.  (zdc_update_entity_state, zdcExecuteset_entity_keyexpr)
EntitiesConsistent ==
  phase = "up" => \A e \in Registered :
    LET ent == entity_list[e]
    IN /\ ent.state \in {OFF, ON}
       /\ ent.type \in Declarable =>
            IF ent.state = ON THEN ent.data = ent.ke_suffix ELSE ~IsDeclared(ent)

\* No declaration loses its handle: whatever is declared can be undeclared
\* later.  (the early returns of zdc_update_entity_state)
NoOrphans == orphans = {}

\* Once initialised the node keeps listening for commands: no command
\* sequence takes the zdcp entity off.  (the entity 0 guard of
\* zdcExecuteset_entity_state, the restart of zdcExecuteset_entity_keyexpr)
ControlStaysUp == phase = "up" => Listening /\ entity_list[0].state = ON

\* zdc_close leaves nothing declared: the key expressions it frees and the
\* callbacks of the program are out of zenoh's reach.
CloseReleasesEverything ==
  phase = "closed" => orphans = {} /\ \A e \in Eid : ~IsDeclared(entity_list[e])

\* Whatever zenoh refused before, an entity that is off receives nothing, and
\* one that is declared is so on its current key expression.
OffMeansUndeclared ==
  phase = "up" => \A e \in Registered :
    LET ent == entity_list[e]
    IN /\ IsDeclared(ent) => ent.state = ON /\ ent.data = ent.ke_suffix
       /\ ent.state = OFF => \A ke \in KeyExprs : <<e, ke>> \notin orphans

\* Unwritten memory is only ever followed by a command that arrives while
\* the application is still adding entities: neither the application's own
\* calls nor a command after the last add does.
OnlyEarlyCommandsFault ==
  /\ fault # "application"
  /\ fault = "handler" => el_idx < ElSize

\* What the 64 bytes per entity leave next to the header of an entry.
EntryRoom == 61

\* The serialised list only outgrows the buffer malloc'ed for it when a slot
\* was given more than its share: headers, and strings kept in slots larger
\* than themselves, never add up to it.  (zdcExecutelist_entities_req)
OnlyLongKeyexprsOverrun ==
  fault = "overrun" => \E e \in Eid : entity_list[e].ke_size > EntryRoom

\* A stored key expression, with its terminator, is never longer than the
\* ke_size bytes its slot owns: the strcpy of the next rename and the memcpy
\* of ke_size bytes into the list rely on it, whatever the renames before.
\* (the realloc of zdcExecuteset_entity_keyexpr)
StringsFit ==
  \A e \in Eid : entity_list[e].ke_suffix \in KeyExprs
                => NewSize(entity_list[e].ke_suffix) <= entity_list[e].ke_size

\* A query the node does not execute is not answered with the left-over of
\* an earlier one, not even with one zenoh refused to take.  (curr_msg_size
\* and its reset in zdc_cmd_handler)
RejectedGetsNoReply ==
  [][(\/ Unexecuted \/ EmptyQuery
      \/ \E id \in EntityIds : /\ ReceivedId(id) >= ElSize
                               /\ \/ \E s \in StateVals : SetEntityState(id, s)
                                  \/ \E ke \in KeyExprs : SetEntityKeyexpr(id, ke)
                                  \/ SetEntityConfig(id))
     => reply' = NoMsg]_vars

\* Every command that names an existing entity hands zenoh an answer.
ValidIdIsAnswered ==
  [][\A id \in EntityIds \cap Eid :
       /\ \/ \E s \in StateVals : SetEntityState(id, s)
          \/ \E ke \in KeyExprs : SetEntityKeyexpr(id, ke)
          \/ SetEntityConfig(id)
       /\ fault' = "none"
       => reply' # NoMsg]_vars

\* An acknowledged set_entity_state was carried out on the added entity it
\* named: the state is the requested one, the declaration follows it, and no
\* other entity changed.
AckMeansDone ==
  [][\A id \in EntityIds \cap Registered, s \in {OFF, ON} :
       SetEntityState(id, s) /\ reply' = Status(STATUS_OK) =>
         LET ent == entity_list'[id]
         IN /\ ent.state = s
            /\ ent.type \in Declarable => (IsDeclared(ent) <=> s = ON)
            /\ \A e \in Eid \ {id} : entity_list'[e] = entity_list[e]]_vars

\* An acknowledged change of the key expression leaves an added entity as on
\* or off, and as declared or not, as it was, now on the new key expression:
\* the stop around the change is undone, as long as zenoh accepts.
RenameKeepsState ==
  [][\A id \in EntityIds \cap Registered, ke \in KeyExprs :
       SetEntityKeyexpr(id, ke) /\ reply' = Status(STATUS_OK) =>
         LET old == entity_list[id]
             new == entity_list'[id]
         IN /\ new.ke_suffix = ke /\ new.state = old.state
            /\ IsDeclared(new) <=> IsDeclared(old)
            /\ IsDeclared(new) => new.data = ke]_vars

\* Changing a key expression never loses a declaration, whatever states the
\* entity was put in before: the restart only follows a stop.
RenameNeverOrphans ==
  [][\A id \in EntityIds, ke \in KeyExprs :
       SetEntityKeyexpr(id, ke) => orphans' = orphans]_vars

(* What the program says of itself, and does not keep: the run that checks  *)
(* the following expects a counterexample.                                  *)

\* zdc_MainInit: "return bool: true if operation was a success"; main_rx.c
\* then prints "Listening to zdc commands on".
InitSuccessMeansListening == phase = "up" => Listening
=============================================================================
