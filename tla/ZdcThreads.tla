----------------------------- MODULE ZdcThreads -----------------------------
(***************************************************************************)
(* Node B again, one statement at a time: main_rx.c's main thread, which   *)
(* sets the node up and then publishes, and zenoh-pico's read task, which  *)
(* executes the commands.  Both work on the same table without a lock and  *)
(* both run zdc_update_entity_state.  An action is one access to the table *)
(* or a run of statements that touches nothing the other thread can see.   *)
(***************************************************************************)
EXTENDS ZdcEntity, FiniteSets, Sequences

CONSTANTS
  DefKe,          (* The key expressions main_rx.c passes, by slot.           *)
  Heap,           (* What malloc may leave in a slot.                         *)
  EarlyCommands,  (* Do queries arrive while the entities are being added?    *)
  EntityIds,      (* Entity ids the commands carry.                           *)
  BuffSize, StatusSize, ListOverhead, NoMsg,   (* As in ZdcNode, like the     *)
  DeclareResults, ReplyResults,                (* next two.                   *)
  Torn            (* A string that is being written, or was never written.    *)

\* The entities main_rx.c adds.
Adds == <<[type |-> "PUB", on |-> TRUE], [type |-> "SUB", on |-> FALSE]>>

EntityNb == Len(Adds)
ElSize   == EntityNb + 1
Eid      == 0 .. EntityNb

ASSUME ThreadsAssumption ==
  /\ DefKe \in [Eid -> KeyExprs] /\ Heap \subseteq MallocedSlots
  /\ EarlyCommands \in BOOLEAN /\ EntityIds \subseteq Uint16
  /\ BuffSize \in Uint16 /\ StatusSize \in 1 .. BuffSize /\ ListOverhead \in Nat
  /\ DeclareResults \subseteq BOOLEAN /\ DeclareResults # {}
  /\ ReplyResults \subseteq BOOLEAN /\ ReplyResults # {}
  /\ Torn \notin KeyExprs \cup {NULL, Wild, Freed} /\ NULL \notin {OFF, ON}

\* The entity the publisher loop works for.
Publisher == 1

Thread == {"main", "read"}

VARIABLES
  slots,     (* entity_list.                                                  *)
  el_idx,    (* The next slot to add.                                         *)
  pc,        (* Where each thread is.                                         *)
  upd,       (* Per thread, the zdc_update_entity_state it runs: slot e,      *)
             (* requested state s, result ok, and where it returns to.        *)
  cmd,       (* The read task's command: slot, key expression, restart.       *)
  list,      (* The entity list being serialised, and tmp_idx.                *)
  dangling,  (* The publisher's ke_suffix was freed by a realloc.             *)
  rx_id,     (* entity_id in the bridge's static payload.                     *)
  reply,     (* What the last query was answered.                             *)
  sample,    (* The key expression of the last put, NULL before the first.    *)
  fault      (* Undefined behaviour reached.                                  *)

(* History, read by the properties and the refinement only.                   *)
VARIABLES
  rest,   (* Table and rx_id as the last completed operation left them.       *)
  acked,  (* The last state node B set for each entity with status OK, whether*)
          (* or not zenoh took the reply; NULL if there is none, and while a  *)
          (* command for another state is carried out.                        *)
  late    (* Puts since OFF was acknowledged for the publisher, at most 2.    *)

shared  == <<slots, el_idx, dangling>>
history == <<rest, acked, late>>
vars    == <<slots, el_idx, pc, upd, cmd, list, dangling, rx_id, reply, sample,
             fault, rest, acked, late>>

Node == INSTANCE ZdcNode WITH
  EntityNb       <- EntityNb,
  StateVals      <- {OFF, ON},
  phase          <- IF el_idx = 0 THEN "boot" ELSE "up",
  entity_list    <- rest.slots,
  orphans        <- {},
  rx_id          <- rest.rx_id,
  curr_msg       <- NoMsg,
  fault          <- IF fault = "publisher" THEN "none" ELSE fault

-----------------------------------------------------------------------------
Move(t, from, to) ==
  /\ fault = "none"
  /\ pc[t] = from
  /\ pc' = [pc EXCEPT ![t] = to]

\* Locals of a function that is not running.
NoCall    == [e |-> 0, s |-> OFF, ok |-> TRUE, ret |-> "idle"]
NoCommand == [e |-> 0, ke |-> NULL, restart |-> FALSE]
NoList    == [entries |-> << >>, tmp_idx |-> 0]

\* Thread t enters zdc_update_entity_state(e, s).
Call(t, from, e, s, ret) ==
  /\ Move(t, from, "check")
  /\ upd' = [upd EXCEPT ![t] = [e |-> e, s |-> s, ok |-> TRUE, ret |-> ret]]

SetSlot(e, ent) == slots' = [slots EXCEPT ![e] = ent]

Undefined(kind) ==
  /\ fault' = kind /\ reply' = NoMsg
  /\ UNCHANGED <<shared, pc, upd, cmd, list, rx_id, sample, history>>

\* The operation on slot e is complete.
Complete(e) ==
  rest' = [slots |-> [rest.slots EXCEPT ![e] = slots[e]], rx_id |-> rx_id]

-----------------------------------------------------------------------------
(* zdc_update_entity_state, in either thread.                               *)

UpdateRest == UNCHANGED <<el_idx, cmd, list, dangling, rx_id, reply, sample, history>>

UpdateCheck(t) ==
  LET ent == slots[upd[t].e]
      s   == upd[t].s
  IN /\ Move(t, "check", IF ent.state = s THEN upd[t].ret
                         ELSE IF MustSwitch(ent, s) THEN "mark" ELSE "store")
     /\ UNCHANGED <<slots, upd, fault>> /\ UpdateRest

UpdateMark(t) ==
  /\ Move(t, "mark", "switch")
  /\ SetSlot(upd[t].e, [slots[upd[t].e] EXCEPT !.state = INVALID])
  /\ UNCHANGED <<upd, fault>> /\ UpdateRest

UpdateSwitch(t) ==
  LET e   == upd[t].e
      ent == slots[e]
      s   == upd[t].s
  IN \/ /\ fault = "none" /\ pc[t] = "switch"
        /\ SwitchIsUndefined(ent, s)
        /\ Undefined(IF t = "main" THEN "application" ELSE "handler")
     \/ /\ ent.type \notin Types
        /\ Move(t, "switch", upd[t].ret)
        /\ upd' = [upd EXCEPT ![t].ok = FALSE]
        /\ UNCHANGED <<slots, fault>> /\ UpdateRest
     \/ /\ ent.type \in Types /\ ~SwitchIsUndefined(ent, s)
        /\ Move(t, "switch", "store")
        /\ \E declared \in DeclareResults : SetSlot(e, Switch(ent, s, declared))
        /\ UNCHANGED <<upd, fault>> /\ UpdateRest

UpdateStore(t) ==
  /\ Move(t, "store", upd[t].ret)
  /\ SetSlot(upd[t].e, [slots[upd[t].e] EXCEPT !.state = Int8(upd[t].s)])
  /\ UNCHANGED <<upd, fault>> /\ UpdateRest

zdc_update_entity_state(t) ==
  UpdateCheck(t) \/ UpdateMark(t) \/ UpdateSwitch(t) \/ UpdateStore(t)

-----------------------------------------------------------------------------
(* The main thread: set-up.                                                 *)

MainRest == UNCHANGED <<cmd, list, dangling, rx_id, reply, sample, fault, acked, late>>

\* Nothing reaches the node before slot 0 is declared, in the update called.
MainInit ==
  /\ Call("main", "boot", 0, ON, "added")
  /\ SetSlot(0, [type |-> "QUERYABLE", state |-> OFF, ke_suffix |-> DefKe[0],
                 ke_size |-> NewSize(DefKe[0]), data |-> slots[0].data])
  /\ UNCHANGED <<el_idx, rest>> /\ MainRest

AddWrite(from, to, ent) ==
  /\ Move("main", from, to)
  /\ SetSlot(el_idx, ent)
  /\ UNCHANGED <<el_idx, upd, rest>> /\ MainRest

AddType  == AddWrite("type",  "state", [slots[el_idx] EXCEPT !.type = Adds[el_idx].type])
AddState == AddWrite("state", "size",  [slots[el_idx] EXCEPT !.state = INVALID])
AddSize  == AddWrite("size",  "alloc", [slots[el_idx] EXCEPT !.ke_size = NewSize(DefKe[el_idx])])
AddAlloc == AddWrite("alloc", "copy",  [slots[el_idx] EXCEPT !.ke_suffix = Torn])

\* A rename that came early may be moving the string.
AddCopy ==
  \/ /\ fault = "none" /\ pc["main"] = "copy"
     /\ slots[el_idx].ke_suffix = Freed
     /\ Undefined("application")
  \/ /\ Call("main", "copy", el_idx, IF Adds[el_idx].on THEN ON ELSE OFF, "added")
     /\ slots[el_idx].ke_suffix # Freed
     /\ SetSlot(el_idx, [slots[el_idx] EXCEPT !.ke_suffix = DefKe[el_idx]])
     /\ UNCHANGED <<el_idx, rest>> /\ MainRest

Added ==
  /\ Move("main", "added", IF el_idx < EntityNb THEN "type" ELSE "load")
  /\ el_idx' = el_idx + 1
  /\ rest' = [rest EXCEPT !.slots[el_idx] = slots[el_idx]]
  /\ upd' = [upd EXCEPT !["main"] = NoCall]
  /\ UNCHANGED slots /\ MainRest

AddEntities == AddType \/ AddState \/ AddSize \/ AddAlloc \/ AddCopy \/ Added

-----------------------------------------------------------------------------
(* The main thread: the publisher loop.  Its sleep, and a turn that finds   *)
(* the entity not on, change nothing.                                       *)

PubRest == UNCHANGED <<slots, el_idx, upd, cmd, list, rx_id, reply, rest, acked>>

PubCheck ==
  /\ Move("main", "load", "ke")
  /\ slots[Publisher].state = ON
  /\ PubRest /\ UNCHANGED <<dangling, sample, fault, late>>

\* The pointer is taken from the slot, also while a realloc has moved the
\* string and its result is not stored yet.
PubKeyexpr ==
  /\ Move("main", "ke", "put")
  /\ dangling' = (slots[Publisher].ke_suffix = Freed)
  /\ PubRest /\ UNCHANGED <<sample, fault, late>>

CountLate == IF acked[Publisher] = OFF /\ late < 2 THEN late + 1 ELSE late

\* Faulty variant: the loop does not ask again.
PubPutAgain ==
  /\ Move("main", "put", "ke")
  /\ fault'  = IF dangling THEN "publisher" ELSE "none"
  /\ sample' = IF dangling THEN sample ELSE slots[Publisher].ke_suffix
  /\ late'   = CountLate
  /\ PubRest /\ UNCHANGED dangling

\* z_put reads the string the pointer of PubKeyexpr leads to.
PubPut ==
  /\ Move("main", "put", "load")
  /\ fault'  = IF dangling THEN "publisher" ELSE "none"
  /\ sample' = IF dangling THEN sample ELSE slots[Publisher].ke_suffix
  /\ late'   = CountLate
  /\ PubRest /\ UNCHANGED dangling

Publish == PubCheck \/ PubKeyexpr \/ PubPut

-----------------------------------------------------------------------------
(* The read task: zdc_cmd_handler.                                          *)

\* A query is dispatched to the handler.
Dispatch ==
  /\ fault = "none" /\ pc["read"] = "idle"
  /\ IsDeclared(slots[0])
  /\ EarlyCommands \/ el_idx = ElSize

\* Back in the handler: what was encoded is sent, and the query is over,
\* whether or not zenoh takes the reply.
Finish(from, encoded) ==
  /\ Move("read", from, "idle")
  /\ Node!Reply(encoded)
  /\ upd' = [upd EXCEPT !["read"] = NoCall] /\ cmd' = NoCommand
  /\ UNCHANGED <<shared, list, rx_id, sample, fault>>

\* A query that reaches no command and changes nothing: empty, malformed, or
\* of a command node B does not execute.
Rejected ==
  /\ Dispatch
  /\ Finish("idle", NoMsg)
  /\ UNCHANGED history

\* A command on slot e is answered without having touched the table.
AnswerAtOnce(e, encoded) ==
  /\ Node!Reply(encoded) /\ rx_id' = e
  /\ rest' = [rest EXCEPT !.rx_id = e]
  /\ UNCHANGED <<shared, pc, upd, cmd, list, sample, fault, acked, late>>

\* Faulty variant: one id too many is let through.
SetStateOffByOne(id, s) ==
  LET e == CopyUint16(rx_id, id)
  IN /\ Dispatch
     /\ \/ e > ElSize /\ AnswerAtOnce(e, NoMsg)
        \/ e = 0 /\ AnswerAtOnce(e, Node!SendStatus(STATUS_ERR))
        \/ /\ e \in 1 .. ElSize
           /\ Call("read", "idle", e, s, "set")
           /\ rx_id' = e /\ acked' = [acked EXCEPT ![e] = NULL]
           /\ UNCHANGED <<shared, cmd, list, reply, sample, fault, rest, late>>

SetState(id, s) ==
  LET e == CopyUint16(rx_id, id)
  IN /\ Dispatch
     /\ \/ e >= ElSize /\ AnswerAtOnce(e, NoMsg)
        \/ e = 0 /\ AnswerAtOnce(e, Node!SendStatus(STATUS_ERR))
        \/ /\ e \in 1 .. EntityNb
           /\ Call("read", "idle", e, s, "set")
           /\ rx_id' = e /\ acked' = [acked EXCEPT ![e] = NULL]
           /\ UNCHANGED <<shared, cmd, list, reply, sample, fault, rest, late>>

SetStateDone ==
  LET e == upd["read"].e
  IN /\ Finish("set", Node!SendStatus(IF upd["read"].ok THEN STATUS_OK ELSE STATUS_ERR))
     /\ Complete(e)
     /\ acked' = IF upd["read"].ok THEN [acked EXCEPT ![e] = upd["read"].s] ELSE acked
     /\ late'  = IF e = Publisher THEN 0 ELSE late

SetConfig(id) ==
  LET e == CopyUint16(rx_id, id)
  IN /\ Dispatch
     /\ AnswerAtOnce(e, IF e < ElSize THEN Node!SendStatus(STATUS_OK) ELSE NoMsg)

RenameRest == UNCHANGED <<el_idx, list, reply, sample, history>>

\* The command reads the state and, when it is on, starts by stopping.
SetKeyexpr(id, ke) ==
  LET e == CopyUint16(rx_id, id)
  IN /\ Dispatch
     /\ \/ e >= ElSize /\ AnswerAtOnce(e, NoMsg)
        \/ /\ e < ElSize
           /\ cmd' = [e |-> e, ke |-> ke, restart |-> Restarts(slots[e])]
           /\ IF Restarts(slots[e])
              THEN Call("read", "idle", e, OFF, "grow")
              ELSE Move("read", "idle", "grow") /\ UNCHANGED upd
           /\ rx_id' = e
           /\ UNCHANGED <<slots, dangling, fault>> /\ RenameRest

\* Faulty variant: the string grows, its recorded size does not.
GrowKeepsSize(ent, ke) ==
  IF NewSize(ke) > ent.ke_size /\ ent.ke_suffix = NULL
  THEN [ent EXCEPT !.ke_suffix = Torn] ELSE ent

\* realloc keeps what the string held; that of a null pointer is a malloc.
Grow(ent, ke) ==
  IF NewSize(ke) <= ent.ke_size THEN ent
  ELSE [ent EXCEPT !.ke_size = NewSize(ke),
                   !.ke_suffix = IF @ = NULL THEN Torn ELSE @]

\* realloc: the string stays where it is, or moves, also from under the
\* publisher's pointer; the slot then holds the old pointer for a moment.
RenameGrow ==
  LET ent == slots[cmd.e]
      new == Grow(ent, cmd.ke)
  IN \/ /\ fault = "none" /\ pc["read"] = "grow"
        /\ ent.ke_suffix = Wild \/ new.ke_suffix = NULL
        /\ Undefined("handler")
     \/ /\ Move("read", "grow", "tear")
        /\ ent.ke_suffix # Wild /\ new.ke_suffix # NULL
        /\ SetSlot(cmd.e, new)
        /\ UNCHANGED <<upd, cmd, dangling, rx_id, fault>> /\ RenameRest
     \/ /\ Move("read", "grow", "moved")
        /\ ent.ke_suffix \notin {Wild, NULL} /\ NewSize(cmd.ke) > ent.ke_size
        /\ SetSlot(cmd.e, [ent EXCEPT !.ke_suffix = Freed])
        /\ dangling' = (dangling \/ (cmd.e = Publisher /\ pc["main"] = "put"))
        /\ UNCHANGED <<upd, cmd, rx_id, fault>> /\ RenameRest

\* The new pointer and the new size are stored, and strcpy begins.  (Before
\* it does the slot is as after a realloc that moved nothing.)
RenameStore ==
  /\ Move("read", "moved", "copied")
  /\ SetSlot(cmd.e, [slots[cmd.e] EXCEPT !.ke_suffix = Torn, !.ke_size = NewSize(cmd.ke)])
  /\ UNCHANGED <<upd, cmd, dangling, rx_id, fault>> /\ RenameRest

\* strcpy: the string is in pieces until it is done.
RenameTear ==
  /\ Move("read", "tear", "copied")
  /\ SetSlot(cmd.e, [slots[cmd.e] EXCEPT !.ke_suffix = Torn])
  /\ UNCHANGED <<upd, cmd, dangling, rx_id, fault>> /\ RenameRest

\* Faulty variant: the entity that was stopped is not restarted.
RenameCopiedOnly ==
  /\ SetSlot(cmd.e, [slots[cmd.e] EXCEPT !.ke_suffix = cmd.ke])
  /\ Move("read", "copied", "renamed") /\ UNCHANGED upd
  /\ UNCHANGED <<cmd, dangling, rx_id, fault>> /\ RenameRest

RenameCopied ==
  /\ SetSlot(cmd.e, [slots[cmd.e] EXCEPT !.ke_suffix = cmd.ke])
  /\ IF cmd.restart
     THEN Call("read", "copied", cmd.e, ON, "renamed")
     ELSE Move("read", "copied", "renamed") /\ UNCHANGED upd
  /\ UNCHANGED <<cmd, dangling, rx_id, fault>> /\ RenameRest

RenameDone ==
  /\ Finish("renamed", Node!SendStatus(STATUS_OK))
  /\ Complete(cmd.e)
  /\ UNCHANGED <<acked, late>>

ListRest == UNCHANGED <<shared, upd, cmd, rx_id, sample, history>>

ListStart ==
  /\ Dispatch
  /\ Move("read", "idle", "entry")
  /\ list' = NoList
  /\ UNCHANGED <<reply, fault>> /\ ListRest

ListOne ==
  LET ent == slots[Len(list.entries)]
      end == list.tmp_idx + 3 + ent.ke_size
  IN /\ Len(list.entries) < ElSize
     /\ \/ /\ fault = "none" /\ pc["read"] = "entry"
           /\ ent.ke_suffix = Wild \/ end > Node!ListBuffer
           /\ Undefined(IF ent.ke_suffix = Wild THEN "handler" ELSE "overrun")
        \/ /\ ent.ke_suffix # Wild /\ end <= Node!ListBuffer
           /\ Move("read", "entry", "entry")
           /\ list' = [entries |-> Append(list.entries, Node!ListEntry(ent)),
                       tmp_idx |-> end]
           /\ UNCHANGED <<reply, fault>> /\ ListRest

ListDone ==
  /\ Len(list.entries) = ElSize
  /\ Move("read", "entry", "idle")
  /\ Node!Reply(Node!SendCommand(
                   [cmd |-> "LIST_ENTITIES_RESP",
                    entities |-> [e \in Eid |-> list.entries[e + 1]]],
                   ListOverhead + list.tmp_idx))
  /\ list' = NoList
  /\ UNCHANGED fault /\ ListRest

Receive ==
  \/ Rejected
  \/ ListStart
  \/ \E id \in EntityIds :
       \/ \E s \in {OFF, ON} : SetState(id, s)
       \/ \E ke \in KeyExprs : SetKeyexpr(id, ke)
       \/ SetConfig(id)

Execute ==
  \/ zdc_update_entity_state("read") \/ SetStateDone
  \/ RenameGrow \/ RenameStore \/ RenameTear \/ RenameCopied \/ RenameDone
  \/ ListOne \/ ListDone

-----------------------------------------------------------------------------
MainThread == MainInit \/ AddEntities \/ Publish \/ zdc_update_entity_state("main")

Init ==
  /\ slots \in [Eid -> Heap]
  /\ el_idx = 0
  /\ pc  = [t \in Thread |-> IF t = "main" THEN "boot" ELSE "idle"]
  /\ upd = [t \in Thread |-> NoCall]
  /\ cmd = NoCommand
  /\ list = NoList
  /\ dangling = FALSE
  /\ rx_id = 0
  /\ reply = NoMsg /\ sample = NULL /\ fault = "none"
  /\ rest = [slots |-> slots, rx_id |-> rx_id]
  /\ acked = [e \in Eid |-> NULL]
  /\ late = 0

Next == MainThread \/ Receive \/ Execute

\* Both threads are scheduled; whether a query ever arrives is up to others.
Spec == Init /\ [][Next]_vars /\ WF_vars(MainThread) /\ WF_vars(Execute)

-----------------------------------------------------------------------------
(* Properties.                                                              *)

\* Each variable stays in its range; no thread works on a slot outside the
\* table.
TypeOK ==
  /\ slots \in [Eid -> [type : Types \cup {BadType}, state : Int8Values,
                        ke_suffix : KeyExprs \cup {NULL, Wild, Torn, Freed}, ke_size : Nat,
                        data : KeyExprs \cup {NULL, Wild}]]
  /\ el_idx \in 0 .. ElSize
  /\ pc["main"] \in {"boot", "type", "state", "size", "alloc", "copy", "added", "load",
                     "ke", "put", "check", "mark", "switch", "store"}
  /\ pc["read"] \in {"idle", "set", "grow", "moved", "tear", "copied", "renamed", "entry",
                     "check", "mark", "switch", "store"}
  /\ upd \in [Thread -> [e : Eid, s : {OFF, ON}, ok : BOOLEAN,
                         ret : {"idle", "added", "set", "grow", "renamed"}]]
  /\ cmd \in [e : Eid, ke : KeyExprs \cup {NULL}, restart : BOOLEAN]
  /\ Len(list.entries) \in 0 .. ElSize /\ list.tmp_idx \in 0 .. Node!ListBuffer
  /\ dangling \in BOOLEAN
  /\ rx_id \in Uint16
  /\ reply \in Node!Messages \cup {NoMsg}
  /\ sample \in KeyExprs \cup {NULL, Torn}
  /\ fault \in {"none", "handler", "application", "overrun", "publisher"}
  /\ acked \in [Eid -> {OFF, ON, NULL}]
  /\ late \in 0 .. 2

\* The read task and the set-up, statement by statement, do what ZdcNode
\* says their operations do in one step: every intermediate state of a
\* rename or a switch is made good before the answer leaves, and the list is
\* the table of one moment although it is read slot by slot.
ImplementsNode == Node!Spec

\* What was acknowledged stays true: between commands, with the set-up done,
\* an entity is in the state last acknowledged for it, whatever renames came
\* after and whatever zenoh refused.
AcknowledgedStateHolds ==
  fault = "none" /\ pc["read"] = "idle" /\ el_idx = ElSize =>
    \A e \in Eid : acked[e] # NULL => slots[e].state = acked[e]

\* Whatever zenoh refused: between commands a subscriber or queryable that is
\* not on receives nothing, and one that is declared is so on its current key
\* expression.  (the ignored results of z_declare_*, the stop and restart of
\* zdcExecuteset_entity_keyexpr)
OffMeansUndeclared ==
  pc["read"] = "idle" /\ el_idx = ElSize =>
    \A e \in Eid : slots[e].type \in Declarable /\ IsDeclared(slots[e]) =>
      slots[e].state = ON /\ slots[e].data = slots[e].ke_suffix

\* As long as zenoh accepts declarations, a command that arrives as early as
\* the node's queryable exists cannot take it down for good: between commands
\* the node listens.
ControlSurvivesSetUp ==
  fault = "none" /\ el_idx > 0 /\ pc["read"] = "idle" => IsDeclared(slots[0])

\* With the set-up done before the first query, no statement of either thread
\* follows memory nobody wrote or gives z_undeclare a handle nobody got.  Two
\* ways to go wrong are left: the publisher's pointer goes stale, or the list
\* outgrows its buffer, and that only with a key expression longer than its
\* slot's share of it.
OnlyKnownFaults ==
  \/ fault \in {"none", "publisher"}
  \/ fault = "overrun" /\ \E e \in Eid : slots[e].ke_size > Node!EntryRoom

\* Once OFF is acknowledged for the publisher, at most one more sample leaves
\* the node: the one whose check was done before.
AtMostOneLatePut == late <= 1

\* What renames and switches show the publisher on the way is made good: once
\* the commands for it are over, and unless OFF was the last acknowledged,
\* it publishes again and again, whatever the commands for other entities do.
PublishesWhileOn ==
  <>[](/\ fault = "none" /\ acked[Publisher] # OFF
       /\ upd["read"].e # Publisher /\ cmd.e # Publisher)
    => []<>(pc["main"] = "put")

(* What the program says of itself, and does not keep.                      *)

\* "Retrieve keyexpr ... Putting Data": a sample is put on a key expression
\* the publisher was given, by the program or by a command.
PutOnGivenKeyexpr == fault # "publisher" /\ sample \in KeyExprs \cup {NULL}

=============================================================================
