----------------------------- MODULE ZdcBridge -----------------------------
(***************************************************************************)
(* The LCSF bridges of both nodes (LCSF_Bridge_zdc_{a,b}.c) between the    *)
(* programs (zdc_Main_{a,b}.c) and LCSF: the command payload as a union in *)
(* static memory, the attribute arrays taken from a Filo, the descriptor   *)
(* LCSF checks them against (LCSF_Desc_zdc.c), and what becomes of all     *)
(* that from one command to the next.  A run of node A is a new process; a *)
(* node B lives on, and several may listen on the same key expression.     *)
(***************************************************************************)
EXTENDS ZdcEntity, Sequences

CONSTANTS
  Tool,       (* Node A.                                                      *)
  Peers,      (* The nodes B.                                                 *)
  Ids,        (* Entity ids node A sends.                                     *)
  States,     (* States node A sends.                                         *)
  EntityNbs,  (* Lengths of the entity lists node B sends.                    *)
  Blobs,      (* Byte arrays: serialised lists and configs.                   *)
  BlobLen,    (* Their lengths.                                               *)
  Overhead,   (* Bytes LCSF adds to a byte array or a string.                 *)
  BuffSize,   (* The send buffer of either node.                              *)
  NoMsg,      (* Nothing on the way.                                          *)
  NoCall      (* Nothing asked, answered or executed.                         *)

ASSUME BridgeAssumption ==
  /\ Tool \notin Peers
  /\ Ids \subseteq Uint16 /\ States \subseteq Uint8 /\ EntityNbs \subseteq Uint16
  /\ NULL \notin Blobs /\ BlobLen \in [Blobs -> Nat]
  /\ Overhead \in Nat /\ BuffSize \in Nat

Node == {Tool} \cup Peers

-----------------------------------------------------------------------------
(* Commands as the programs see them: name, integer attribute, the other    *)
(* attribute.                                                               *)

Command(name, num, arg) == [name |-> name, num |-> num, arg |-> arg]

ListReq == Command("LIST_ENTITIES_REQ", 0, NULL)

\* What node A encodes; its bridge encodes the config command too, which
\* main_tx.c does not ask for yet.
Requests ==
  {ListReq}
  \cup {Command("SET_ENTITY_STATE", id, s) : id \in Ids, s \in States}
  \cup {Command("SET_ENTITY_KEYEXPR", id, ke) : id \in Ids, ke \in KeyExprs}
  \cup {Command("SET_ENTITY_CONFIG", id, c) : id \in Ids, c \in Blobs}

Lists    == {Command("LIST_ENTITIES_RESP", n, l) : n \in EntityNbs, l \in Blobs}
Statuses == {Command("CMD_STATUS", v, NULL) : v \in {STATUS_OK, STATUS_ERR}}
Answers  == Lists \cup Statuses

\* A command with an id out of range is not answered.
AnswersTo(cmd) == IF cmd = ListReq THEN Lists ELSE Statuses \cup {NoCall}

CMDNAME2CMDID ==
  [LIST_ENTITIES_REQ |-> 0, LIST_ENTITIES_RESP |-> 1, SET_ENTITY_STATE |-> 2,
   SET_ENTITY_KEYEXPR |-> 3, SET_ENTITY_CONFIG |-> 4, CMD_STATUS |-> 5]

CMDID2CMDNAME(id) ==
  CASE id = 1 -> "LIST_ENTITIES_RESP"
    [] id = 2 -> "SET_ENTITY_STATE"
    [] id = 3 -> "SET_ENTITY_KEYEXPR"
    [] id = 4 -> "SET_ENTITY_CONFIG"
    [] id = 5 -> "CMD_STATUS"
    [] OTHER  -> "LIST_ENTITIES_REQ"

-----------------------------------------------------------------------------
(* zdc_cmd_payload_t, a union, by offset on a 64-bit machine: single bytes, *)
(* a uint32_t at 4, a pointer at 8.  entity_id is at 0 and 1, state at 2,   *)
(* status_value at 0, entity_listSize at 0 to 3, entity_nb at 16 and 17.    *)

Offsets == {0, 1, 2, 3, 4, 8, 16, 17}
Zeros   == [c \in Offsets |-> IF c = 8 THEN NULL ELSE 0]

Uint16At(u, c) == u[c] + 256 * u[c + 1]

\* What the programs store before they call zdcSendCommand.
Stored(cmd, u) ==
  LET low == cmd.num % 256  high == cmd.num \div 256
  IN CASE cmd.name = "SET_ENTITY_STATE" ->
            [u EXCEPT ![0] = low, ![1] = high, ![2] = cmd.arg]
       [] cmd.name = "SET_ENTITY_KEYEXPR" ->
            [u EXCEPT ![0] = low, ![1] = high, ![8] = cmd.arg]
       [] cmd.name = "SET_ENTITY_CONFIG" ->
            [u EXCEPT ![0] = low, ![1] = high, ![4] = BlobLen[cmd.arg], ![8] = cmd.arg]
       [] cmd.name = "LIST_ENTITIES_RESP" ->
            [u EXCEPT ![0] = BlobLen[cmd.arg] % 256, ![1] = BlobLen[cmd.arg] \div 256,
                      ![2] = 0, ![3] = 0, ![8] = cmd.arg, ![16] = low, ![17] = high]
       [] cmd.name = "CMD_STATUS" -> [u EXCEPT ![0] = cmd.num]
       [] OTHER -> u

-----------------------------------------------------------------------------
(* Attributes: an integer is so many of the bytes its pointer leads to, a   *)
(* string or byte array a pointer and a length (that of a string is found   *)
(* by LCSF).                                                                *)

IntAtt(size, low, high) == [size |-> size, low |-> low, high |-> high, data |-> NULL]
DataAtt(size, p)        == [size |-> size, low |-> 0, high |-> 0, data |-> p]

Uint8Att(u, c)  == IntAtt(1, u[c], 0)
Uint16Att(u, c) == IntAtt(GetVLESize(Uint16At(u, c)), u[c], u[c + 1])

set_entity_stateFillAtt(u)   == <<Uint16Att(u, 0), Uint8Att(u, 2)>>
set_entity_keyexprFillAtt(u) == <<Uint16Att(u, 0), DataAtt(NewSize(u[8]), u[8])>>
set_entity_configFillAtt(u)  == <<Uint16Att(u, 0), DataAtt(u[4], u[8])>>
list_entities_respFillAtt(u) ==
  <<DataAtt(u[0] + 256 * u[1] + 65536 * u[2], u[8]), Uint16Att(u, 16)>>
cmd_statusFillAtt(u)         == <<Uint8Att(u, 0)>>

\* A command without a case in its node's bridge is sent without attributes.
FillCmdAttA(name, u) ==
  CASE name = "SET_ENTITY_STATE"   -> set_entity_stateFillAtt(u)
    [] name = "SET_ENTITY_KEYEXPR" -> set_entity_keyexprFillAtt(u)
    [] name = "SET_ENTITY_CONFIG"  -> set_entity_configFillAtt(u)
    [] OTHER                       -> << >>

FillCmdAttB(name, u) ==
  CASE name = "LIST_ENTITIES_RESP" -> list_entities_respFillAtt(u)
    [] name = "CMD_STATUS"         -> cmd_statusFillAtt(u)
    [] OTHER                       -> << >>

\* memcpy of an integer attribute to the field at c.
CopyInt(u, c, att) ==
  IF att.size = 1 THEN [u EXCEPT ![c] = att.low]
  ELSE [u EXCEPT ![c] = att.low, ![c + 1] = att.high]

set_entity_stateGetData(u, atts)   == CopyInt(CopyInt(u, 0, atts[1]), 2, atts[2])
set_entity_keyexprGetData(u, atts) == [CopyInt(u, 0, atts[1]) EXCEPT ![8] = atts[2].data]
set_entity_configGetData(u, atts)  == [CopyInt(u, 0, atts[1]) EXCEPT ![8] = atts[2].data]
list_entities_respGetData(u, atts) == CopyInt([u EXCEPT ![8] = atts[1].data], 16, atts[2])
cmd_statusGetData(u, atts)         == CopyInt(u, 0, atts[1])

\* A command without a case in its node's bridge leaves the payload alone.
GetCmdDataA(name, u, atts) ==
  CASE name = "LIST_ENTITIES_RESP" -> list_entities_respGetData(u, atts)
    [] name = "CMD_STATUS"         -> cmd_statusGetData(u, atts)
    [] OTHER                       -> u

\* Faulty variant: the config command has no case.
GetCmdDataBNoConfig(name, u, atts) ==
  CASE name = "SET_ENTITY_STATE"   -> set_entity_stateGetData(u, atts)
    [] name = "SET_ENTITY_KEYEXPR" -> set_entity_keyexprGetData(u, atts)
    [] OTHER                       -> u

GetCmdDataB(name, u, atts) ==
  CASE name = "SET_ENTITY_STATE"   -> set_entity_stateGetData(u, atts)
    [] name = "SET_ENTITY_KEYEXPR" -> set_entity_keyexprGetData(u, atts)
    [] name = "SET_ENTITY_CONFIG"  -> set_entity_configGetData(u, atts)
    [] OTHER                       -> u

-----------------------------------------------------------------------------
(* LCSF, between the bridge and zenoh: it checks the attributes against the *)
(* descriptor, and the message against the send buffer.                     *)

AttDesc ==
  [LIST_ENTITIES_REQ  |-> << >>,
   LIST_ENTITIES_RESP |-> <<"BYTE_ARRAY", "UINT16">>,
   SET_ENTITY_STATE   |-> <<"UINT16", "UINT8">>,
   SET_ENTITY_KEYEXPR |-> <<"UINT16", "STRING">>,
   SET_ENTITY_CONFIG  |-> <<"UINT16", "BYTE_ARRAY">>,
   CMD_STATUS         |-> <<"UINT8">>]

AttConforms(att, type) ==
  CASE type = "UINT8"  -> att.data = NULL /\ att.size = 1
    [] type = "UINT16" -> att.data = NULL /\ att.size \in 1 .. 2
    [] OTHER           -> att.data # NULL

\* No attribute is optional.
Conforms(name, atts) ==
  /\ Len(atts) = Len(AttDesc[name])
  /\ \A i \in 1 .. Len(atts) : AttConforms(atts[i], AttDesc[name][i])

Fits(atts) ==
  \A i \in 1 .. Len(atts) : atts[i].data # NULL => Overhead + atts[i].size <= BuffSize

-----------------------------------------------------------------------------
VARIABLES
  send,     (* zdcInfo.SendCmdPayload of each node.                           *)
  recv,     (* LcsfBridgezdcInfo.CmdPayload of each node.                     *)
  filo,     (* Attributes taken from each node's Filo.                        *)
  result,   (* What came of each node's last zdcSendCommand.                  *)
  queries,  (* The message on its way to each node B.                         *)
  replies   (* The message on its way back from each node B.                  *)

(* History, read by the properties and the refinement only.                   *)
VARIABLES asked, answered, executed, shown   (* As in ZdcRemoteCall.          *)

memory == <<send, recv, filo, result>>
calls  == <<asked, answered, executed, shown>>
vars   == <<send, recv, filo, result, queries, replies, asked, answered, executed, shown>>

FiloSize == 2

\* Faulty variant: what earlier commands took is not given back.
FreeNothing(used) == used

FiloFreeAll(used) == 0

\* zdcSendCommand of node n, whose memory holds the payload u and whose Filo
\* has used attributes taken, up to the message or the error it ends in.
Encode(n, cmd, u, used) ==
  LET v    == Stored(cmd, u)
      atts == IF n = Tool THEN FillCmdAttA(cmd.name, v) ELSE FillCmdAttB(cmd.name, v)
      left == FiloFreeAll(used)
      room == left + Len(atts) <= FiloSize
  IN [payload |-> v,
      taken   |-> IF room THEN left + Len(atts) ELSE left,
      result  |-> CASE ~room                    -> "no room"
                    [] ~Conforms(cmd.name, atts) -> "invalid"
                    [] ~Fits(atts)               -> "too long"
                    [] OTHER                     -> "sent",
      msg     |-> [id |-> CMDNAME2CMDID[cmd.name], atts |-> atts]]

Sent(enc) == IF enc.result = "sent" THEN enc.msg ELSE NoMsg

\* What zdc_MainExecute of node A and of node B read from their payload;
\* NoCall for a command they have no case for.
MainExecuteA(name, u) ==
  CASE name = "LIST_ENTITIES_RESP" -> Command(name, Uint16At(u, 16), u[8])
    [] name = "CMD_STATUS"         -> Command(name, u[0], NULL)
    [] OTHER                       -> NoCall

MainExecuteB(name, u) ==
  CASE name = "LIST_ENTITIES_REQ"  -> ListReq
    [] name = "SET_ENTITY_STATE"   -> Command(name, Uint16At(u, 0), u[2])
    [] name = "SET_ENTITY_KEYEXPR" -> Command(name, Uint16At(u, 0), u[8])
    [] name = "SET_ENTITY_CONFIG"  -> Command(name, Uint16At(u, 0), u[8])
    [] OTHER                       -> NoCall

-----------------------------------------------------------------------------
\* main_tx.c up to z_get, with the memory of a new process.  The query goes
\* to every node that listens; what earlier runs asked has arrived or is lost.
Run(cmd) ==
  LET enc == Encode(Tool, cmd, Zeros, 0)
  IN /\ \A b \in Peers : queries[b] = NoMsg
     /\ send'    = [send EXCEPT ![Tool] = enc.payload]
     /\ recv'    = [recv EXCEPT ![Tool] = Zeros]
     /\ filo'    = [filo EXCEPT ![Tool] = enc.taken]
     /\ result'  = [result EXCEPT ![Tool] = enc.result]
     /\ queries' = [b \in Peers |-> Sent(enc)]
     /\ replies' = [b \in Peers |-> NoMsg]
     /\ asked' = cmd /\ shown' = NoCall
     /\ UNCHANGED <<answered, executed>>

\* zdc_cmd_handler: LCSF_Bridge_zdcReceive, then the command encodes its
\* answer, if it has one.
Handle(b) ==
  LET name == CMDID2CMDNAME(queries[b].id)
      u    == GetCmdDataB(name, recv[b], queries[b].atts)
      cmd  == MainExecuteB(name, u)
  IN /\ queries[b] # NoMsg
     /\ queries'  = [queries EXCEPT ![b] = NoMsg]
     /\ recv'     = [recv EXCEPT ![b] = u]
     /\ executed' = [executed EXCEPT ![b] = cmd]
     /\ \E a \in AnswersTo(cmd) :
          LET enc == Encode(b, a, send[b], filo[b])
          IN /\ answered' = [answered EXCEPT ![b] = a]
             /\ IF a = NoCall
                THEN /\ replies' = [replies EXCEPT ![b] = NoMsg]
                     /\ UNCHANGED <<send, filo, result>>
                ELSE /\ send'    = [send EXCEPT ![b] = enc.payload]
                     /\ filo'    = [filo EXCEPT ![b] = enc.taken]
                     /\ result'  = [result EXCEPT ![b] = enc.result]
                     /\ replies' = [replies EXCEPT ![b] = Sent(enc)]
     /\ UNCHANGED <<asked, shown>>

\* reply_handler of node A's run.
ReplyHandler(b) ==
  LET name == CMDID2CMDNAME(replies[b].id)
      u    == GetCmdDataA(name, recv[Tool], replies[b].atts)
  IN /\ replies[b] # NoMsg
     /\ replies' = [replies EXCEPT ![b] = NoMsg]
     /\ recv'    = [recv EXCEPT ![Tool] = u]
     /\ shown'   = MainExecuteA(name, u)
     /\ UNCHANGED <<send, filo, result, queries, asked, answered, executed>>

Lose(b) ==
  /\ \/ queries' = [queries EXCEPT ![b] = NoMsg] /\ UNCHANGED replies
     \/ replies' = [replies EXCEPT ![b] = NoMsg] /\ UNCHANGED queries
  /\ UNCHANGED <<memory, calls>>

Init ==
  /\ send   = [n \in Node |-> Zeros]
  /\ recv   = [n \in Node |-> Zeros]
  /\ filo   = [n \in Node |-> 0]
  /\ result = [n \in Node |-> "none"]
  /\ queries  = [b \in Peers |-> NoMsg]
  /\ replies  = [b \in Peers |-> NoMsg]
  /\ answered = [b \in Peers |-> NoCall]
  /\ executed = [b \in Peers |-> NoCall]
  /\ asked = NoCall /\ shown = NoCall

Next ==
  \/ \E cmd \in Requests : Run(cmd)
  \/ \E b \in Peers : Handle(b) \/ ReplyHandler(b) \/ Lose(b)

Spec == Init /\ [][Next]_vars

-----------------------------------------------------------------------------
(* Properties.                                                              *)

\* Whatever is left in either payload, in either union and in the Filo from
\* earlier commands: a node B executes the command that was asked, and node A
\* shows the answer a node B gave.
RemoteCall == INSTANCE ZdcRemoteCall WITH
  toExecute <- {b \in Peers : queries[b] # NoMsg},
  toShow    <- {b \in Peers : replies[b] # NoMsg}

ImplementsRemoteCall == RemoteCall!Spec

\* The attribute arrays the bridges fill are those the descriptor asks for,
\* and the Filo always has room for them: only a message too long for the
\* send buffer is refused.
OnlyLongMessagesAreRefused ==
  \A n \in Node : result[n] \in {"none", "sent", "too long"}
=============================================================================
