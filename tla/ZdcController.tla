--------------------------- MODULE ZdcController ---------------------------
(***************************************************************************)
(* Node A, the command line tool (main_tx.c, zdc_Main_a.c,                 *)
(* LCSF_Bridge_zdc_a.c): which query a run sends for its arguments.  A run *)
(* sends at most one query and keeps nothing for the next one.             *)
(***************************************************************************)
EXTENDS ZdcEntity

CONSTANTS
  TargetIds,        (* What -i is given; -1 when it is not.                   *)
  SendBuffSize,     (* ZDC_SEND_BUFF_SIZE.                                    *)
  KeyexprOverhead,  (* Bytes LCSF adds to an encoded set_entity_keyexpr.      *)
  NoArg,            (* An option that is not given.                           *)
  NoQuery           (* The run ends before it sends anything.                 *)

\* -c and -v; "other" is any value with no meaning to the tool.
Arguments ==
  [cmd   : {"keyexpr", "state", "config", "entity", "other", NoArg},
   id    : TargetIds,
   value : KeyExprs \cup {"on", "off", NoArg}]

\* Faulty variant: an id of the width of the entity_id attribute.
UintFast16(n) == n % (UINT16_MAX + 1)

\* The int of atoi, passed as a uint_fast8_t (8 bits wide).
UintFast8(n) == n % 256

\* Anything but "on" is off.
StateOf(value) == IF value = "on" THEN ON ELSE OFF

-----------------------------------------------------------------------------
\* zdcSendCommand: the encoded command fits the send buffer.  Only a key
\* expression can make it too long.
FitsSendBuffer(ke) == KeyexprOverhead + NewSize(ke) <= SendBuffSize

\* Faulty variant: the id is not put into the payload.
EncodeKeyexprNoId(id, ke) ==
  IF FitsSendBuffer(ke) THEN [cmd |-> "SET_ENTITY_KEYEXPR", id |-> 0, arg |-> ke]
  ELSE NoQuery

EncodeKeyexpr(id, ke) ==
  IF FitsSendBuffer(ke)
  THEN [cmd |-> "SET_ENTITY_KEYEXPR", id |-> UintFast8(id), arg |-> ke]
  ELSE NoQuery

EncodeState(id, state) ==
  [cmd |-> "SET_ENTITY_STATE", id |-> UintFast8(id), arg |-> state]

EncodeListEntity == [cmd |-> "LIST_ENTITIES_REQ", id |-> 0, arg |-> NoArg]

\* main: the config command is a TODO of the tool and ends the run.  The
\* values are text: "on" is a key expression as good as any other, which is
\* left to KeyExprs.
QueryOf(args) ==
  CASE args.cmd = "keyexpr" /\ args.value \in KeyExprs -> EncodeKeyexpr(args.id, args.value)
    [] args.cmd = "state" /\ args.value # NoArg -> EncodeState(args.id, StateOf(args.value))
    [] args.cmd = "entity" -> EncodeListEntity
    [] OTHER -> NoQuery

\* What the user asked for, in the words of the tool's help: "i the id of the
\* targeted entity", "Values are {on, off}".
Asked(args) ==
  CASE args.cmd = "keyexpr" -> [cmd |-> "keyexpr", id |-> args.id, arg |-> args.value]
    [] args.cmd = "state"   -> [cmd |-> "state", id |-> args.id, arg |-> StateOf(args.value)]
    [] OTHER                -> [cmd |-> "entity", id |-> 0, arg |-> NoArg]
=============================================================================
