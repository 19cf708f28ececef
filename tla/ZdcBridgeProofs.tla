-------------------------- MODULE ZdcBridgeProofs --------------------------
(***************************************************************************)
(* Theorems about ZdcBridge: for any number of nodes B, any key            *)
(* expressions, states, configs and lists, and ids and list lengths of one *)
(* byte, the bridges implement ZdcRemoteCall, and refuse nothing but what  *)
(* is too long.                                                            *)
(***************************************************************************)
EXTENDS ZdcBridge, TLAPS

\* What zdc_encode_state and zdc_encode_keyexpr (uint_fast8_t id) and the
\* uint8_t el_idx of node B allow.  ZdcNode's run of wide ids shows that it
\* cannot be dropped.
OneByteIds == Ids \subseteq Uint8 /\ EntityNbs \subseteq Uint8

-----------------------------------------------------------------------------
(* The payload.                                                             *)

Pointers == Nat \cup States \cup KeyExprs \cup Blobs \cup {NULL}
Payloads == [Offsets -> Pointers]

\* The message msg carries the command cmd.
Carries(msg, cmd) ==
  /\ msg.id = CMDNAME2CMDID[cmd.name]
  /\ cmd.name = "SET_ENTITY_STATE" =>
       msg.atts[1] = IntAtt(1, cmd.num, 0) /\ msg.atts[2] = IntAtt(1, cmd.arg, 0)
  /\ cmd.name \in {"SET_ENTITY_KEYEXPR", "SET_ENTITY_CONFIG"} =>
       msg.atts[1] = IntAtt(1, cmd.num, 0) /\ msg.atts[2].data = cmd.arg
  /\ cmd.name = "LIST_ENTITIES_RESP" =>
       msg.atts[1].data = cmd.arg /\ msg.atts[2] = IntAtt(1, cmd.num, 0)
  /\ cmd.name = "CMD_STATUS" => msg.atts[1] = IntAtt(1, cmd.num, 0)

LEMMA ZerosPayload == Zeros \in Payloads
BY DEF Zeros, Payloads, Pointers

\* The numbers of a command fit a byte.
LEMMA OneByteSplit == ASSUME NEW n \in Uint8 PROVE n % 256 = n /\ n \div 256 = 0
BY DEF Uint8

\* Whatever memory the request is stored over, its message carries it.
LEMMA RequestIsCarried ==
  ASSUME OneByteIds, NEW cmd \in Requests, NEW u \in Payloads, NEW used
  PROVE  /\ Stored(cmd, u) \in Payloads
         /\ Carries(Encode(Tool, cmd, u, used).msg, cmd)
<1> DEFINE v == Stored(cmd, u)
<1>1. CASE cmd = ListReq
  BY <1>1 DEF ListReq, Command, Stored, Encode, Carries, FillCmdAttA, CMDNAME2CMDID
<1>2. ASSUME NEW id \in Ids, NEW s \in States, cmd = Command("SET_ENTITY_STATE", id, s)
      PROVE  v \in Payloads /\ Carries(Encode(Tool, cmd, u, used).msg, cmd)
  <2>1. id \in Uint8 /\ s \in Uint8 /\ id % 256 = id /\ id \div 256 = 0
    BY <1>2, OneByteSplit, BridgeAssumption DEF OneByteIds
  <2>2. v = [u EXCEPT ![0] = id, ![1] = 0, ![2] = s]
    BY <1>2, <2>1 DEF Stored, Command
  <2>3. v \in Payloads /\ v[0] = id /\ v[1] = 0 /\ v[2] = s
    BY <2>1, <2>2 DEF Payloads, Offsets, Pointers, Uint8
  <2>4. FillCmdAttA(cmd.name, v) = <<IntAtt(1, id, 0), IntAtt(1, s, 0)>>
    BY <1>2, <2>1, <2>3
    DEF FillCmdAttA, set_entity_stateFillAtt, Uint16Att, Uint8Att, Uint16At, GetVLESize,
        Command, Uint8
  <2> QED BY <1>2, <2>3, <2>4 DEF Encode, Carries, Command, CMDNAME2CMDID
<1>3. ASSUME NEW id \in Ids, NEW ke \in KeyExprs, cmd = Command("SET_ENTITY_KEYEXPR", id, ke)
      PROVE  v \in Payloads /\ Carries(Encode(Tool, cmd, u, used).msg, cmd)
  <2>1. id \in Uint8 /\ id % 256 = id /\ id \div 256 = 0
    BY <1>3, OneByteSplit DEF OneByteIds
  <2>2. v = [u EXCEPT ![0] = id, ![1] = 0, ![8] = ke]
    BY <1>3, <2>1 DEF Stored, Command
  <2>3. v \in Payloads /\ v[0] = id /\ v[1] = 0 /\ v[8] = ke
    BY <2>1, <2>2 DEF Payloads, Offsets, Pointers, Uint8
  <2>4. FillCmdAttA(cmd.name, v) = <<IntAtt(1, id, 0), DataAtt(NewSize(ke), ke)>>
    BY <1>3, <2>1, <2>3
    DEF FillCmdAttA, set_entity_keyexprFillAtt, Uint16Att, Uint16At, GetVLESize,
        Command, Uint8
  <2> QED BY <1>3, <2>3, <2>4 DEF Encode, Carries, Command, CMDNAME2CMDID, DataAtt
<1>4. ASSUME NEW id \in Ids, NEW c \in Blobs, cmd = Command("SET_ENTITY_CONFIG", id, c)
      PROVE  v \in Payloads /\ Carries(Encode(Tool, cmd, u, used).msg, cmd)
  <2>1. id \in Uint8 /\ id % 256 = id /\ id \div 256 = 0 /\ BlobLen[c] \in Nat
    BY <1>4, OneByteSplit, BridgeAssumption DEF OneByteIds
  <2>2. v = [u EXCEPT ![0] = id, ![1] = 0, ![4] = BlobLen[c], ![8] = c]
    BY <1>4, <2>1 DEF Stored, Command
  <2>3. v \in Payloads /\ v[0] = id /\ v[1] = 0 /\ v[4] = BlobLen[c] /\ v[8] = c
    BY <2>1, <2>2 DEF Payloads, Offsets, Pointers, Uint8
  <2>4. FillCmdAttA(cmd.name, v) = <<IntAtt(1, id, 0), DataAtt(BlobLen[c], c)>>
    BY <1>4, <2>1, <2>3
    DEF FillCmdAttA, set_entity_configFillAtt, Uint16Att, Uint16At, GetVLESize,
        Command, Uint8
  <2> QED BY <1>4, <2>3, <2>4 DEF Encode, Carries, Command, CMDNAME2CMDID, DataAtt
<1> QED BY <1>1, <1>2, <1>3, <1>4 DEF Requests

LEMMA AnswerIsCarried ==
  ASSUME OneByteIds, NEW b \in Peers, NEW a \in Answers, NEW u \in Payloads, NEW used
  PROVE  /\ Stored(a, u) \in Payloads
         /\ Carries(Encode(b, a, u, used).msg, a)
<1> DEFINE v == Stored(a, u)
<1>0. b # Tool
  BY BridgeAssumption
<1>1. ASSUME NEW n \in EntityNbs, NEW l \in Blobs, a = Command("LIST_ENTITIES_RESP", n, l)
      PROVE  v \in Payloads /\ Carries(Encode(b, a, u, used).msg, a)
  <2> DEFINE size == BlobLen[l]
  <2>1. /\ n \in Uint8 /\ n % 256 = n /\ n \div 256 = 0
        /\ size % 256 \in Nat /\ size \div 256 \in Nat
    BY <1>1, OneByteSplit, BridgeAssumption DEF OneByteIds
  <2>2. v = [u EXCEPT ![0] = size % 256, ![1] = size \div 256, ![2] = 0, ![3] = 0,
                      ![8] = l, ![16] = n, ![17] = 0]
    BY <1>1, <2>1 DEF Stored, Command
  <2> HIDE DEF size
  <2>3. v \in Payloads /\ v[8] = l /\ v[16] = n /\ v[17] = 0
    BY <2>1, <2>2 DEF Payloads, Offsets, Pointers, Uint8
  <2>4. FillCmdAttB(a.name, v) =
          <<DataAtt(v[0] + 256 * v[1] + 65536 * v[2], l), IntAtt(1, n, 0)>>
    BY <1>1, <2>1, <2>3
    DEF FillCmdAttB, list_entities_respFillAtt, Uint16Att, Uint16At, GetVLESize,
        Command, Uint8
  <2> QED BY <1>0, <1>1, <2>3, <2>4 DEF Encode, Carries, Command, CMDNAME2CMDID, DataAtt
<1>2. ASSUME NEW st \in {STATUS_OK, STATUS_ERR}, a = Command("CMD_STATUS", st, NULL)
      PROVE  v \in Payloads /\ Carries(Encode(b, a, u, used).msg, a)
  <2>1. v = [u EXCEPT ![0] = st]
    BY <1>2 DEF Stored, Command
  <2>2. v \in Payloads /\ v[0] = st
    BY <2>1 DEF Payloads, Offsets, Pointers, STATUS_OK, STATUS_ERR
  <2>3. FillCmdAttB(a.name, v) = <<IntAtt(1, st, 0)>>
    BY <1>2, <2>2 DEF FillCmdAttB, cmd_statusFillAtt, Uint8Att, Command
  <2> QED BY <1>0, <1>2, <2>2, <2>3 DEF Encode, Carries, Command, CMDNAME2CMDID
<1> QED BY <1>1, <1>2 DEF Answers, Lists, Statuses

\* Whatever earlier commands left in a payload whose high byte of the id is
\* zero, the command read from it is the one the message carries, and the
\* high byte stays zero.
LEMMA RequestIsExecuted ==
  ASSUME OneByteIds, NEW cmd \in Requests, NEW msg, Carries(msg, cmd),
         NEW u \in Payloads, u[1] = 0
  PROVE  LET name == CMDID2CMDNAME(msg.id)
             v    == GetCmdDataB(name, u, msg.atts)
         IN v \in Payloads /\ v[1] = 0 /\ MainExecuteB(name, v) = cmd
<1> DEFINE v == GetCmdDataB(cmd.name, u, msg.atts)
<1>1. CMDID2CMDNAME(msg.id) = cmd.name
  BY DEF Carries, Requests, ListReq, Command, CMDNAME2CMDID, CMDID2CMDNAME
<1>2. ASSUME cmd = ListReq
      PROVE  v \in Payloads /\ v[1] = 0 /\ MainExecuteB(cmd.name, v) = cmd
  BY <1>2 DEF ListReq, Command, GetCmdDataB, MainExecuteB
<1>3. ASSUME NEW id \in Ids, NEW s \in States, cmd = Command("SET_ENTITY_STATE", id, s)
      PROVE  v \in Payloads /\ v[1] = 0 /\ MainExecuteB(cmd.name, v) = cmd
  <2>1. id \in Uint8 /\ msg.atts[1] = IntAtt(1, id, 0) /\ msg.atts[2] = IntAtt(1, s, 0)
    BY <1>3 DEF Carries, Command, OneByteIds
  <2>2. v = [u EXCEPT ![0] = id, ![2] = s]
    BY <1>3, <2>1 DEF GetCmdDataB, set_entity_stateGetData, CopyInt, IntAtt, Command
  <2>3. v \in Payloads /\ v[0] = id /\ v[1] = 0 /\ v[2] = s
    BY <2>1, <2>2 DEF Payloads, Offsets, Pointers, Uint8
  <2> QED BY <1>3, <2>1, <2>3 DEF MainExecuteB, Command, Uint16At, Uint8
<1>4. ASSUME NEW id \in Ids, NEW p \in KeyExprs \cup Blobs,
             \/ cmd = Command("SET_ENTITY_KEYEXPR", id, p)
             \/ cmd = Command("SET_ENTITY_CONFIG", id, p)
      PROVE  v \in Payloads /\ v[1] = 0 /\ MainExecuteB(cmd.name, v) = cmd
  <2>1. id \in Uint8 /\ msg.atts[1] = IntAtt(1, id, 0) /\ msg.atts[2].data = p
    BY <1>4 DEF Carries, Command, OneByteIds
  <2>2. v = [u EXCEPT ![0] = id, ![8] = p]
    BY <1>4, <2>1
    DEF GetCmdDataB, set_entity_keyexprGetData, set_entity_configGetData, CopyInt,
        IntAtt, Command
  <2>3. v \in Payloads /\ v[0] = id /\ v[1] = 0 /\ v[8] = p
    BY <2>1, <2>2 DEF Payloads, Offsets, Pointers, Uint8
  <2> QED BY <1>4, <2>1, <2>3 DEF MainExecuteB, Command, Uint16At, Uint8
<1>5. v \in Payloads /\ v[1] = 0 /\ MainExecuteB(cmd.name, v) = cmd
  BY <1>2, <1>3, <1>4 DEF Requests
<1> QED BY <1>1, <1>5

LEMMA AnswerIsShown ==
  ASSUME OneByteIds, NEW a \in Answers, NEW msg, Carries(msg, a),
         NEW u \in Payloads, u[17] = 0
  PROVE  LET name == CMDID2CMDNAME(msg.id)
             v    == GetCmdDataA(name, u, msg.atts)
         IN v \in Payloads /\ v[17] = 0 /\ MainExecuteA(name, v) = a
<1> DEFINE v == GetCmdDataA(a.name, u, msg.atts)
<1>1. CMDID2CMDNAME(msg.id) = a.name
  BY DEF Carries, Answers, Lists, Statuses, Command, CMDNAME2CMDID, CMDID2CMDNAME
<1>2. ASSUME NEW n \in EntityNbs, NEW l \in Blobs, a = Command("LIST_ENTITIES_RESP", n, l)
      PROVE  v \in Payloads /\ v[17] = 0 /\ MainExecuteA(a.name, v) = a
  <2>1. n \in Uint8 /\ msg.atts[1].data = l /\ msg.atts[2] = IntAtt(1, n, 0)
    BY <1>2 DEF Carries, Command, OneByteIds
  <2>2. v = [u EXCEPT ![8] = l, ![16] = n]
    BY <1>2, <2>1 DEF GetCmdDataA, list_entities_respGetData, CopyInt, IntAtt, Command
  <2>3. v \in Payloads /\ v[8] = l /\ v[16] = n /\ v[17] = 0
    BY <2>1, <2>2 DEF Payloads, Offsets, Pointers, Uint8
  <2> QED BY <1>2, <2>1, <2>3 DEF MainExecuteA, Command, Uint16At, Uint8
<1>3. ASSUME NEW st \in {STATUS_OK, STATUS_ERR}, a = Command("CMD_STATUS", st, NULL)
      PROVE  v \in Payloads /\ v[17] = 0 /\ MainExecuteA(a.name, v) = a
  <2>1. msg.atts[1] = IntAtt(1, st, 0)
    BY <1>3 DEF Carries, Command
  <2>2. v = [u EXCEPT ![0] = st]
    BY <1>3, <2>1 DEF GetCmdDataA, cmd_statusGetData, CopyInt, IntAtt, Command
  <2>3. v \in Payloads /\ v[0] = st /\ v[17] = 0
    BY <2>2 DEF Payloads, Offsets, Pointers, STATUS_OK, STATUS_ERR
  <2> QED BY <1>3, <2>3 DEF MainExecuteA, Command
<1> QED BY <1>1, <1>2, <1>3 DEF Answers, Lists, Statuses

-----------------------------------------------------------------------------
(* What is on the way carries what was given, and the bytes no command of   *)
(* one-byte numbers writes are still zero.                                  *)

BridgeInv ==
  /\ send \in [Node -> Payloads] /\ recv \in [Node -> Payloads]
  /\ recv[Tool][17] = 0 /\ \A b \in Peers : recv[b][1] = 0
  /\ asked \in Requests \cup {NoCall}
  /\ answered \in [Peers -> Answers \cup {NoCall}]
  /\ queries = [b \in Peers |-> queries[b]] /\ replies = [b \in Peers |-> replies[b]]
  /\ \A b \in Peers : queries[b] # NoMsg =>
       asked \in Requests /\ Carries(queries[b], asked)
  /\ \A b \in Peers : replies[b] # NoMsg =>
       answered[b] \in Answers /\ Carries(replies[b], answered[b])

LEMMA InitInv == ASSUME Init PROVE BridgeInv
<1>1. Zeros[1] = 0 /\ Zeros[17] = 0
  BY DEF Zeros, Offsets
<1>2. /\ send = [n \in Node |-> Zeros] /\ recv = [n \in Node |-> Zeros]
      /\ queries = [b \in Peers |-> NoMsg] /\ replies = [b \in Peers |-> NoMsg]
      /\ answered = [b \in Peers |-> NoCall] /\ asked = NoCall
  BY DEF Init
<1>3. send \in [Node -> Payloads] /\ recv \in [Node -> Payloads]
  BY <1>2, ZerosPayload
<1>4. recv[Tool][17] = 0 /\ \A b \in Peers : recv[b][1] = 0
  BY <1>1, <1>2 DEF Node
<1> QED BY <1>2, <1>3, <1>4 DEF BridgeInv

LEMMA RunInv ==
  ASSUME OneByteIds, BridgeInv, NEW cmd \in Requests, Run(cmd)
  PROVE  BridgeInv'
<1> DEFINE enc == Encode(Tool, cmd, Zeros, 0)
<1>1. enc.payload \in Payloads /\ Carries(enc.msg, cmd)
  BY RequestIsCarried, ZerosPayload DEF Encode
<1>2. Zeros[17] = 0
  BY DEF Zeros, Offsets
<1> HIDE DEF enc
<1>3. /\ send' = [send EXCEPT ![Tool] = enc.payload]
      /\ recv' = [recv EXCEPT ![Tool] = Zeros]
      /\ queries' = [b \in Peers |-> Sent(enc)] /\ replies' = [b \in Peers |-> NoMsg]
      /\ asked' = cmd /\ answered' = answered
  BY DEF Run, enc
<1>4. send' \in [Node -> Payloads] /\ recv' \in [Node -> Payloads]
  BY <1>1, <1>3, ZerosPayload DEF BridgeInv
<1>5. recv'[Tool][17] = 0 /\ \A b \in Peers : recv'[b][1] = 0
  BY <1>2, <1>3, BridgeAssumption DEF BridgeInv, Node
<1>6. \A b \in Peers : queries'[b] # NoMsg => Carries(queries'[b], cmd)
  BY <1>1, <1>3 DEF Sent
<1>7. queries' = [b \in Peers |-> queries'[b]] /\ replies' = [b \in Peers |-> replies'[b]]
  BY <1>3
<1> QED BY <1>3, <1>4, <1>5, <1>6, <1>7 DEF BridgeInv

LEMMA HandleExecutes ==
  ASSUME OneByteIds, BridgeInv, NEW b \in Peers, Handle(b)
  PROVE  /\ executed' = [executed EXCEPT ![b] = asked]
         /\ recv' \in [Node -> Payloads]
         /\ recv'[Tool][17] = 0 /\ \A p \in Peers : recv'[p][1] = 0
<1> DEFINE name == CMDID2CMDNAME(queries[b].id)
           u    == GetCmdDataB(name, recv[b], queries[b].atts)
<1>1. b \in Node /\ b # Tool
  BY BridgeAssumption DEF Node
<1>2. u \in Payloads /\ u[1] = 0 /\ MainExecuteB(name, u) = asked
  <2>1. recv[b] \in Payloads /\ recv[b][1] = 0
    BY <1>1 DEF BridgeInv
  <2>2. asked \in Requests /\ Carries(queries[b], asked)
    BY DEF BridgeInv, Handle
  <2> QED BY <2>1, <2>2, RequestIsExecuted
<1>3. recv' = [recv EXCEPT ![b] = u] /\ executed' = [executed EXCEPT ![b] = asked]
  BY <1>2 DEF Handle
<1> QED BY <1>1, <1>2, <1>3 DEF BridgeInv

LEMMA HandleAnswers ==
  ASSUME OneByteIds, BridgeInv, NEW b \in Peers, Handle(b)
  PROVE  \E a \in Answers \cup {NoCall} :
           /\ answered' = [answered EXCEPT ![b] = a]
           /\ send' \in [Node -> Payloads]
           /\ replies' = [replies EXCEPT ![b] = replies'[b]]
           /\ replies'[b] # NoMsg => a # NoCall /\ Carries(replies'[b], a)
<1>1. PICK cmd : \E a \in AnswersTo(cmd) :
        LET enc == Encode(b, a, send[b], filo[b])
        IN /\ answered' = [answered EXCEPT ![b] = a]
           /\ IF a = NoCall
              THEN replies' = [replies EXCEPT ![b] = NoMsg] /\ UNCHANGED send
              ELSE /\ send' = [send EXCEPT ![b] = enc.payload]
                   /\ replies' = [replies EXCEPT ![b] = Sent(enc)]
  BY DEF Handle
<1>2. PICK a \in AnswersTo(cmd) :
        LET enc == Encode(b, a, send[b], filo[b])
        IN /\ answered' = [answered EXCEPT ![b] = a]
           /\ IF a = NoCall
              THEN replies' = [replies EXCEPT ![b] = NoMsg] /\ UNCHANGED send
              ELSE /\ send' = [send EXCEPT ![b] = enc.payload]
                   /\ replies' = [replies EXCEPT ![b] = Sent(enc)]
  BY <1>1
<1>3. a \in Answers \cup {NoCall}
  BY DEF AnswersTo, Answers
<1>4. CASE a = NoCall
  <2>1. replies' = [replies EXCEPT ![b] = NoMsg] /\ send' = send
    BY <1>2, <1>4
  <2>2. replies'[b] = NoMsg
    BY <2>1 DEF BridgeInv
  <2> QED BY <1>2, <1>3, <2>1, <2>2 DEF BridgeInv
<1>5. CASE a # NoCall
  <2> DEFINE enc == Encode(b, a, send[b], filo[b])
  <2>1. send[b] \in Payloads /\ b \in Node
    BY DEF BridgeInv, Node
  <2>2. enc.payload \in Payloads /\ Carries(enc.msg, a)
    BY <1>3, <1>5, <2>1, AnswerIsCarried DEF Encode
  <2> HIDE DEF enc
  <2>3. send' = [send EXCEPT ![b] = enc.payload] /\ replies' = [replies EXCEPT ![b] = Sent(enc)]
    BY <1>2, <1>5 DEF enc
  <2>4. Sent(enc) # NoMsg => Carries(Sent(enc), a)
    BY <2>2 DEF Sent
  <2>5. send' \in [Node -> Payloads]
    BY <2>1, <2>2, <2>3 DEF BridgeInv
  <2>6. replies'[b] = Sent(enc)
    BY <2>3 DEF BridgeInv
  <2> QED BY <1>2, <1>3, <1>5, <2>3, <2>4, <2>5, <2>6
<1> QED BY <1>4, <1>5

LEMMA HandleInv ==
  ASSUME OneByteIds, BridgeInv, NEW b \in Peers, Handle(b)
  PROVE  BridgeInv'
<1>1. /\ recv' \in [Node -> Payloads]
      /\ recv'[Tool][17] = 0 /\ \A p \in Peers : recv'[p][1] = 0
  BY HandleExecutes
<1>2. PICK a \in Answers \cup {NoCall} :
        /\ answered' = [answered EXCEPT ![b] = a]
        /\ send' \in [Node -> Payloads]
        /\ replies' = [replies EXCEPT ![b] = replies'[b]]
        /\ replies'[b] # NoMsg => a # NoCall /\ Carries(replies'[b], a)
  BY HandleAnswers
<1>3. queries' = [queries EXCEPT ![b] = NoMsg] /\ asked' = asked
  BY DEF Handle
<1>4. answered' \in [Peers -> Answers \cup {NoCall}]
  BY <1>2 DEF BridgeInv
<1>5. queries' = [p \in Peers |-> queries'[p]] /\ replies' = [p \in Peers |-> replies'[p]]
  BY <1>2, <1>3 DEF BridgeInv
<1>6. \A p \in Peers : queries'[p] # NoMsg => asked \in Requests /\ Carries(queries'[p], asked)
  BY <1>3 DEF BridgeInv
<1>7. \A p \in Peers : replies'[p] # NoMsg =>
        answered'[p] \in Answers /\ Carries(replies'[p], answered'[p])
  BY <1>2 DEF BridgeInv
<1> QED BY <1>1, <1>2, <1>3, <1>4, <1>5, <1>6, <1>7 DEF BridgeInv

LEMMA ReplyHandlerShows ==
  ASSUME OneByteIds, BridgeInv, NEW b \in Peers, ReplyHandler(b)
  PROVE  shown' = answered[b] /\ BridgeInv'
<1> DEFINE name == CMDID2CMDNAME(replies[b].id)
           u    == GetCmdDataA(name, recv[Tool], replies[b].atts)
<1>1. u \in Payloads /\ u[17] = 0 /\ MainExecuteA(name, u) = answered[b]
  <2>1. recv[Tool] \in Payloads /\ recv[Tool][17] = 0
    BY DEF BridgeInv, Node
  <2>2. answered[b] \in Answers /\ Carries(replies[b], answered[b])
    BY DEF BridgeInv, ReplyHandler
  <2> QED BY <2>1, <2>2, AnswerIsShown
<1>2. /\ recv' = [recv EXCEPT ![Tool] = u] /\ shown' = answered[b]
      /\ replies' = [replies EXCEPT ![b] = NoMsg]
      /\ UNCHANGED <<send, queries, asked, answered>>
  BY <1>1 DEF ReplyHandler
<1> HIDE DEF u
<1>3. /\ recv' \in [Node -> Payloads]
      /\ recv'[Tool][17] = 0 /\ \A p \in Peers : recv'[p][1] = 0
  BY <1>1, <1>2, BridgeAssumption DEF BridgeInv, Node
<1>4. /\ queries' = [p \in Peers |-> queries'[p]] /\ replies' = [p \in Peers |-> replies'[p]]
      /\ \A p \in Peers : replies'[p] # NoMsg => replies'[p] = replies[p]
  BY <1>2 DEF BridgeInv
<1> QED BY <1>2, <1>3, <1>4 DEF BridgeInv

LEMMA LoseInv ==
  ASSUME BridgeInv, NEW b \in Peers, Lose(b)
  PROVE  BridgeInv'
<1>1. UNCHANGED <<send, recv, asked, answered>>
  BY DEF Lose, memory, calls
<1>2. /\ queries' = [p \in Peers |-> queries'[p]] /\ replies' = [p \in Peers |-> replies'[p]]
      /\ \A p \in Peers : queries'[p] # NoMsg => queries'[p] = queries[p]
      /\ \A p \in Peers : replies'[p] # NoMsg => replies'[p] = replies[p]
  BY DEF BridgeInv, Lose
<1> QED BY <1>1, <1>2 DEF BridgeInv

\* In every run, whatever is on the way carries what was given to
\* zdcSendCommand, and the bytes of the payloads that no command of one-byte
\* numbers writes are still zero.
THEOREM BridgeInvariance == OneByteIds => (Spec => []BridgeInv)
<1> SUFFICES ASSUME OneByteIds PROVE Spec => []BridgeInv
  OBVIOUS
<1>1. ASSUME BridgeInv, [Next]_vars PROVE BridgeInv'
  <2>1. ASSUME NEW cmd \in Requests, Run(cmd) PROVE BridgeInv'
    BY <1>1, <2>1, RunInv
  <2>2. ASSUME NEW b \in Peers, Handle(b) \/ ReplyHandler(b) \/ Lose(b) PROVE BridgeInv'
    BY <1>1, <2>2, HandleInv, ReplyHandlerShows, LoseInv
  <2>3. ASSUME UNCHANGED vars PROVE BridgeInv'
    BY <1>1, <2>3 DEF vars, BridgeInv
  <2> QED BY <1>1, <2>1, <2>2, <2>3 DEF Next
<1> QED BY <1>1, InitInv, PTL DEF Spec

-----------------------------------------------------------------------------
(* The refinement: one lemma per action.                                    *)

toExecute == {b \in Peers : queries[b] # NoMsg}
toShow    == {b \in Peers : replies[b] # NoMsg}

LEMMA RunAsks ==
  ASSUME NEW cmd \in Requests, Run(cmd)
  PROVE  RemoteCall!Ask
<1> DEFINE msg == Sent(Encode(Tool, cmd, Zeros, 0))
<1>1. /\ \A b \in Peers : queries[b] = NoMsg
      /\ queries' = [b \in Peers |-> msg] /\ replies' = [b \in Peers |-> NoMsg]
      /\ asked' = cmd /\ shown' = NoCall /\ UNCHANGED <<answered, executed>>
  BY DEF Run
<1> HIDE DEF msg
<1>2. toExecute = {} /\ toExecute' \in {{}, Peers} /\ toShow' = {}
  BY <1>1 DEF toExecute, toShow
<1> QED BY <1>1, <1>2 DEF RemoteCall!Ask, toExecute, toShow

LEMMA HandleIsExecute ==
  ASSUME OneByteIds, BridgeInv, NEW b \in Peers, Handle(b)
  PROVE  RemoteCall!Execute(b)
<1>1. executed' = [executed EXCEPT ![b] = asked]
  BY HandleExecutes
<1>2. PICK a \in Answers \cup {NoCall} :
        /\ answered' = [answered EXCEPT ![b] = a]
        /\ send' \in [Node -> Payloads]
        /\ replies' = [replies EXCEPT ![b] = replies'[b]]
        /\ replies'[b] # NoMsg => a # NoCall /\ Carries(replies'[b], a)
  BY HandleAnswers
<1>3. b \in toExecute /\ toExecute' = toExecute \ {b}
  <2>1. queries[b] # NoMsg /\ queries' = [queries EXCEPT ![b] = NoMsg]
    BY DEF Handle
  <2> QED BY <2>1 DEF toExecute, BridgeInv
<1>4. toShow' = toShow \ {b} \/ (a # NoCall /\ toShow' = toShow \cup {b})
  <2>1. \A p \in Peers \ {b} : replies'[p] = replies[p]
    BY <1>2 DEF BridgeInv
  <2> QED BY <1>2, <2>1 DEF toShow
<1>5. UNCHANGED <<asked, shown>>
  BY DEF Handle
<1> QED BY <1>1, <1>2, <1>3, <1>4, <1>5 DEF RemoteCall!Execute, toExecute, toShow

LEMMA ReplyHandlerIsShow ==
  ASSUME OneByteIds, BridgeInv, NEW b \in Peers, ReplyHandler(b)
  PROVE  RemoteCall!Show(b)
<1>1. shown' = answered[b]
  BY ReplyHandlerShows
<1>2. /\ replies[b] # NoMsg /\ replies' = [replies EXCEPT ![b] = NoMsg]
      /\ UNCHANGED <<queries, asked, answered, executed>>
  BY DEF ReplyHandler
<1>3. b \in toShow /\ toShow' = toShow \ {b} /\ toExecute' = toExecute
  BY <1>2 DEF toShow, toExecute, BridgeInv
<1> QED BY <1>1, <1>2, <1>3 DEF RemoteCall!Show, toShow, toExecute

LEMMA LoseIsLose ==
  ASSUME BridgeInv, NEW b \in Peers, Lose(b)
  PROVE  RemoteCall!Lose(b)
<1>1. \/ toExecute' = toExecute \ {b} /\ toShow' = toShow
      \/ toShow' = toShow \ {b} /\ toExecute' = toExecute
  BY DEF Lose, toExecute, toShow, BridgeInv
<1>2. UNCHANGED <<asked, answered, executed, shown>>
  BY DEF Lose, calls
<1> QED BY <1>1, <1>2 DEF RemoteCall!Lose, toExecute, toShow

\* For any number of nodes B, and whatever was asked, lost and answered
\* before: a node B executes the command that node A was asked for, and node
\* A shows an answer a node B gave.
THEOREM CallsArriveIntact == OneByteIds => (Spec => ImplementsRemoteCall)
<1> SUFFICES ASSUME OneByteIds PROVE Spec => ImplementsRemoteCall
  OBVIOUS
<1>1. Init => RemoteCall!Init
  BY DEF Init, RemoteCall!Init
<1>2. ASSUME BridgeInv, [Next]_vars PROVE [RemoteCall!Next]_(RemoteCall!callVars)
  <2>1. ASSUME NEW cmd \in Requests, Run(cmd) PROVE RemoteCall!Next
    BY <2>1, RunAsks DEF RemoteCall!Next
  <2>2. ASSUME NEW b \in Peers, Handle(b) \/ ReplyHandler(b) \/ Lose(b)
        PROVE  RemoteCall!Next
    BY <1>2, <2>2, HandleIsExecute, ReplyHandlerIsShow, LoseIsLose DEF RemoteCall!Next
  <2>3. ASSUME UNCHANGED vars PROVE UNCHANGED RemoteCall!callVars
    BY <2>3 DEF vars, RemoteCall!callVars
  <2> QED BY <1>2, <2>1, <2>2, <2>3 DEF Next
<1>3. OneByteIds => (Spec => []BridgeInv)
  BY BridgeInvariance
<1> QED BY <1>1, <1>2, <1>3, PTL DEF Spec, ImplementsRemoteCall, RemoteCall!Spec

-----------------------------------------------------------------------------
(* Refusals.                                                                *)

CanEncode(n) == IF n = Tool THEN Requests ELSE Answers

SendInv ==
  /\ send \in [Node -> Payloads]
  /\ result \in [Node -> {"none", "sent", "too long"}]

LEMMA StoredPayload ==
  ASSUME NEW cmd \in Requests \cup Answers, NEW u \in Payloads
  PROVE  /\ Stored(cmd, u) \in Payloads
         /\ cmd.name \in {"SET_ENTITY_KEYEXPR", "SET_ENTITY_CONFIG", "LIST_ENTITIES_RESP"} =>
              Stored(cmd, u)[8] # NULL
<1>1. cmd.num % 256 \in Nat /\ cmd.num \div 256 \in Nat /\ cmd.num \in Nat
  <2>1. cmd.num \in Ids \/ cmd.num \in EntityNbs \/ cmd.num = 0 \/ cmd.num = 1
    BY DEF Requests, Answers, Lists, Statuses, Command, ListReq, STATUS_OK, STATUS_ERR
  <2>2. Ids \subseteq Nat /\ EntityNbs \subseteq Nat
    <3>1. Uint16 \subseteq Nat
      BY DEF Uint16, UINT16_MAX
    <3> QED BY <3>1, BridgeAssumption
  <2>3. 0 \in Nat /\ 1 \in Nat
    OBVIOUS
  <2>4. cmd.num \in Nat
    BY <2>1, <2>2, <2>3, Zenon
  <2> QED BY <2>4
<1>2. cmd.name = "SET_ENTITY_STATE" => cmd.arg \in States
  BY DEF Requests, Answers, Lists, Statuses, Command, ListReq
<1>3. cmd.name = "SET_ENTITY_KEYEXPR" => cmd.arg \in KeyExprs /\ cmd.arg # NULL
  BY KeyExprAssumption DEF Requests, Answers, Lists, Statuses, Command, ListReq
<1>4. cmd.name \in {"SET_ENTITY_CONFIG", "LIST_ENTITIES_RESP"} =>
        /\ cmd.arg \in Blobs /\ cmd.arg # NULL
        /\ BlobLen[cmd.arg] \in Nat
  BY BridgeAssumption DEF Requests, Answers, Lists, Statuses, Command, ListReq
<1>5. cmd.name \in {"SET_ENTITY_CONFIG", "LIST_ENTITIES_RESP"} =>
        BlobLen[cmd.arg] % 256 \in Nat /\ BlobLen[cmd.arg] \div 256 \in Nat
  BY <1>4
<1> QED BY <1>1, <1>2, <1>3, <1>4, <1>5 DEF Stored, Payloads, Offsets, Pointers

LEMMA AttDescLengths ==
  /\ Len(AttDesc["LIST_ENTITIES_REQ"]) = 0 /\ Len(AttDesc["LIST_ENTITIES_RESP"]) = 2
  /\ Len(AttDesc["SET_ENTITY_STATE"]) = 2 /\ Len(AttDesc["SET_ENTITY_KEYEXPR"]) = 2
  /\ Len(AttDesc["SET_ENTITY_CONFIG"]) = 2 /\ Len(AttDesc["CMD_STATUS"]) = 1
BY DEF AttDesc

\* The attributes that are filled are those the descriptor asks for, and the
\* Filo, freed before, has room for them.
LEMMA EncodeRefusesLongOnly ==
  ASSUME NEW n \in Node, NEW cmd \in CanEncode(n), NEW u \in Payloads, NEW used
  PROVE  LET enc == Encode(n, cmd, u, used)
         IN enc.payload \in Payloads /\ enc.result \in {"sent", "too long"}
<1> DEFINE v    == Stored(cmd, u)
           atts == IF n = Tool THEN FillCmdAttA(cmd.name, v) ELSE FillCmdAttB(cmd.name, v)
<1>1. cmd \in Requests \cup Answers
  BY DEF CanEncode
<1>2. /\ v \in Payloads
      /\ cmd.name \in {"SET_ENTITY_KEYEXPR", "SET_ENTITY_CONFIG", "LIST_ENTITIES_RESP"} =>
           v[8] # NULL
  BY <1>1, StoredPayload
<1> HIDE DEF v
<1>3. Len(atts) = Len(AttDesc[cmd.name]) /\ Len(atts) \in 0 .. 2
  <2>1. CASE n = Tool
    <3>1. cmd.name \in {"LIST_ENTITIES_REQ", "SET_ENTITY_STATE", "SET_ENTITY_KEYEXPR",
                        "SET_ENTITY_CONFIG"}
      BY <2>1 DEF CanEncode, Requests, Command, ListReq
    <3>2. Len(AttDesc[cmd.name]) = IF cmd.name = "LIST_ENTITIES_REQ" THEN 0 ELSE 2
      BY <3>1, AttDescLengths
    <3>3. Len(atts) = IF cmd.name = "LIST_ENTITIES_REQ" THEN 0 ELSE 2
      BY <2>1, <3>1 DEF FillCmdAttA, set_entity_stateFillAtt, set_entity_keyexprFillAtt,
                        set_entity_configFillAtt
    <3> HIDE DEF atts
    <3> QED BY <3>2, <3>3
  <2>2. CASE n # Tool
    <3>1. cmd.name \in {"LIST_ENTITIES_RESP", "CMD_STATUS"}
      BY <2>2 DEF CanEncode, Answers, Lists, Statuses, Command
    <3>2. Len(AttDesc[cmd.name]) = IF cmd.name = "CMD_STATUS" THEN 1 ELSE 2
      BY <3>1, AttDescLengths
    <3>3. Len(atts) = IF cmd.name = "CMD_STATUS" THEN 1 ELSE 2
      BY <2>2, <3>1 DEF FillCmdAttB, list_entities_respFillAtt, cmd_statusFillAtt
    <3> HIDE DEF atts
    <3> QED BY <3>2, <3>3
  <2> QED BY <2>1, <2>2
<1>4. \A i \in 1 .. Len(atts) : AttConforms(atts[i], AttDesc[cmd.name][i])
  BY <1>2
  DEF CanEncode, Requests, Answers, Lists, Statuses, Command, ListReq, FillCmdAttA, FillCmdAttB,
      set_entity_stateFillAtt, set_entity_keyexprFillAtt, set_entity_configFillAtt,
      list_entities_respFillAtt, cmd_statusFillAtt, AttDesc, AttConforms,
      Uint8Att, Uint16Att, IntAtt, DataAtt, GetVLESize
<1> HIDE DEF atts
<1> QED
  BY <1>2, <1>3, <1>4 DEF Encode, Conforms, FiloFreeAll, FiloSize, v, atts

\* For every command either program can encode, whatever lengths and numbers
\* it carries: only a message too long for the send buffer is refused.
THEOREM OnlyLengthIsRefused == Spec => []OnlyLongMessagesAreRefused
<1>1. Init => SendInv
  BY ZerosPayload DEF Init, SendInv
<1>2. ASSUME SendInv, [Next]_vars PROVE SendInv'
  <2>1. ASSUME NEW cmd \in Requests, Run(cmd) PROVE SendInv'
    <3> DEFINE enc == Encode(Tool, cmd, Zeros, 0)
    <3>1. enc.payload \in Payloads /\ enc.result \in {"sent", "too long"}
      BY EncodeRefusesLongOnly, ZerosPayload DEF Node, CanEncode
    <3>2. /\ send' = [send EXCEPT ![Tool] = enc.payload]
          /\ result' = [result EXCEPT ![Tool] = enc.result]
      BY <2>1 DEF Run
    <3> HIDE DEF enc
    <3> QED BY <1>2, <3>1, <3>2 DEF SendInv
  <2>2. ASSUME NEW b \in Peers, Handle(b) PROVE SendInv'
    <3>1. PICK cmd : \E a \in AnswersTo(cmd) :
            LET enc == Encode(b, a, send[b], filo[b])
            IN IF a = NoCall
               THEN UNCHANGED <<send, result>>
               ELSE /\ send' = [send EXCEPT ![b] = enc.payload]
                    /\ result' = [result EXCEPT ![b] = enc.result]
      BY <2>2 DEF Handle
    <3>2. PICK a \in AnswersTo(cmd) :
            LET enc == Encode(b, a, send[b], filo[b])
            IN IF a = NoCall
               THEN UNCHANGED <<send, result>>
               ELSE /\ send' = [send EXCEPT ![b] = enc.payload]
                    /\ result' = [result EXCEPT ![b] = enc.result]
      BY <3>1
    <3>3. CASE a = NoCall
      BY <1>2, <3>2, <3>3 DEF SendInv
    <3>4. CASE a # NoCall
      <4> DEFINE enc == Encode(b, a, send[b], filo[b])
      <4>1. b \in Node /\ a \in CanEncode(b) /\ send[b] \in Payloads
        BY <1>2, <3>4, BridgeAssumption DEF AnswersTo, Answers, CanEncode, Node, SendInv
      <4>2. enc.payload \in Payloads /\ enc.result \in {"sent", "too long"}
        BY <4>1, EncodeRefusesLongOnly
      <4>3. /\ send' = [send EXCEPT ![b] = enc.payload]
            /\ result' = [result EXCEPT ![b] = enc.result]
        BY <3>2, <3>4
      <4> HIDE DEF enc
      <4> QED BY <1>2, <4>2, <4>3 DEF SendInv
    <3> QED BY <3>3, <3>4
  <2>3. ASSUME NEW b \in Peers, ReplyHandler(b) \/ Lose(b) PROVE SendInv'
    BY <1>2, <2>3 DEF ReplyHandler, Lose, memory, SendInv
  <2>4. ASSUME UNCHANGED vars PROVE SendInv'
    BY <1>2, <2>4 DEF vars, SendInv
  <2> QED BY <1>2, <2>1, <2>2, <2>3, <2>4 DEF Next
<1>3. SendInv => OnlyLongMessagesAreRefused
  BY DEF SendInv, OnlyLongMessagesAreRefused
<1> QED BY <1>1, <1>2, <1>3, PTL DEF Spec
=============================================================================
