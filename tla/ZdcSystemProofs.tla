-------------------------- MODULE ZdcSystemProofs --------------------------
(***************************************************************************)
(* Proofs about ZdcSystem, for any number of runs of the tool under way:   *)
(* node B in the system does what ZdcNode says, and what a run prints is   *)
(* true.                                                                   *)
(***************************************************************************)
EXTENDS ZdcSystem, ZdcNodeStepProofs

\* The ids for which the tool's uint_fast8_t tells entities apart: -1 is what
\* a run without -i sends, as 255, which no node has an entity for.
ByteTargets == TargetIds \subseteq -1 .. 255

\* No id is cut on its way, and zenoh accepts every declaration.
Undistorted == ByteTargets /\ FALSE \notin DeclareResults

-----------------------------------------------------------------------------
(* The queries of the tool.                                                 *)

Args == {OFF, ON} \cup KeyExprs \cup {NoArg}

Queries ==
  [cmd : {"SET_ENTITY_STATE"}, id : EntityIds, arg : {OFF, ON}] \cup
  [cmd : {"SET_ENTITY_KEYEXPR"}, id : EntityIds, arg : KeyExprs] \cup
  {EncodeListEntity}

\* Query q is what a run sends when it is asked for that.
Encodes(q, asked) ==
  /\ q.arg = asked.arg
  /\ \/ q.cmd = "LIST_ENTITIES_REQ" /\ asked.cmd = "entity"
     \/ /\ \/ q.cmd = "SET_ENTITY_STATE" /\ asked.cmd = "state"
           \/ q.cmd = "SET_ENTITY_KEYEXPR" /\ asked.cmd = "keyexpr"
        /\ asked.id \in TargetIds /\ q.id = UintFast8(asked.id)

Asks == [cmd : {"keyexpr", "state", "entity"}, id : TargetIds \cup {0}, arg : Args]

LEMMA ToolCommands == OnOffOnly /\ OneByteIds /\ StateVals = {OFF, ON}
<1>1. \A n \in Int : UintFast8(n) \in Uint8
  BY ByteOfInt DEF UintFast8
<1> QED
  BY <1>1, SystemAssumption DEF OnOffOnly, OneByteIds

LEMMA QueryType ==
  ASSUME NEW args \in Arguments, QueryOf(args) # NoQuery
  PROVE  QueryOf(args) \in Queries /\ Encodes(QueryOf(args), Asked(args)) /\ Asked(args) \in Asks
<1>1. args.id \in TargetIds /\ UintFast8(args.id) \in EntityIds
  BY SystemAssumption DEF Arguments
<1>2. StateOf(args.value) \in {OFF, ON}
  BY DEF StateOf
<1>3. CASE args.cmd = "keyexpr"
  <2>1. args.value \in KeyExprs /\ QueryOf(args) = EncodeKeyexpr(args.id, args.value)
    BY <1>3 DEF QueryOf
  <2>2. QueryOf(args) = [cmd |-> "SET_ENTITY_KEYEXPR", id |-> UintFast8(args.id),
                         arg |-> args.value]
    BY <2>1 DEF EncodeKeyexpr
  <2>3. Asked(args) = [cmd |-> "keyexpr", id |-> args.id, arg |-> args.value]
    BY <1>3 DEF Asked
  <2> QED
    BY <1>1, <2>1, <2>2, <2>3 DEF Queries, Encodes, Asks, Args
<1>4. CASE args.cmd = "state"
  <2>1. QueryOf(args) = EncodeState(args.id, StateOf(args.value))
    BY <1>4 DEF QueryOf
  <2>2. Asked(args) = [cmd |-> "state", id |-> args.id,
                     arg |-> StateOf(args.value)]
    BY <1>4 DEF Asked
  <2> QED
    BY <1>1, <1>2, <2>1, <2>2 DEF EncodeState, Queries, Encodes, Asks, Args
<1>5. CASE args.cmd \notin {"keyexpr", "state"}
  <2>1. QueryOf(args) = EncodeListEntity
    BY <1>5 DEF QueryOf
  <2>2. Asked(args) = [cmd |-> "entity", id |-> 0, arg |-> NoArg]
    BY <1>5 DEF Asked
  <2> QED
    BY <2>1, <2>2 DEF EncodeListEntity, Queries, Encodes, Asks, Args
<1> QED
  BY <1>3, <1>4, <1>5

-----------------------------------------------------------------------------
(* What node B's answer to a query of the tool says.                        *)

LEMMA StatusesDiffer ==
  /\ Status(STATUS_OK) # Status(STATUS_ERR)
  /\ Status(STATUS_OK) # NoMsg /\ Status(STATUS_ERR) # NoMsg
  BY StatusIsSent DEF Status, STATUS_OK, STATUS_ERR

LEMMA ByteIdBounds ==
  ASSUME NEW id \in EntityIds
  PROVE  /\ id \in 0 .. 255 /\ ElSize \in 1 .. 255
         /\ id < ElSize <=> id \in Eid
         /\ id >= ElSize <=> id \notin Eid
<1>1. id \in 0 .. 255
  BY ToolCommands DEF OneByteIds, Uint8
<1> QED
  BY <1>1, NodeAssumption DEF ElSize, Eid

LEMMA IdArrives ==
  ASSUME NInv, NEW id \in EntityIds
  PROVE  /\ \A s : SetEntityState(id, s) => rx_id' = id
         /\ \A ke : SetEntityKeyexpr(id, ke) => rx_id' = id
         /\ ReceivedId(id) = id
  BY ByteIdArrives, ToolCommands DEF SetEntityState, SetEntityKeyexpr, GetData

\* No added entity is changed.
Untouched == \A e \in Registered : entity_list'[e] = entity_list[e]

\* A query leaves the added entities as they are, and does not say "Ok", or
\* it carries out what was asked, and does not say "Err".
LeftAlone == Untouched /\ reply' # Status(STATUS_OK)

Done(asked) == CarriesOut(asked) /\ reply' # Status(STATUS_ERR)

\* Answers that leave the whole table alone.
LEMMA AnswerLeavesAlone ==
  ASSUME NInv
  PROVE  /\ AnswerOnly(NoMsg) => LeftAlone
         /\ AnswerOnly(SendStatus(STATUS_ERR)) => LeftAlone
         /\ Undefined("handler") => LeftAlone
<1>1. AnswerOnly(NoMsg) => reply' = NoMsg
  BY DEF NInv, AnswerOnly, Finish, Reply, Waiting
<1>2. AnswerOnly(SendStatus(STATUS_ERR)) => reply' \in {Status(STATUS_ERR), NoMsg}
  BY AnswerOnlyEffect DEF Reply
<1> QED
  BY <1>1, <1>2, StatusesDiffer DEF AnswerOnly, Undefined, LeftAlone, Untouched

\* The declaration of an added entity follows its state and its key
\* expression, if zenoh accepts it.
LEMMA AddedShows ==
  ASSUME FALSE \notin DeclareResults, NEW ent, AddedConsistent(ent), ent.type \in Declarable
  PROVE  IF ent.state = ON THEN ent.data = ent.ke_suffix ELSE ~IsDeclared(ent)
  BY SmallStates DEF AddedConsistent

LEMMA AddedSlot ==
  ASSUME IInv, Receiving, NEW e \in Eid, e \in Registered
  PROVE  AddedConsistent(entity_list[e])
<1>1. e < el_idx
  BY NodeAssumption DEF Registered, IInv, TypeOK, Eid, ElSize
<1> QED
  BY <1>1 DEF Receiving, Listening, IInv, SlotsConsistent

LEMMA SetStateAnswer ==
  ASSUME IInv, NInv, FALSE \notin DeclareResults,
         NEW id \in EntityIds, NEW s \in {OFF, ON}, SetEntityState(id, s)
  PROVE  LeftAlone \/ (id \in Eid /\ Done([cmd |-> "state", id |-> id, arg |-> s]))
<1>1. ReceivedId(id) = id /\ Receiving
  BY IdArrives DEF SetEntityState
<1>2. CASE SetState(id, s) /\ id \in Eid
  <2> DEFINE old == entity_list[id]
  <2>1. CASE Undefined("handler")
    BY <2>1, AnswerLeavesAlone
  <2>2. CASE ~Undefined("handler")
    <3>1. PICK declared \in DeclareResults :
            SetEntity(id, UpdateEntityState(old, s, declared), UpdateOrphans(old, s))
      BY <1>2, <2>2, SetStateEffect
    <3> DEFINE new == UpdateEntityState(old, s, declared)
    <3>2. Reply(Status(IF UpdateReturns(old, s) THEN STATUS_OK ELSE STATUS_ERR))
      BY <1>2, <2>2, SetStateEffect
    <3>3. /\ entity_list'[id] = new /\ old \in Entities
          /\ \A e \in Eid \ {id} : entity_list'[e] = entity_list[e]
      BY <1>2, <3>1 DEF SetEntity, IInv, TypeOK
    <3>4. id \in Registered => AddedConsistent(old)
      BY <1>1, <1>2, AddedSlot
    <3>5. CASE ~UpdateReturns(old, s)
      <4>1. id \notin Registered
        BY <3>4, <3>5 DEF UpdateReturns, AddedConsistent
      <4>3. Registered \subseteq Eid
        BY NodeAssumption DEF Registered, IInv, TypeOK, Eid, ElSize
      <4>2. reply' # Status(STATUS_OK)
        BY <3>2, <3>5, StatusesDiffer DEF Reply
      <4> QED
        BY <3>3, <4>1, <4>2, <4>3 DEF LeftAlone, Untouched
    <3>6. CASE UpdateReturns(old, s)
      <4>1. reply' # Status(STATUS_ERR)
        BY <3>2, <3>6, StatusesDiffer DEF Reply
      <4>2. new.state = s /\ new.ke_suffix = old.ke_suffix
        <5>1. new.state = s
          BY <3>3, <3>6, SmallStates DEF UpdateEntityState, Switch, Entities
        <5> QED
          BY <3>3, <5>1, UpdateKeeps
      <4>3. id \in Registered => AddedConsistent(new)
        BY <3>3, <3>4, UpdateAdded
      <4> HIDE DEF old, new
      <4>4. Shows([cmd |-> "state", id |-> id, arg |-> s], old, new)
        BY <4>2, <4>3, AddedShows DEF Shows
      <4> QED
        BY <1>2, <3>3, <4>1, <4>4 DEF Done, CarriesOut, old
    <3> QED
      BY <3>5, <3>6
  <2> QED
    BY <2>1, <2>2
<1>3. 1 .. EntityNb \subseteq Eid
  BY NodeAssumption DEF Eid
<1> QED
  BY <1>1, <1>2, <1>3, AnswerLeavesAlone DEF SetEntityState

LEMMA SetKeyexprAnswer ==
  ASSUME IInv, NInv, FALSE \notin DeclareResults,
         NEW id \in EntityIds, NEW ke \in KeyExprs, SetEntityKeyexpr(id, ke)
  PROVE  LeftAlone \/ (id \in Eid /\ Done([cmd |-> "keyexpr", id |-> id, arg |-> ke]))
<1>1. ReceivedId(id) = id /\ Receiving
  BY IdArrives DEF SetEntityKeyexpr
<1>2. CASE Rename(id, ke) /\ id \in Eid
  <2> DEFINE old == entity_list[id]
  <2>1. CASE Undefined("handler")
    BY <2>1, AnswerLeavesAlone
  <2>2. CASE ~Undefined("handler")
    <3>1. PICK declared \in DeclareResults :
            SetEntity(id, RenameEntity(old, ke, declared), RenameOrphans(old, ke))
      BY <1>2, <2>2, RenameEffect
    <3> DEFINE new == RenameEntity(old, ke, declared)
    <3>2. reply' # Status(STATUS_ERR)
      BY <1>2, <2>2, RenameEffect, StatusesDiffer DEF Reply
    <3>3. /\ entity_list'[id] = new /\ old \in Entities
          /\ \A e \in Eid \ {id} : entity_list'[e] = entity_list[e]
      BY <1>2, <3>1 DEF SetEntity, IInv, TypeOK
    <3>4. id \in Registered => AddedConsistent(old)
      BY <1>1, <1>2, AddedSlot
    <3>5. new.ke_suffix = ke
      BY <3>3, RenameKeeps
    <3>6. id \in Registered => AddedConsistent(new) /\ new.state = old.state
      BY <3>3, <3>4, RenameAdded
    <3> HIDE DEF old, new
    <3>7. Shows([cmd |-> "keyexpr", id |-> id, arg |-> ke], old, new)
      BY <3>5, <3>6, AddedShows DEF Shows
    <3> QED
      BY <1>2, <3>2, <3>3, <3>7 DEF Done, CarriesOut, old
  <2> QED
    BY <2>1, <2>2
<1> QED
  BY <1>1, <1>2, ByteIdBounds, AnswerLeavesAlone DEF SetEntityKeyexpr

\* Asking for the list changes nothing.
LEMMA ListAnswer ==
  ASSUME ListEntities
  PROVE  UNCHANGED entity_list
  BY DEF ListEntities, AnswerOnly, Undefined

-----------------------------------------------------------------------------
(* The invariant of the network and the runs.                               *)

Outcomes == [asAsked : BOOLEAN, touched : BOOLEAN]

NetTypeOK ==
  /\ tool \in [Runs -> {NULL} \cup [asked : Asks, seen : Messages \cup {NoMsg}]]
  /\ queries \in [Runs -> {NoQuery} \cup Queries]
  /\ replies \in [Runs -> Messages \cup {NoMsg}]
  /\ done \in [Runs -> {NULL} \cup Outcomes]

\* A message on its way to run r, or printed by it, is true of what was done.
Told(r, msg) ==
  Undistorted => /\ msg = Status(STATUS_OK) => done[r].asAsked
                 /\ msg = Status(STATUS_ERR) => ~done[r].touched

\* A query in flight for a run under way is the one this run sent, and it
\* has not been executed yet.
RunInv(r) ==
  /\ tool[r] = NULL => replies[r] = NoMsg
  /\ Undistorted /\ done[r] # NULL => done[r].asAsked \/ ~done[r].touched
  /\ tool[r] # NULL =>
       /\ queries[r] # NoQuery =>
            Encodes(queries[r], tool[r].asked) /\ replies[r] = NoMsg /\ tool[r].seen = NoMsg
       /\ Told(r, replies[r]) /\ Told(r, tool[r].seen)

NetInv == NetTypeOK /\ \A r \in Runs : RunInv(r)

SInv == IInv /\ NInv /\ NetInv

LEMMA InitS == SysInit => SInv
<1> SUFFICES ASSUME SysInit PROVE SInv
  OBVIOUS
<1>1. NetTypeOK
  BY DEF SysInit, NetTypeOK
<1>2. \A r \in Runs : RunInv(r)
  BY DEF SysInit, RunInv
<1> QED
  BY <1>1, <1>2, InitInv, InitN DEF SysInit, SInv, NetInv

\* A step that leaves everything of run q as it was keeps what holds of it.
LEMMA OtherRun ==
  ASSUME NEW q \in Runs, RunInv(q), tool'[q] = tool[q], queries'[q] = queries[q],
         replies'[q] = replies[q], done'[q] = done[q]
  PROVE  RunInv(q)'
  BY DEF RunInv, Told

LEMMA StartNet ==
  ASSUME NetInv, NEW r \in Runs, NEW args \in Arguments, Start(r, args)
  PROVE  NetInv'
<1> DEFINE q == QueryOf(args)
           run == [asked |-> Asked(args), seen |-> NoMsg]
<1>1. q \in Queries /\ Encodes(q, Asked(args)) /\ Asked(args) \in Asks
  BY QueryType DEF Start
<1>2. /\ tool' = [tool EXCEPT ![r] = run] /\ queries' = [queries EXCEPT ![r] = q]
      /\ UNCHANGED <<replies, done>> /\ tool[r] = NULL
  BY DEF Start
<1>3. run.asked = Asked(args) /\ run.seen = NoMsg
      /\ run \in [asked : Asks, seen : Messages \cup {NoMsg}]
  BY <1>1
<1> HIDE DEF q, run
<1>4. NetTypeOK'
  BY <1>1, <1>2, <1>3 DEF NetInv, NetTypeOK
<1>5. ASSUME NEW o \in Runs PROVE RunInv(o)'
  <2>1. CASE o = r
    <3>1. tool'[r] = run /\ queries'[r] = q /\ replies'[r] = NoMsg
            /\ done'[r] = done[r]
      BY <1>2 DEF NetInv, NetTypeOK, RunInv
    <3>2. Undistorted /\ done[r] # NULL => done[r].asAsked \/ ~done[r].touched
      BY DEF NetInv, RunInv
    <3> QED
      BY <1>1, <1>3, <2>1, <3>1, <3>2, StatusesDiffer DEF RunInv, Told, Undistorted
  <2>2. CASE o # r
    BY <1>2, <2>2, OtherRun DEF NetInv, NetTypeOK
  <2> QED
    BY <2>1, <2>2
<1> QED
  BY <1>4, <1>5 DEF NetInv

LEMMA ReplyNet ==
  ASSUME NetInv, NEW r \in Runs, ReplyHandler(r)
  PROVE  NetInv'
<1>1. /\ tool' = [tool EXCEPT ![r].seen = replies[r]]
      /\ replies' = [replies EXCEPT ![r] = NoMsg]
      /\ UNCHANGED <<queries, done>> /\ tool[r] # NULL /\ replies[r] # NoMsg
  BY DEF ReplyHandler
<1>2. tool[r] \in [asked : Asks, seen : Messages \cup {NoMsg}] /\ replies[r] \in Messages
  BY <1>1 DEF NetInv, NetTypeOK
<1>3. /\ tool'[r] \in [asked : Asks, seen : Messages \cup {NoMsg}]
      /\ tool'[r].asked = tool[r].asked /\ tool'[r].seen = replies[r]
      /\ replies'[r] = NoMsg
      /\ \A o \in Runs \ {r} : tool'[o] = tool[o] /\ replies'[o] = replies[o]
  BY <1>1, <1>2 DEF NetInv, NetTypeOK
<1>4. NetTypeOK'
  <2>1. tool' \in [Runs -> {NULL} \cup [asked : Asks, seen : Messages \cup {NoMsg}]]
    <3>1. DOMAIN tool' = Runs /\ tool' = [o \in Runs |-> tool'[o]]
      BY <1>1 DEF NetInv, NetTypeOK
    <3>2. \A o \in Runs : tool'[o] \in {NULL} \cup [asked : Asks, seen : Messages \cup {NoMsg}]
      BY <1>3 DEF NetInv, NetTypeOK
    <3> QED
      BY <3>1, <3>2
  <2>2. replies' \in [Runs -> Messages \cup {NoMsg}]
    BY <1>1 DEF NetInv, NetTypeOK
  <2> QED
    BY <1>1, <2>1, <2>2 DEF NetInv, NetTypeOK
<1>5. ASSUME NEW o \in Runs PROVE RunInv(o)'
  <2>1. CASE o = r
    <3>1. Told(r, replies[r]) /\ tool[r] # NULL /\ done'[r] = done[r]
      BY <1>1 DEF NetInv, RunInv
    <3>2. Undistorted /\ done[r] # NULL => done[r].asAsked \/ ~done[r].touched
      BY DEF NetInv, RunInv
    <3>3. Undistorted => /\ replies[r] = Status(STATUS_OK) => done[r].asAsked
                         /\ replies[r] = Status(STATUS_ERR) => ~done[r].touched
      BY <3>1 DEF Told
    <3>4. /\ tool'[r].seen = replies[r] /\ replies'[r] = NoMsg
          /\ queries'[r] = queries[r] /\ queries[r] = NoQuery
      BY <1>1, <1>2, <1>3 DEF NetInv, RunInv
    <3> QED
      BY <2>1, <3>1, <3>2, <3>3, <3>4, StatusesDiffer DEF RunInv, Told, Undistorted
  <2>2. CASE o # r
    BY <1>1, <1>3, <2>2, OtherRun DEF NetInv
  <2> QED
    BY <2>1, <2>2
<1> QED
  BY <1>4, <1>5 DEF NetInv

LEMMA ExitNet ==
  ASSUME NetInv, NEW r \in Runs, Exit(r)
  PROVE  NetInv'
<1>1. /\ tool' = [tool EXCEPT ![r] = NULL] /\ replies' = [replies EXCEPT ![r] = NoMsg]
      /\ done' = [done EXCEPT ![r] = NULL] /\ UNCHANGED queries
  BY DEF Exit
<1>2. NetTypeOK'
  BY <1>1 DEF NetInv, NetTypeOK
<1>3. ASSUME NEW o \in Runs PROVE RunInv(o)'
  <2>1. CASE o = r
    BY <1>1, <2>1 DEF NetInv, NetTypeOK, RunInv
  <2>2. CASE o # r
    BY <1>1, <2>2, OtherRun DEF NetInv, NetTypeOK
  <2> QED
    BY <2>1, <2>2
<1> QED
  BY <1>2, <1>3 DEF NetInv

LEMMA LoseNet ==
  ASSUME NetInv, NEW r \in Runs, Lose(r)
  PROVE  NetInv'
<1>1. UNCHANGED <<tool, done>>
  BY DEF Lose
<1>2. \/ queries' = [queries EXCEPT ![r] = NoQuery] /\ UNCHANGED replies
      \/ replies' = [replies EXCEPT ![r] = NoMsg] /\ UNCHANGED queries
  BY DEF Lose
<1>3. NetTypeOK'
  BY <1>1, <1>2 DEF NetInv, NetTypeOK
<1>4. ASSUME NEW o \in Runs PROVE RunInv(o)'
  <2>1. CASE o = r
    <3>1. \/ queries'[r] = NoQuery /\ replies'[r] = replies[r]
          \/ replies'[r] = NoMsg /\ queries'[r] = queries[r]
      BY <1>2 DEF NetInv, NetTypeOK
    <3> QED
      BY <1>1, <2>1, <3>1, StatusesDiffer DEF NetInv, RunInv, Told
  <2>2. CASE o # r
    BY <1>1, <1>2, <2>2, OtherRun DEF NetInv, NetTypeOK
  <2> QED
    BY <2>1, <2>2
<1> QED
  BY <1>3, <1>4 DEF NetInv

-----------------------------------------------------------------------------
(* The step in which node B executes a query.                               *)

\* The query of run r is one of the commands of ZdcNode.
LEMMA HandledQuery ==
  ASSUME SInv, NEW r \in Runs, HandleQuery(r)
  PROVE  LET q == queries[r]
         IN /\ q # NoQuery /\ q.arg \in Args
            /\ \/ /\ q.cmd = "SET_ENTITY_STATE" /\ q.id \in EntityIds /\ q.arg \in {OFF, ON}
                  /\ SetEntityState(q.id, q.arg)
               \/ /\ q.cmd = "SET_ENTITY_KEYEXPR" /\ q.id \in EntityIds /\ q.arg \in KeyExprs
                  /\ SetEntityKeyexpr(q.id, q.arg)
               \/ q.cmd = "LIST_ENTITIES_REQ" /\ ListEntities
<1>1. queries[r] # NoQuery /\ queries[r] \in Queries
  BY DEF HandleQuery, SInv, NetInv, NetTypeOK
<1>2. CASE queries[r] \in [cmd : {"SET_ENTITY_STATE"}, id : EntityIds, arg : {OFF, ON}]
  BY <1>1, <1>2 DEF HandleQuery, Args
<1>3. CASE queries[r] \in [cmd : {"SET_ENTITY_KEYEXPR"}, id : EntityIds, arg : KeyExprs]
  BY <1>1, <1>3 DEF HandleQuery, Args
<1>4. CASE queries[r] = EncodeListEntity
  BY <1>1, <1>4 DEF HandleQuery, Args, EncodeListEntity
<1> QED
  BY <1>1, <1>2, <1>3, <1>4 DEF Queries

LEMMA HandledIsCommand ==
  ASSUME SInv, NEW r \in Runs, HandleQuery(r)
  PROVE  zdc_cmd_handler
<1>1. {OFF, ON} \subseteq StateVals
  BY ToolCommands
<1> QED
  BY <1>1, HandledQuery DEF zdc_cmd_handler

\* What is noted for a run that is still under way when its query is executed.
LEMMA NotedType ==
  ASSUME NEW asked
  PROVE  [asAsked |-> CarriesOut(asked),
          touched |-> \E e \in Registered : entity_list'[e] # entity_list[e]] \in Outcomes
<1>1. CarriesOut(asked) \in BOOLEAN
  BY DEF CarriesOut, Shows
<1> QED
  BY <1>1 DEF Outcomes

\* Node B left the added entities alone, or did what the run asked for.
LEMMA AnswerIsTold ==
  ASSUME SInv, Undistorted, NEW r \in Runs, HandleQuery(r), tool[r] # NULL
  PROVE  /\ reply' = Status(STATUS_OK) => CarriesOut(tool[r].asked)
         /\ reply' = Status(STATUS_ERR) => Untouched
         /\ CarriesOut(tool[r].asked) \/ Untouched
<1> DEFINE q == queries[r]
           asked == tool[r].asked
<1>1. asked \in Asks /\ Encodes(q, asked)
  BY HandledQuery DEF SInv, NetInv, NetTypeOK, RunInv
<1>2. CASE q.cmd = "LIST_ENTITIES_REQ"
  <2>1. UNCHANGED entity_list
    BY <1>2, HandledQuery, ListAnswer
  <2> QED
    BY <1>1, <1>2, <2>1 DEF Encodes, CarriesOut, Untouched
<1>3. ASSUME NEW cmd \in {"state", "keyexpr"}, asked.cmd = cmd, q.id \in Eid
      PROVE  asked = [cmd |-> cmd, id |-> q.id, arg |-> q.arg]
  <2>1. asked.id \in TargetIds /\ q.id = UintFast8(asked.id) /\ q.arg = asked.arg
    BY <1>1, <1>3 DEF Encodes
  <2>2. asked.id \in -1 .. 255
    BY <2>1 DEF Undistorted, ByteTargets
  <2>3. q.id \in 0 .. 254
    BY <1>3, NodeAssumption DEF Eid
  <2>4. q.id = asked.id
    BY <2>1, <2>2, <2>3 DEF UintFast8
  <2> HIDE DEF asked, q
  <2> QED
    BY <1>1, <1>3, <2>1, <2>4 DEF Asks
<1>4. CASE /\ q.cmd = "SET_ENTITY_STATE" /\ q.id \in EntityIds /\ q.arg \in {OFF, ON}
           /\ SetEntityState(q.id, q.arg)
  <2>1. asked.cmd = "state"
    BY <1>1, <1>4 DEF Encodes
  <2>2. LeftAlone \/ (q.id \in Eid /\ Done([cmd |-> "state", id |-> q.id, arg |-> q.arg]))
    BY <1>4, SetStateAnswer DEF SInv, Undistorted
  <2> HIDE DEF asked, q
  <2>3. q.id \in Eid => asked = [cmd |-> "state", id |-> q.id, arg |-> q.arg]
    BY <1>3, <2>1
  <2> QED
    BY <2>2, <2>3 DEF asked, LeftAlone, Done
<1>5. CASE /\ q.cmd = "SET_ENTITY_KEYEXPR" /\ q.id \in EntityIds /\ q.arg \in KeyExprs
           /\ SetEntityKeyexpr(q.id, q.arg)
  <2>1. asked.cmd = "keyexpr"
    BY <1>1, <1>5 DEF Encodes
  <2>2. LeftAlone \/ (q.id \in Eid /\ Done([cmd |-> "keyexpr", id |-> q.id, arg |-> q.arg]))
    BY <1>5, SetKeyexprAnswer DEF SInv, Undistorted
  <2> HIDE DEF asked, q
  <2>3. q.id \in Eid => asked = [cmd |-> "keyexpr", id |-> q.id, arg |-> q.arg]
    BY <1>3, <2>1
  <2> QED
    BY <2>2, <2>3 DEF asked, LeftAlone, Done
<1> QED
  BY <1>2, <1>4, <1>5, HandledQuery

LEMMA HandleNet ==
  ASSUME SInv, NEW r \in Runs, HandleQuery(r)
  PROVE  NetInv'
<1>1. reply' \in Messages \cup {NoMsg}
  BY HandledIsCommand, HandlerType DEF SInv, IInv, TypeOK
<1>2. queries' = [queries EXCEPT ![r] = NoQuery] /\ UNCHANGED tool
  BY DEF HandleQuery
<1>3. CASE tool[r] = NULL
  <2>1. UNCHANGED <<replies, done>>
    BY <1>3 DEF HandleQuery
  <2>2. NetTypeOK'
    BY <1>2, <2>1 DEF SInv, NetInv, NetTypeOK
  <2>3. ASSUME NEW o \in Runs PROVE RunInv(o)'
    <3>1. CASE o = r
      BY <1>2, <1>3, <2>1, <3>1 DEF SInv, NetInv, RunInv
    <3>2. CASE o # r
      BY <1>2, <2>1, <3>2, OtherRun DEF SInv, NetInv, NetTypeOK
    <3> QED
      BY <3>1, <3>2
  <2> QED
    BY <2>2, <2>3 DEF NetInv
<1>4. CASE tool[r] # NULL
  <2> DEFINE noted == [asAsked |-> CarriesOut(tool[r].asked),
                       touched |-> \E e \in Registered : entity_list'[e] # entity_list[e]]
  <2>1. /\ replies' = [replies EXCEPT ![r] = reply']
        /\ done' = [done EXCEPT ![r] = noted]
    BY <1>4 DEF HandleQuery
  <2>2. noted \in Outcomes
    BY NotedType
  <2>3. Undistorted => /\ reply' = Status(STATUS_OK) => noted.asAsked
                       /\ reply' = Status(STATUS_ERR) => ~noted.touched
                       /\ noted.asAsked \/ ~noted.touched
    BY <1>4, AnswerIsTold DEF Untouched
  <2> HIDE DEF noted
  <2>4. NetTypeOK'
    BY <1>1, <1>2, <2>1, <2>2 DEF SInv, NetInv, NetTypeOK
  <2>5. ASSUME NEW o \in Runs PROVE RunInv(o)'
    <3>1. CASE o = r
      <4>1. /\ queries'[r] = NoQuery /\ replies'[r] = reply' /\ tool'[r] = tool[r]
            /\ done'[r] = noted
        BY <1>2, <2>1 DEF SInv, NetInv, NetTypeOK
      <4>2. tool[r].seen = NoMsg
        BY <1>4, HandledQuery DEF SInv, NetInv, RunInv
      <4> QED
        BY <1>4, <2>3, <3>1, <4>1, <4>2, StatusesDiffer DEF RunInv, Told, Undistorted
    <3>2. CASE o # r
      BY <1>2, <2>1, <3>2, OtherRun DEF SInv, NetInv, NetTypeOK
    <3> QED
      BY <3>1, <3>2
  <2> QED
    BY <2>4, <2>5 DEF NetInv
<1> QED
  BY <1>3, <1>4

-----------------------------------------------------------------------------
(* Node B within the system.                                                *)

LEMMA NodeStep ==
  ASSUME SInv, [SysNext]_sysVars
  PROVE  [Next]_vars
<1>1. ASSUME NEW r \in Runs, HandleQuery(r) PROVE Next
  BY <1>1, HandledIsCommand DEF Next
<1>2. ASSUME NEW r \in Runs,
             (\E args \in Arguments : Start(r, args)) \/ ReplyHandler(r) \/ Exit(r) \/ Lose(r)
      PROVE  UNCHANGED vars
  BY <1>2 DEF Start, ReplyHandler, Exit, Lose
<1> QED
  BY <1>1, <1>2 DEF SysNext, sysVars, Next

LEMMA StepS == ASSUME SInv, [SysNext]_sysVars PROVE SInv'
<1>1. IInv' /\ NInv'
  BY NodeStep, StepInv, StepN, ToolCommands DEF SInv
<1>2. NetInv'
  <2>1. ASSUME NEW r \in Runs, HandleQuery(r) PROVE NetInv'
    BY <2>1, HandleNet
  <2>2. ASSUME NEW r \in Runs, NEW args \in Arguments, Start(r, args) PROVE NetInv'
    BY <2>2, StartNet DEF SInv
  <2>3. ASSUME NEW r \in Runs, ReplyHandler(r) \/ Exit(r) \/ Lose(r) PROVE NetInv'
    BY <2>3, ReplyNet, ExitNet, LoseNet DEF SInv
  <2>4. ASSUME UNCHANGED net PROVE NetInv'
    <3>1. NetInv /\ UNCHANGED <<tool, queries, replies, done>>
      BY <2>4 DEF net, SInv
    <3>2. \A r \in Runs : RunInv(r)'
      BY <3>1, OtherRun DEF NetInv
    <3>3. NetTypeOK'
      BY <3>1 DEF NetInv, NetTypeOK, Outcomes, Messages
    <3> QED
      BY <3>2, <3>3 DEF NetInv
  <2> QED
    BY <2>1, <2>2, <2>3, <2>4 DEF SysNext, sysVars
<1> QED
  BY <1>1, <1>2 DEF SInv

THEOREM SystemInvariance == SysSpec => []SInv
<1>1. SInv /\ [SysNext]_sysVars => SInv'
  BY StepS
<1> QED
  BY <1>1, InitS, PTL DEF SysSpec

\* Whatever the runs of the tool ask and the network loses or delays, node B
\* goes through a behaviour of ZdcNode: all that is proved of ZdcNode is true
\* of the node in the system.
THEOREM SystemImplementsNode == SysSpec => Spec
<1>1. SysInit => Init
  BY DEF SysInit
<1>2. SInv /\ [SysNext]_sysVars => [Next]_vars
  BY NodeStep
<1> QED
  BY <1>1, <1>2, SystemInvariance, PTL DEF SysSpec, Spec

-----------------------------------------------------------------------------
(* The properties.                                                          *)

\* With ids of one byte, and as long as zenoh accepts what is declared, "Ok"
\* is only printed by a run whose query made node B's table what the user
\* asked for, and "Err" by one whose query changed no added entity, however
\* many runs are under way; system_wrapped_id shows a wider id for which it
\* is not so.
THEOREM PrintedStatusIsTrue ==
  ASSUME ByteTargets, FALSE \notin DeclareResults PROVE SysSpec => []StatusIsTrue
<1>1. SInv => StatusIsTrue
  BY DEF SInv, NetInv, RunInv, Told, StatusIsTrue, Undistorted
<1> QED
  BY <1>1, SystemInvariance, PTL

\* Under the same assumptions, a run that never gets its answer has had its
\* request carried out as asked, or no added entity was changed by it.
THEOREM RunsDoNothingElse ==
  ASSUME ByteTargets, FALSE \notin DeclareResults PROVE SysSpec => []NothingElseIsDone
<1>1. SInv => NothingElseIsDone
  BY DEF SInv, NetInv, RunInv, NothingElseIsDone, Undistorted
<1> QED
  BY <1>1, SystemInvariance, PTL

\* Node B acts on the id that was encoded, whatever the static payload held.
THEOREM EncodedIdArrives == SysSpec => IdArrivesIntact
<1>1. SInv /\ [SysNext]_sysVars =>
        [\A r \in Runs : HandleQuery(r) /\ queries[r].cmd # "LIST_ENTITIES_REQ"
                         => rx_id' = queries[r].id]_sysVars
  <2> SUFFICES ASSUME SInv, NEW r \in Runs, HandleQuery(r),
                      queries[r].cmd # "LIST_ENTITIES_REQ"
               PROVE  rx_id' = queries[r].id
    OBVIOUS
  <2> QED
    BY HandledQuery, IdArrives DEF SInv
<1> QED
  BY <1>1, SystemInvariance, PTL DEF SysSpec, IdArrivesIntact

\* The slot is already as the repeated command would make it.
LEMMA UpdateTwice ==
  ASSUME NEW ent \in Entities, AddedConsistent(ent), NEW s \in {OFF, ON}
  PROVE  LET once == UpdateEntityState(ent, s, TRUE)
         IN /\ UpdateEntityState(once, s, TRUE) = once
            /\ UpdateOrphans(once, s) = {}
<1> DEFINE once == UpdateEntityState(ent, s, TRUE)
<1>1. /\ once.state = s
      /\ DOMAIN once = {"type", "state", "ke_suffix", "ke_size", "data"}
      /\ once = [x \in DOMAIN once |-> once[x]]
  <2>1. ent.type \in Types
    BY DEF AddedConsistent
  <2> QED
    BY <2>1, SmallStates DEF UpdateEntityState, UpdateReturns, Switch, Entities
<1> HIDE DEF once
<1>2. ~MustSwitch(once, s)
  BY <1>1 DEF MustSwitch
<1>3. UpdateEntityState(once, s, TRUE) = [once EXCEPT !.state = s]
  BY <1>2, SmallStates DEF UpdateEntityState, UpdateReturns
<1>4. [once EXCEPT !.state = s] = once
  BY <1>1
<1> QED
  BY <1>2, <1>3, <1>4 DEF once, UpdateOrphans

\* The declaration that comes out of a rename zenoh does not refuse.
LEMMA RenameData ==
  ASSUME NEW ent \in Entities, NEW ke \in KeyExprs, ent.type \in Types
  PROVE  RenameEntity(ent, ke, TRUE).data =
           IF ent.state = ON /\ ent.type \in Declarable THEN ke ELSE ent.data
<1> DEFINE stored == StoredStopped(ent, ke)
<1>1. CASE ent.state = ON
  <2>1. /\ MustSwitch(ent, OFF) /\ UpdateReturns(ent, OFF)
        /\ UpdateEntityState(ent, OFF, TRUE).state = OFF
        /\ UpdateEntityState(ent, OFF, TRUE).data =
             IF ent.type \in Declarable THEN NULL ELSE ent.data
    BY <1>1, SmallStates
    DEF MustSwitch, UpdateReturns, UpdateEntityState, Switch, Entities
  <2>2. /\ stored.state = OFF /\ stored.type = ent.type /\ stored.ke_suffix = ke
        /\ stored.data = IF ent.type \in Declarable THEN NULL ELSE ent.data
        /\ DOMAIN stored = {"type", "state", "ke_suffix", "ke_size", "data"}
    BY <1>1, <2>1, StoredKeeps DEF Restarts, Entities
  <2> HIDE DEF stored
  <2>3. UpdateEntityState(stored, ON, TRUE).data =
          IF ent.type \in Declarable THEN ke ELSE ent.data
    <3>1. MustSwitch(stored, ON) /\ UpdateReturns(stored, ON)
      BY <2>2, SmallStates DEF MustSwitch, UpdateReturns
    <3> QED
      BY <2>2, <3>1 DEF UpdateEntityState, Switch
  <2> QED
    BY <1>1, <2>3 DEF RenameEntity, Restarts, stored
<1>2. CASE ent.state # ON
  BY <1>2, StoredKeeps DEF RenameEntity, Restarts
<1> QED
  BY <1>1, <1>2

LEMMA RenameTwice ==
  ASSUME NEW ent \in Entities, AddedConsistent(ent), NEW ke \in KeyExprs
  PROVE  LET once == RenameEntity(ent, ke, TRUE)
         IN /\ RenameEntity(once, ke, TRUE) = once
            /\ RenameOrphans(once, ke) = {}
<1> DEFINE once  == RenameEntity(ent, ke, TRUE)
           twice == RenameEntity(once, ke, TRUE)
<1>1. ent.type \in Types /\ ~RenameIsUndefined(ent, ke)
  BY RenameAdded, NodeAssumption DEF AddedConsistent
<1>2. once \in Entities
  BY <1>1, RenameType
<1>3. /\ once.type = ent.type /\ once.state = ent.state /\ once.ke_suffix = ke
      /\ NewSize(ke) <= once.ke_size
      /\ once.data = IF ent.state = ON /\ ent.type \in Declarable THEN ke ELSE ent.data
  <2>1. once.ke_suffix = ke
    BY RenameKeeps
  <2>2. NewSize(ke) <= once.ke_size
    BY RenameKeeps
  <2>3. \A declared : RenameEntity(ent, ke, declared).type = ent.type
    BY RenameKeeps
  <2>4. once.state = ent.state
    BY <1>1, RenameKeepsSlotState
  <2>5. once.data = IF ent.state = ON /\ ent.type \in Declarable THEN ke ELSE ent.data
    BY <1>1, RenameData
  <2>6. once.type = ent.type
    BY <2>3
  <2> HIDE DEF once
  <2> QED
    BY <2>1, <2>2, <2>4, <2>5, <2>6
<1> HIDE DEF once
<1>4. ~RenameIsUndefined(once, ke)
  <2>1. AddedConsistent(once)
    <3>1. ent.state = ON /\ ent.type \in Declarable => once.data = once.ke_suffix
      BY <1>3
    <3>2. ~(ent.state = ON /\ ent.type \in Declarable) => once.data = ent.data
      BY <1>3
    <3>3. once.state \in {OFF, ON} /\ once.type \in Types /\ once.ke_suffix \in KeyExprs
      BY <1>3 DEF AddedConsistent
    <3> QED
      BY <1>3, <3>1, <3>2, <3>3, SmallStates DEF AddedConsistent, IsDeclared
  <2> QED
    BY <1>2, <2>1, RenameAdded, NodeAssumption
<1>5. twice \in Entities
  BY <1>2, <1>4, RenameType
<1>6. /\ twice.type = once.type /\ twice.state = once.state /\ twice.ke_suffix = once.ke_suffix
      /\ twice.ke_size = once.ke_size /\ twice.data = once.data
  <2>1. once.type \in Types
    BY <1>1, <1>3
  <2>2. twice.ke_suffix = ke /\ twice.type = once.type /\ twice.ke_size = once.ke_size
    BY <1>2, <1>3, RenameKeeps
  <2>3. twice.state = once.state
    BY <1>2, <2>1, RenameKeepsSlotState
  <2>4. twice.data = IF once.state = ON /\ once.type \in Declarable THEN ke ELSE once.data
    BY <1>2, <2>1, RenameData
  <2> HIDE DEF twice
  <2> QED
    BY <1>3, <2>2, <2>3, <2>4
<1> HIDE DEF twice
<1>7. twice = once
  BY <1>2, <1>5, <1>6 DEF Entities
<1> QED
  BY <1>2, <1>7, RenameOrphansNone DEF twice, once

\* A command that was carried out and whose reply was lost can be repeated.
THEOREM RetriesAreHarmless == SysSpec => []RetryIsHarmless
<1>1. SInv => RetryIsHarmless
  <2> SUFFICES ASSUME SInv, phase = "up", NEW e \in Registered
               PROVE  entity_list[e] \in Entities /\ AddedConsistent(entity_list[e])
    BY UpdateTwice, RenameTwice DEF RetryIsHarmless
  <2> QED
    BY NodeAssumption DEF SInv, IInv, SlotsConsistent, Registered, TypeOK, Eid, ElSize
<1> QED
  BY <1>1, SystemInvariance, PTL
=============================================================================
