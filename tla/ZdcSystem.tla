----------------------------- MODULE ZdcSystem -----------------------------
(***************************************************************************)
(* Runs of the node A tool against one node B.  Queries and replies may be *)
(* lost or late: a run waits one second and ends, its query may still be   *)
(* executed after that.  Several runs may be under way at once.            *)
(***************************************************************************)
EXTENDS ZdcNode, ZdcController

CONSTANTS
  Runs,   (* Runs of the tool that can be under way at the same time.         *)
  Heap    (* What malloc may leave in a slot.                                 *)

\* The commands node B gets are those the tool can send.
ASSUME SystemAssumption ==
  /\ TargetIds \subseteq Int
  /\ EntityIds = {UintFast8(n) : n \in TargetIds}
  /\ StateVals = {OFF, ON}

VARIABLES
  tool,     (* Per run: what was asked and the reply printed, NULL if it is   *)
            (* not under way.                                                 *)
  queries,  (* Queries in flight, by run; NoQuery if there is none.           *)
  replies,  (* Replies in flight, by run; NoMsg if there is none.             *)
  done      (* History: what a run's query did to node B's table while the    *)
            (* run was under way, NULL if it was not executed.                *)

net     == <<tool, queries, replies, done>>
sysVars == <<vars, net>>

-----------------------------------------------------------------------------
\* main, up to z_get.  A run whose arguments make no query ends there and
\* leaves no trace.
Start(r, args) ==
  /\ tool[r] = NULL /\ queries[r] = NoQuery
  /\ QueryOf(args) # NoQuery
  /\ tool' = [tool EXCEPT ![r] = [asked |-> Asked(args), seen |-> NoMsg]]
  /\ queries' = [queries EXCEPT ![r] = QueryOf(args)]
  /\ UNCHANGED <<vars, replies, done>>

\* reply_handler, while the run sleeps.
ReplyHandler(r) ==
  /\ tool[r] # NULL /\ replies[r] # NoMsg
  /\ tool' = [tool EXCEPT ![r].seen = replies[r]]
  /\ replies' = [replies EXCEPT ![r] = NoMsg]
  /\ UNCHANGED <<vars, queries, done>>

\* The second is over: the run closes its session, with or without a reply.
\* Its query may still be on the way.
Exit(r) ==
  /\ tool[r] # NULL
  /\ tool' = [tool EXCEPT ![r] = NULL]
  /\ replies' = [replies EXCEPT ![r] = NoMsg]
  /\ done' = [done EXCEPT ![r] = NULL]
  /\ UNCHANGED <<vars, queries>>

Lose(r) ==
  /\ \/ /\ queries[r] # NoQuery
        /\ queries' = [queries EXCEPT ![r] = NoQuery] /\ UNCHANGED replies
     \/ /\ replies[r] # NoMsg
        /\ replies' = [replies EXCEPT ![r] = NoMsg] /\ UNCHANGED queries
  /\ UNCHANGED <<vars, tool, done>>

\* The entity a change was asked for shows it, and no other slot changed.  An
\* added entity that is renamed stays on or off, and its declaration follows.
Shows(asked, old, new) ==
  /\ IF asked.cmd = "state"
     THEN new.state = asked.arg /\ new.ke_suffix = old.ke_suffix
     ELSE new.ke_suffix = asked.arg
  /\ asked.id \in Registered =>
       /\ asked.cmd = "keyexpr" => new.state = old.state
       /\ new.type \in Declarable =>
            IF new.state = ON THEN new.data = new.ke_suffix ELSE ~IsDeclared(new)

\* What this step does to the table is what was asked for.
CarriesOut(asked) ==
  IF asked.cmd = "entity" THEN UNCHANGED entity_list
  ELSE /\ asked.id \in Eid
       /\ \A e \in Eid \ {asked.id} : entity_list'[e] = entity_list[e]
       /\ Shows(asked, entity_list[asked.id], entity_list'[asked.id])

\* Node B's handler gets the query of run r, which may be over by then.
HandleQuery(r) ==
  LET q == queries[r]
  IN /\ \/ q # NoQuery /\ q.cmd = "SET_ENTITY_STATE" /\ SetEntityState(q.id, q.arg)
        \/ q # NoQuery /\ q.cmd = "SET_ENTITY_KEYEXPR" /\ SetEntityKeyexpr(q.id, q.arg)
        \/ q # NoQuery /\ q.cmd = "LIST_ENTITIES_REQ" /\ ListEntities
     /\ queries' = [queries EXCEPT ![r] = NoQuery]
     /\ IF tool[r] = NULL THEN UNCHANGED <<replies, done>>
        ELSE /\ replies' = [replies EXCEPT ![r] = reply']
             /\ done' = [done EXCEPT ![r] =
                  [asAsked |-> CarriesOut(tool[r].asked),
                   touched |-> \E e \in Registered : entity_list'[e] # entity_list[e]]]
     /\ UNCHANGED tool

SysInit ==
  /\ Init /\ \A e \in Eid : entity_list[e] \in Heap
  /\ tool = [r \in Runs |-> NULL]
  /\ queries = [r \in Runs |-> NoQuery]
  /\ replies = [r \in Runs |-> NoMsg]
  /\ done = [r \in Runs |-> NULL]

SysNext ==
  \/ \E r \in Runs :
       \/ \E args \in Arguments : Start(r, args)
       \/ ReplyHandler(r) \/ Exit(r) \/ Lose(r) \/ HandleQuery(r)
  \/ Application /\ UNCHANGED net

SysSpec == SysInit /\ [][SysNext]_sysVars

-----------------------------------------------------------------------------
(* Properties.                                                              *)

\* A printed status is true of node B's table: "Ok" means that the execution
\* of this run's query made the named entity what the user asked for, its
\* declaration included, and left the others alone; "Err" means that it
\* changed no added entity.
StatusIsTrue ==
  \A r \in Runs : tool[r] # NULL =>
    /\ tool[r].seen = Status(STATUS_OK) => done[r].asAsked
    /\ tool[r].seen = Status(STATUS_ERR) => ~done[r].touched

\* A run that learns nothing, because the answer was refused, lost or is
\* late, still knows this much: its query did what it asked for, or changed
\* no added entity at all.
NothingElseIsDone ==
  \A r \in Runs : done[r] # NULL => done[r].asAsked \/ ~done[r].touched

\* The id the tool encoded is the id node B acts on, whatever other runs sent
\* before: as long as ids are one byte wide, what the bridge keeps of an
\* earlier command does not show.
IdArrivesIntact ==
  [][\A r \in Runs : HandleQuery(r) /\ queries[r].cmd # "LIST_ENTITIES_REQ"
                      => rx_id' = queries[r].id]_sysVars

\* A command whose reply was lost can be sent again at once: on every added
\* entity, carrying it out a second time changes nothing and loses no
\* declaration, as long as zenoh accepts what is declared.
RetryIsHarmless ==
  phase = "up" => \A e \in Registered :
    /\ \A s \in {OFF, ON} :
         LET once == UpdateEntityState(entity_list[e], s, TRUE)
         IN /\ UpdateEntityState(once, s, TRUE) = once
            /\ UpdateOrphans(once, s) = {}
    /\ \A ke \in KeyExprs :
         LET once == RenameEntity(entity_list[e], ke, TRUE)
         IN /\ RenameEntity(once, ke, TRUE) = once
            /\ RenameOrphans(once, ke) = {}
=============================================================================
