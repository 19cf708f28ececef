-------------------------- MODULE ZdcThreadsProofs --------------------------
(***************************************************************************)
(* Proofs about the two threads of node B once the set-up is done before   *)
(* the first query arrives, for every set of key expressions and everything *)
(* malloc may have left in the slots.  The last two sections do without    *)
(* that order: what no query can undo however early it arrives, and what   *)
(* the publisher puts as long as it is not renamed itself.                 *)
(***************************************************************************)
EXTENDS ZdcThreads, TLAPS

\* No query arrives before the last zdc_add_*_entity.
Settled == ~EarlyCommands

-----------------------------------------------------------------------------
(* Types.                                                                   *)

Slots ==
  [type : Types \cup {BadType}, state : Int8Values,
   ke_suffix : KeyExprs \cup {NULL, Wild, Torn, Freed}, ke_size : Nat,
   data : KeyExprs \cup {NULL, Wild}]

Entry == [type : Types \cup {BadType}, state : Uint8, ke_len : Uint8,
          ke : KeyExprs \cup {NULL, Wild, Freed}]

Update == {"check", "mark", "switch", "store"}
SetUp  == {"boot", "type", "state", "size", "alloc", "copy", "added"}
Loop   == {"load", "ke", "put"}

ReadPcs ==
  {"idle", "set", "grow", "moved", "tear", "copied", "renamed", "entry"} \cup Update

Calls == [e : Eid, s : {OFF, ON}, ok : BOOLEAN,
          ret : {"idle", "added", "set", "grow", "renamed"}]

\* What TypeOK says, and the shape of the sequences and functions in it.
TypeInv ==
  /\ slots \in [Eid -> Slots]
  /\ el_idx \in 0 .. 3
  /\ DOMAIN pc = Thread
  /\ pc["main"] \in SetUp \cup Loop \cup Update
  /\ pc["read"] \in ReadPcs
  /\ upd \in [Thread -> Calls]
  /\ cmd \in [e : Eid, ke : KeyExprs \cup {NULL}, restart : BOOLEAN]
  /\ list \in [entries : Seq(Entry), tmp_idx : 0 .. 192] /\ Len(list.entries) \in 0 .. 3
  /\ dangling \in BOOLEAN
  /\ rx_id \in Uint16
  /\ reply \in Node!Messages \cup {NoMsg}
  /\ sample \in KeyExprs \cup {NULL, Torn}
  /\ fault \in {"none", "handler", "application", "overrun", "publisher"}
  /\ acked \in [Eid -> {OFF, ON, NULL}]
  /\ late \in 0 .. 2

LEMMA Sizes ==
  /\ EntityNb = 2 /\ ElSize = 3 /\ Eid = 0 .. 2 /\ Publisher = 1
  /\ Node!ElSize = 3 /\ Node!Eid = Eid /\ Node!ListBuffer = 192
<1>1. EntityNb = 2
  BY DEF EntityNb, Adds
<1> QED
  BY <1>1 DEF ElSize, Eid, Publisher, Node!ElSize, Node!Eid, Node!ListBuffer

LEMMA TypeInvImplies == TypeInv => TypeOK
<1> SUFFICES ASSUME TypeInv PROVE TypeOK
  OBVIOUS
<1>1. Len(list.entries) \in 0 .. ElSize /\ list.tmp_idx \in 0 .. Node!ListBuffer
  BY Sizes DEF TypeInv
<1>2. /\ pc["main"] \in {"boot", "type", "state", "size", "alloc", "copy", "added", "load",
                         "ke", "put", "check", "mark", "switch", "store"}
      /\ pc["read"] \in {"idle", "set", "grow", "moved", "tear", "copied", "renamed",
                         "entry", "check", "mark", "switch", "store"}
  BY DEF TypeInv, SetUp, Loop, Update, ReadPcs
<1>3. slots \in [Eid -> [type : Types \cup {BadType}, state : Int8Values,
                         ke_suffix : KeyExprs \cup {NULL, Wild, Torn, Freed}, ke_size : Nat,
                         data : KeyExprs \cup {NULL, Wild}]]
  BY DEF TypeInv, Slots
<1>4. upd \in [Thread -> [e : Eid, s : {OFF, ON}, ok : BOOLEAN,
                          ret : {"idle", "added", "set", "grow", "renamed"}]]
  BY DEF TypeInv, Calls
<1>5. el_idx \in 0 .. ElSize
  BY Sizes DEF TypeInv
<1> QED
  BY <1>1, <1>2, <1>3, <1>4, <1>5 DEF TypeInv, TypeOK

-----------------------------------------------------------------------------
(* The invariant.                                                           *)

\* A rename has the string of slot e in pieces, or moved and not yet stored.
Partial(e) ==
  /\ cmd.e = e
  /\ \/ pc["read"] = "copied" /\ slots[e].ke_suffix = Torn
     \/ pc["read"] = "moved" /\ slots[e].ke_suffix = Freed

\* The table and the set-up.  A slot the set-up has reached has a type; one
\* it is done with has a string, but for what a rename does to it.
Typed(e) == e < el_idx \/ (e = el_idx /\ pc["main"] \notin {"boot", "type"})
Named(e) == e < el_idx \/ (e = el_idx /\ pc["main"] \in Update \cup {"added"})

MainInv ==
  /\ pc["main"] \in {"type", "state", "size", "alloc", "copy"} => el_idx \in 1 .. 2
  /\ pc["main"] = "boot" => el_idx = 0
  /\ pc["main"] \in Update \cup {"added"} => el_idx < 3
  /\ pc["main"] \in Update => upd["main"].e = el_idx /\ upd["main"].ret = "added"
  /\ pc["main"] \in Loop <=> el_idx = 3
  /\ \A e \in Eid : Typed(e) => slots[e].type \in Types
  /\ \A e \in Eid : Named(e) => slots[e].ke_suffix \in KeyExprs \/ Partial(e)

\* Where the read task is in its command.
Setting  == pc["read"] = "set" \/ (pc["read"] \in Update /\ upd["read"].ret = "set")
Renaming == \/ pc["read"] \in {"grow", "moved", "tear", "copied", "renamed"}
            \/ pc["read"] \in Update /\ upd["read"].ret \in {"grow", "renamed"}

ReadInv ==
  /\ el_idx < 3 => pc["read"] = "idle" /\ late = 0 /\ \A e \in Eid : acked[e] = NULL
  /\ pc["read"] \in Update => upd["read"].ret \in {"set", "grow", "renamed"}
  /\ Renaming => cmd.ke \in KeyExprs
  /\ Renaming /\ pc["read"] \in Update =>
       /\ upd["read"].e = cmd.e /\ cmd.restart
       /\ upd["read"].s = IF upd["read"].ret = "grow" THEN OFF ELSE ON

\* The state of a slot for which one was acknowledged.
AckInv ==
  /\ Setting => acked[upd["read"].e] = NULL
  /\ pc["read"] = "set" /\ upd["read"].ok => slots[upd["read"].e].state = upd["read"].s
  /\ pc["read"] = "renamed" /\ cmd.restart => slots[cmd.e].state = ON
  /\ \A e \in Eid : acked[e] # NULL =>
       IF Renaming /\ cmd.e = e /\ cmd.restart THEN acked[e] = ON
                                               ELSE slots[e].state = acked[e]

\* The publisher has at most one put left once its OFF is acknowledged.
LateInv ==
  /\ late <= 1
  /\ late = 1 /\ acked[Publisher] = OFF => pc["main"] \notin {"ke", "put"}

\* A pointer the publisher took is stale while realloc has moved the string.
PointerInv == pc["main"] = "put" /\ slots[Publisher].ke_suffix = Freed => dangling

TInv == TypeInv /\ MainInv /\ ReadInv /\ AckInv /\ LateInv /\ PointerInv

LEMMA States ==
  /\ Int8(OFF) = OFF /\ Int8(ON) = ON /\ {OFF, ON, INVALID} \subseteq Int8Values
  /\ OFF # ON /\ OFF # INVALID /\ ON # INVALID /\ OFF # NULL /\ ON # NULL
  BY ThreadsAssumption DEF Int8, OFF, ON, INVALID, Int8Values

LEMMA InitT == Init => TInv
<1> SUFFICES ASSUME Init PROVE TInv
  OBVIOUS
<1>1. slots \in [Eid -> Slots]
  <2>1. MallocedSlots \subseteq Slots
    BY DEF MallocedSlots, ZeroSlot, WildSlots, Slots, Types, BadType, OFF, ON, INVALID, Int8Values
  <2> QED
    BY <2>1, ThreadsAssumption DEF Init
<1>2. pc["main"] = "boot" /\ pc["read"] = "idle" /\ DOMAIN pc = Thread
  BY DEF Init, Thread
<1>3. upd \in [Thread -> Calls] /\ cmd \in [e : Eid, ke : KeyExprs \cup {NULL}, restart : BOOLEAN]
  BY Sizes DEF Init, NoCall, NoCommand, Calls
<1>4. list \in [entries : Seq(Entry), tmp_idx : 0 .. 192] /\ Len(list.entries) \in 0 .. 3
  BY DEF Init, NoList
<1>5. rx_id \in Uint16
  BY DEF Init, Uint16, UINT16_MAX
<1>6. acked \in [Eid -> {OFF, ON, NULL}]
  BY DEF Init
<1>7. el_idx \in 0 .. 3 /\ late \in 0 .. 2
  BY DEF Init
<1>8. TypeInv
  BY <1>1, <1>2, <1>3, <1>4, <1>5, <1>6, <1>7 DEF Init, TypeInv, SetUp, ReadPcs
<1>9. MainInv
  BY <1>2, Sizes DEF Init, MainInv, Typed, Named, Update, Loop
<1>10. ReadInv /\ AckInv /\ LateInv /\ PointerInv
  BY <1>2, States DEF Init, ReadInv, AckInv, LateInv, PointerInv, Setting, Renaming, Update
<1> QED
  BY <1>8, <1>9, <1>10 DEF TInv

LEMMA UndefinedT ==
  ASSUME TInv, NEW kind \in {"handler", "application", "overrun"}, Undefined(kind)
  PROVE  TInv'
<1>1. UNCHANGED <<slots, el_idx, dangling, pc, upd, cmd, list, rx_id, sample, rest, acked,
                  late>>
      /\ fault' = kind /\ reply' = NoMsg
  BY DEF Undefined, shared, history
<1>2. TypeInv'
  BY <1>1 DEF TInv, TypeInv
<1>3. MainInv' /\ ReadInv' /\ AckInv' /\ LateInv' /\ PointerInv'
  BY <1>1
  DEF TInv, MainInv, ReadInv, AckInv, LateInv, PointerInv, Typed, Named, Partial, Setting,
      Renaming
<1> QED
  BY <1>2, <1>3 DEF TInv

LEMMA MoveType ==
  ASSUME TypeInv, NEW t \in Thread, NEW to, pc' = [pc EXCEPT ![t] = to]
  PROVE  /\ DOMAIN pc' = Thread /\ pc'[t] = to
         /\ \A o \in Thread \ {t} : pc'[o] = pc[o]
  BY DEF TypeInv

-----------------------------------------------------------------------------
(* The main thread: set-up.                                                 *)

\* A step of the set-up, which writes slot el_idx while no query arrives.
LEMMA SetUpStep ==
  ASSUME TInv, el_idx < 3,
         NEW to \in {"state", "size", "alloc", "copy", "added"} \cup Update,
         NEW ent \in Slots,
         pc' = [pc EXCEPT !["main"] = to], slots' = [slots EXCEPT ![el_idx] = ent],
         upd' \in [Thread -> Calls], upd'["read"] = upd["read"],
         UNCHANGED <<el_idx, cmd, list, dangling, rx_id, reply, sample, fault, acked, late>>,
         ent.type \in Types,
         to \in {"state", "size", "alloc", "copy"} => el_idx # 0,
         to \in Update \cup {"added"} => ent.ke_suffix \in KeyExprs,
         to \in Update => upd'["main"].e = el_idx /\ upd'["main"].ret = "added"
  PROVE  TInv'
<1>1. /\ DOMAIN pc' = Thread /\ pc'["main"] = to /\ pc'["read"] = "idle"
  BY MoveType DEF Thread, TInv, ReadInv
<1>2. el_idx \in 0 .. 2 /\ el_idx \in Eid
  BY Sizes DEF TInv, TypeInv
<1>3. slots' \in [Eid -> Slots] /\ slots'[el_idx] = ent
      /\ \A e \in Eid \ {el_idx} : slots'[e] = slots[e]
  BY <1>2 DEF TInv, TypeInv
<1>4. TypeInv'
  BY <1>1, <1>3 DEF TInv, TypeInv, SetUp
<1>5. MainInv'
  <2>1. \A e \in Eid : e < el_idx => e # el_idx
    BY <1>2, Sizes
  <2>2. to \notin Loop /\ to # "boot" /\ to # "type" /\ el_idx # 3
    BY <1>2 DEF Loop, Update
  <2>3. ASSUME NEW e \in Eid, Typed(e)' PROVE slots'[e].type \in Types
    <3>1. CASE e = el_idx
      BY <1>3, <3>1
    <3>2. CASE e # el_idx
      BY <1>3, <2>3, <3>2 DEF TInv, MainInv, Typed
    <3> QED
      BY <3>1, <3>2
  <2>4. ASSUME NEW e \in Eid, Named(e)' PROVE slots'[e].ke_suffix \in KeyExprs
    <3>1. CASE e = el_idx
      BY <1>1, <1>2, <1>3, <2>4, <3>1 DEF Named
    <3>2. CASE e # el_idx
      BY <1>3, <2>4, <3>2 DEF TInv, MainInv, ReadInv, Named, Partial
    <3> QED
      BY <3>1, <3>2
  <2> QED
    BY <1>1, <1>2, <2>2, <2>3, <2>4 DEF MainInv, Update
<1>6. ReadInv' /\ AckInv' /\ LateInv'
  BY <1>1, <1>2, States, Sizes
  DEF TInv, ReadInv, AckInv, LateInv, Setting, Renaming, Update
<1>7. PointerInv'
  BY <1>1 DEF PointerInv, Update
<1> QED
  BY <1>4, <1>5, <1>6, <1>7 DEF TInv

LEMMA SmallSlot ==
  ASSUME NEW ke \in KeyExprs
  PROVE  NewSize(ke) \in Nat /\ INVALID \in Int8Values /\ OFF \in Int8Values
  BY KeyExprAssumption, States DEF NewSize

LEMMA MainInitT ==
  ASSUME TInv, MainInit
  PROVE  TInv'
<1> DEFINE ent == [type |-> "QUERYABLE", state |-> OFF, ke_suffix |-> DefKe[0],
                   ke_size |-> NewSize(DefKe[0]), data |-> slots[0].data]
<1>1. el_idx = 0 /\ 0 \in Eid /\ slots[0] \in Slots /\ DefKe[0] \in KeyExprs
  BY Sizes, ThreadsAssumption DEF MainInit, Call, Move, TInv, MainInv, TypeInv
<1>2. ent \in Slots /\ ent.type \in Types /\ ent.ke_suffix \in KeyExprs
  BY <1>1, SmallSlot DEF Slots, Types
<1>3. upd' = [upd EXCEPT !["main"] = [e |-> 0, s |-> ON, ok |-> TRUE, ret |-> "added"]]
  BY DEF MainInit, Call
<1>4. upd' \in [Thread -> Calls] /\ upd'["read"] = upd["read"]
      /\ upd'["main"].e = 0 /\ upd'["main"].ret = "added"
  BY <1>1, <1>3 DEF TInv, TypeInv, Calls, Thread
<1>5. /\ pc' = [pc EXCEPT !["main"] = "check"] /\ slots' = [slots EXCEPT ![el_idx] = ent]
      /\ UNCHANGED <<el_idx, cmd, list, dangling, rx_id, reply, sample, fault, acked, late>>
  BY <1>1 DEF MainInit, Call, Move, SetSlot, MainRest
<1>6. el_idx < 3 /\ "check" \in Update
  BY <1>1 DEF Update
<1>7. "check" \notin {"state", "size", "alloc", "copy"}
  OBVIOUS
<1> HIDE DEF ent
<1> QED
  BY <1>1, <1>2, <1>4, <1>5, <1>6, <1>7, SetUpStep

LEMMA AddWriteT ==
  ASSUME TInv, NEW from \in {"type", "state", "size", "alloc"},
         NEW to \in {"state", "size", "alloc", "copy"}, NEW ent \in Slots,
         ent.type \in Types, AddWrite(from, to, ent)
  PROVE  TInv'
<1>1. pc["main"] = from /\ pc' = [pc EXCEPT !["main"] = to]
      /\ slots' = [slots EXCEPT ![el_idx] = ent]
      /\ UNCHANGED <<el_idx, upd, cmd, list, dangling, rx_id, reply, sample, fault, acked, late>>
  BY DEF AddWrite, Move, SetSlot, MainRest
<1>2. el_idx \in 1 .. 2
  BY <1>1 DEF TInv, MainInv
<1>3. el_idx < 3 /\ el_idx # 0
  BY <1>2
<1>4. upd' \in [Thread -> Calls] /\ upd'["read"] = upd["read"]
  BY <1>1 DEF TInv, TypeInv
<1>5. to \notin Update \cup {"added"}
  BY DEF Update
<1> QED
  BY <1>1, <1>3, <1>4, <1>5, SetUpStep

LEMMA AddT ==
  ASSUME TInv, AddType \/ AddState \/ AddSize \/ AddAlloc \/ AddCopy
  PROVE  TInv'
<1>1. pc["main"] \in {"type", "state", "size", "alloc", "copy"}
  BY DEF AddType, AddState, AddSize, AddAlloc, AddCopy, AddWrite, Call, Move
<1>2. el_idx \in 1 .. 2
  BY <1>1 DEF TInv, MainInv
<1>3. el_idx \in Eid /\ el_idx < 3 /\ el_idx # 0
  BY <1>2, Sizes
<1>4. slots[el_idx] \in Slots /\ (pc["main"] # "type" => slots[el_idx].type \in Types)
  BY <1>1, <1>3 DEF TInv, TypeInv, MainInv, Typed
<1>5. DefKe[el_idx] \in KeyExprs
  BY <1>3, ThreadsAssumption
<1>6. CASE AddType
  <2>1. Adds[el_idx].type \in Types
    BY <1>2 DEF Adds, Types
  <2>2. [slots[el_idx] EXCEPT !.type = Adds[el_idx].type] \in Slots
    BY <1>4, <2>1 DEF Slots
  <2>3. [slots[el_idx] EXCEPT !.type = Adds[el_idx].type].type \in Types
    BY <1>4, <2>1 DEF Slots
  <2> QED
    BY <1>6, <2>2, <2>3, AddWriteT DEF AddType
<1>7. CASE AddState
  <2>1. /\ [slots[el_idx] EXCEPT !.state = INVALID] \in Slots
        /\ [slots[el_idx] EXCEPT !.state = INVALID].type = slots[el_idx].type
    BY <1>4, States DEF Slots
  <2>2. pc["main"] = "state"
    BY <1>7 DEF AddState, AddWrite, Move
  <2> QED
    BY <1>4, <1>7, <2>1, <2>2, AddWriteT DEF AddState
<1>8. CASE AddSize
  <2>1. /\ [slots[el_idx] EXCEPT !.ke_size = NewSize(DefKe[el_idx])] \in Slots
        /\ [slots[el_idx] EXCEPT !.ke_size = NewSize(DefKe[el_idx])].type = slots[el_idx].type
    BY <1>4, <1>5, SmallSlot DEF Slots
  <2>2. pc["main"] = "size"
    BY <1>8 DEF AddSize, AddWrite, Move
  <2> QED
    BY <1>4, <1>8, <2>1, <2>2, AddWriteT DEF AddSize
<1>9. CASE AddAlloc
  <2>1. /\ [slots[el_idx] EXCEPT !.ke_suffix = Torn] \in Slots
        /\ [slots[el_idx] EXCEPT !.ke_suffix = Torn].type = slots[el_idx].type
    BY <1>4 DEF Slots
  <2>2. pc["main"] = "alloc"
    BY <1>9 DEF AddAlloc, AddWrite, Move
  <2> QED
    BY <1>4, <1>9, <2>1, <2>2, AddWriteT DEF AddAlloc
<1>10. CASE AddCopy /\ Undefined("application")
  BY <1>10, UndefinedT
<1>11. CASE AddCopy /\ ~Undefined("application")
  <2> DEFINE ent  == [slots[el_idx] EXCEPT !.ke_suffix = DefKe[el_idx]]
             call == [e |-> el_idx, s |-> IF Adds[el_idx].on THEN ON ELSE OFF, ok |-> TRUE,
                      ret |-> "added"]
  <2>1. ent \in Slots /\ ent.type = slots[el_idx].type /\ ent.ke_suffix \in KeyExprs
    BY <1>4, <1>5 DEF Slots
  <2>2. /\ pc["main"] = "copy" /\ pc' = [pc EXCEPT !["main"] = "check"]
        /\ upd' = [upd EXCEPT !["main"] = call] /\ slots' = [slots EXCEPT ![el_idx] = ent]
        /\ UNCHANGED <<el_idx, cmd, list, dangling, rx_id, reply, sample, fault, acked, late>>
    BY <1>11 DEF AddCopy, Call, Move, SetSlot, MainRest
  <2>3. call \in Calls /\ call.e = el_idx /\ call.ret = "added"
    BY <1>3 DEF Calls
  <2> HIDE DEF ent, call
  <2>4. upd' \in [Thread -> Calls] /\ upd'["read"] = upd["read"] /\ upd'["main"] = call
    BY <2>2, <2>3 DEF TInv, TypeInv, Thread
  <2>5. "check" \in Update /\ "check" \notin {"state", "size", "alloc", "copy"}
    BY DEF Update
  <2> QED
    BY <1>3, <1>4, <2>1, <2>2, <2>3, <2>4, <2>5, SetUpStep
<1> QED
  BY <1>6, <1>7, <1>8, <1>9, <1>10, <1>11

\* The update an added entity starts with.
LEMMA MainUpdateT ==
  ASSUME TInv, zdc_update_entity_state("main")
  PROVE  TInv'
<1> DEFINE ent == slots[el_idx]
           s   == upd["main"].s
<1>1. pc["main"] \in Update
  BY DEF zdc_update_entity_state, UpdateCheck, UpdateMark, UpdateSwitch, UpdateStore, Move, Update
<1>2. upd["main"].e = el_idx /\ upd["main"].ret = "added" /\ el_idx < 3 /\ el_idx \in Eid
  BY <1>1, Sizes DEF TInv, MainInv, TypeInv
<1>3. ent \in Slots /\ s \in {OFF, ON}
  BY <1>2 DEF TInv, TypeInv, Thread, Calls
<1>4. ent.type \in Types /\ ent.ke_suffix \in KeyExprs
  <2>1. pc["read"] = "idle" /\ pc["main"] \notin {"boot", "type"}
    BY <1>1, <1>2 DEF TInv, ReadInv, Update
  <2> QED
    BY <1>1, <1>2, <2>1 DEF TInv, MainInv, Typed, Named, Partial
<1>5. upd \in [Thread -> Calls]
  BY DEF TInv, TypeInv
<1> HIDE DEF ent, s
<1>6. ASSUME NEW to \in Update \cup {"added"}, NEW new \in Slots,
             new.type = ent.type, new.ke_suffix = ent.ke_suffix,
             pc' = [pc EXCEPT !["main"] = to], slots' = [slots EXCEPT ![el_idx] = new],
             UNCHANGED <<upd, fault>>, UpdateRest
      PROVE  TInv'
  <2>1. UNCHANGED <<el_idx, cmd, list, dangling, rx_id, reply, sample, acked, late>>
    BY <1>6 DEF UpdateRest, history
  <2>2. to \notin {"state", "size", "alloc", "copy"}
    BY DEF Update
  <2> QED
    BY <1>2, <1>4, <1>5, <1>6, <2>1, <2>2, SetUpStep
<1>7. CASE UpdateCheck("main")
  <2>1. slots' = [slots EXCEPT ![el_idx] = ent]
    BY <1>2, <1>7 DEF UpdateCheck, ent, TInv, TypeInv
  <2>2. PICK to \in Update \cup {"added"} : pc' = [pc EXCEPT !["main"] = to]
    BY <1>2, <1>7 DEF UpdateCheck, Move, Update
  <2> QED
    BY <1>3, <1>6, <1>7, <2>1, <2>2 DEF UpdateCheck
<1>8. CASE UpdateMark("main")
  <2>1. /\ [ent EXCEPT !.state = INVALID] \in Slots
        /\ [ent EXCEPT !.state = INVALID].type = ent.type
        /\ [ent EXCEPT !.state = INVALID].ke_suffix = ent.ke_suffix
    BY <1>3, States DEF Slots
  <2>2. /\ pc' = [pc EXCEPT !["main"] = "switch"] /\ "switch" \in Update
        /\ slots' = [slots EXCEPT ![el_idx] = [ent EXCEPT !.state = INVALID]]
        /\ UNCHANGED <<upd, fault>> /\ UpdateRest
    BY <1>2, <1>8 DEF UpdateMark, Move, SetSlot, Update, ent
  <2> QED
    BY <1>6, <2>1, <2>2
<1>9. CASE UpdateSwitch("main")
  <2>1. CASE Undefined("application")
    BY <2>1, UndefinedT
  <2>2. CASE ~Undefined("application")
    <3>1. PICK declared \in DeclareResults :
            /\ pc' = [pc EXCEPT !["main"] = "store"] /\ "store" \in Update
            /\ slots' = [slots EXCEPT ![el_idx] = Switch(ent, s, declared)]
            /\ UNCHANGED <<upd, fault>> /\ UpdateRest
      BY <1>2, <1>4, <1>9, <2>2 DEF UpdateSwitch, Move, SetSlot, Update, ent, s
    <3>2. /\ Switch(ent, s, declared) \in Slots /\ Switch(ent, s, declared).type = ent.type
          /\ Switch(ent, s, declared).ke_suffix = ent.ke_suffix
      BY <1>3, <1>4 DEF Switch, Slots
    <3> QED
      BY <1>6, <3>1, <3>2
  <2> QED
    BY <2>1, <2>2
<1>10. CASE UpdateStore("main")
  <2>1. /\ [ent EXCEPT !.state = Int8(s)] \in Slots
        /\ [ent EXCEPT !.state = Int8(s)].type = ent.type
        /\ [ent EXCEPT !.state = Int8(s)].ke_suffix = ent.ke_suffix
    BY <1>3, States DEF Slots
  <2>2. /\ pc' = [pc EXCEPT !["main"] = "added"]
        /\ slots' = [slots EXCEPT ![el_idx] = [ent EXCEPT !.state = Int8(s)]]
        /\ UNCHANGED <<upd, fault>> /\ UpdateRest
    BY <1>2, <1>10 DEF UpdateStore, Move, SetSlot, ent, s
  <2> QED
    BY <1>6, <2>1, <2>2
<1> QED
  BY <1>7, <1>8, <1>9, <1>10 DEF zdc_update_entity_state

LEMMA AddedT ==
  ASSUME TInv, Added
  PROVE  TInv'
<1> DEFINE to == IF el_idx < EntityNb THEN "type" ELSE "load"
<1>1. /\ pc["main"] = "added" /\ pc' = [pc EXCEPT !["main"] = to] /\ el_idx' = el_idx + 1
      /\ upd' = [upd EXCEPT !["main"] = NoCall]
      /\ UNCHANGED <<slots, cmd, list, dangling, rx_id, reply, sample, fault, acked, late>>
  BY DEF Added, Move, MainRest
<1>2. el_idx \in 0 .. 2 /\ to = (IF el_idx < 2 THEN "type" ELSE "load")
  BY <1>1, Sizes DEF TInv, MainInv, TypeInv
<1>3. pc["read"] = "idle" /\ late = 0 /\ \A e \in Eid : acked[e] = NULL
  BY <1>2 DEF TInv, ReadInv
<1>4. to \in {"type", "load"}
  OBVIOUS
<1> HIDE DEF to
<1>5. DOMAIN pc' = Thread /\ pc'["main"] = to /\ pc'["read"] = "idle"
  BY <1>1, <1>3, MoveType DEF TInv, Thread
<1>6. NoCall \in Calls
  BY Sizes DEF NoCall, Calls
<1>7. TypeInv'
  <2>1. upd' \in [Thread -> Calls]
    BY <1>1, <1>6 DEF TInv, TypeInv
  <2>2. el_idx' \in 0 .. 3
    BY <1>1, <1>2
  <2> QED
    BY <1>1, <1>4, <1>5, <2>1, <2>2 DEF TInv, TypeInv, SetUp, Loop, ReadPcs
<1>8. MainInv'
  <2>1. to = "type" => el_idx' \in 1 .. 2
    BY <1>1, <1>2
  <2>2. to = "load" <=> el_idx' = 3
    BY <1>1, <1>2
  <2>3. \A e \in Eid : (e < el_idx' => e < el_idx \/ e = el_idx)
    BY <1>1, <1>2, Sizes
  <2>4. \A e \in Eid : Typed(e)' => Typed(e)
    BY <1>1, <1>2, <1>4, <1>5, <2>2, <2>3, Sizes DEF Typed
  <2>5. \A e \in Eid : Named(e)' => Named(e)
    BY <1>1, <1>4, <1>5, <2>3 DEF Named, Update
  <2>6. \A e \in Eid : Named(e) => slots[e].ke_suffix \in KeyExprs
    BY <1>3 DEF TInv, MainInv, Partial
  <2> QED
    BY <1>1, <1>4, <1>5, <2>1, <2>2, <2>4, <2>5, <2>6 DEF TInv, MainInv, Update, Loop
<1>9. ReadInv' /\ AckInv' /\ LateInv' /\ PointerInv'
  BY <1>1, <1>3, <1>4, <1>5, States, Sizes
  DEF ReadInv, AckInv, LateInv, PointerInv, Setting, Renaming, Update
<1> QED
  BY <1>7, <1>8, <1>9 DEF TInv

-----------------------------------------------------------------------------
(* The main thread: the publisher loop.                                     *)

\* A turn of the loop leaves the table and the read task alone.
LEMMA LoopStep ==
  ASSUME TInv, el_idx = 3, NEW to \in Loop, pc' = [pc EXCEPT !["main"] = to],
         UNCHANGED <<slots, el_idx, upd, cmd, list, rx_id, reply, acked>>,
         dangling' \in BOOLEAN, sample' \in KeyExprs \cup {NULL, Torn},
         fault' \in {"none", "publisher"}, late' \in 0 .. 2, LateInv', PointerInv'
  PROVE  TInv'
<1>1. DOMAIN pc' = Thread /\ pc'["main"] = to /\ pc'["read"] = pc["read"]
  BY MoveType DEF Thread, TInv
<1>2. TypeInv'
  BY <1>1 DEF TInv, TypeInv
<1>3. MainInv'
  <2>1. \A e \in Eid : e < el_idx /\ e # el_idx
    BY Sizes
  <2>2. to \notin SetUp \cup Update
    BY DEF Loop, SetUp, Update
  <2> QED
    BY <1>1, <2>1, <2>2 DEF TInv, MainInv, Typed, Named, Partial, SetUp
<1>4. ReadInv' /\ AckInv'
  BY <1>1 DEF TInv, ReadInv, AckInv, Setting, Renaming
<1> QED
  BY <1>2, <1>3, <1>4 DEF TInv

LEMMA PublishT ==
  ASSUME TInv, Publish
  PROVE  TInv'
<1>1. /\ pc["main"] \in Loop /\ fault = "none"
      /\ UNCHANGED <<slots, el_idx, upd, cmd, list, rx_id, reply, acked>>
  BY DEF Publish, PubCheck, PubKeyexpr, PubPut, Move, PubRest, Loop
<1>2. el_idx = 3 /\ Publisher \in Eid /\ late \in 0 .. 2 /\ late <= 1
  BY <1>1, Sizes DEF TInv, MainInv, TypeInv, LateInv
<1>3. sample \in KeyExprs \cup {NULL, Torn} /\ dangling \in BOOLEAN
  BY DEF TInv, TypeInv
<1>4. pc["main"] = "put" /\ ~dangling => slots[Publisher].ke_suffix \in KeyExprs \cup {Torn}
  BY <1>2, Sizes DEF TInv, MainInv, PointerInv, Named, Partial
<1>5. CASE PubCheck
  <2>1. pc' = [pc EXCEPT !["main"] = "ke"] /\ slots[Publisher].state = ON
        /\ UNCHANGED <<dangling, sample, fault, late>>
    BY <1>5 DEF PubCheck, Move
  <2>2. acked[Publisher] # OFF
    BY <1>2, <2>1, States DEF TInv, AckInv
  <2>3. LateInv' /\ PointerInv'
    BY <1>1, <1>2, <2>1, <2>2, MoveType DEF LateInv, PointerInv, TInv, Thread
  <2> QED
    BY <1>1, <1>2, <1>3, <2>1, <2>3, LoopStep DEF Loop
<1>6. CASE PubKeyexpr
  <2>1. /\ pc["main"] = "ke" /\ pc' = [pc EXCEPT !["main"] = "put"]
        /\ dangling' = (slots[Publisher].ke_suffix = Freed)
        /\ UNCHANGED <<sample, fault, late>>
    BY <1>6 DEF PubKeyexpr, Move
  <2>2. LateInv' /\ PointerInv' /\ dangling' \in BOOLEAN
    BY <1>1, <2>1 DEF TInv, LateInv, PointerInv
  <2> QED
    BY <1>1, <1>2, <1>3, <2>1, <2>2, LoopStep DEF Loop
<1>7. CASE PubPut
  <2>1. pc["main"] = "put" /\ pc' = [pc EXCEPT !["main"] = "load"] /\ late' = CountLate
        /\ fault' = (IF dangling THEN "publisher" ELSE "none")
        /\ sample' = (IF dangling THEN sample ELSE slots[Publisher].ke_suffix)
        /\ UNCHANGED dangling
    BY <1>7 DEF PubPut, Move
  <2>2. pc'["main"] = "load"
    BY <2>1, MoveType DEF TInv, Thread
  <2>3. late' \in 0 .. 2 /\ late' <= 1
    <3>1. acked[Publisher] = OFF => late = 0
      BY <1>2, <2>1 DEF TInv, LateInv
    <3> QED
      BY <1>2, <2>1, <3>1 DEF CountLate
  <2>4. LateInv' /\ PointerInv'
    BY <2>2, <2>3 DEF LateInv, PointerInv
  <2>5. "load" \in Loop
    BY DEF Loop
  <2> QED
    BY <1>1, <1>2, <1>3, <1>4, <2>1, <2>3, <2>4, <2>5, LoopStep
<1> QED
  BY <1>5, <1>6, <1>7 DEF Publish

-----------------------------------------------------------------------------
(* The read task.  Its steps are taken with the set-up done.                *)

LEMMA ReadRuns ==
  ASSUME TInv, Settled, Dispatch \/ pc["read"] # "idle"
  PROVE  el_idx = 3
<1>1. Dispatch => el_idx = 3
  BY Sizes DEF Dispatch, Settled
<1>2. pc["read"] # "idle" => el_idx = 3
  BY DEF TInv, ReadInv, TypeInv
<1> QED
  BY <1>1, <1>2

LEMMA SettledSlots ==
  ASSUME TInv, el_idx = 3
  PROVE  /\ pc["main"] \in Loop
         /\ \A e \in Eid : slots[e].type \in Types
         /\ \A e \in Eid : slots[e].ke_suffix \in KeyExprs \/ Partial(e)
         /\ pc["read"] \notin {"moved", "copied"} =>
              \A e \in Eid : slots[e].ke_suffix \in KeyExprs
<1>1. \A e \in Eid : e < el_idx
  BY Sizes
<1> QED
  BY <1>1 DEF TInv, MainInv, Typed, Named, Partial

LEMMA SettledMainInv ==
  ASSUME el_idx' = 3, pc'["main"] \in Loop, \A e \in Eid : slots'[e].type \in Types,
         \A e \in Eid : slots'[e].ke_suffix \in KeyExprs \/ Partial(e)'
  PROVE  MainInv'
<1>1. pc'["main"] \notin SetUp \cup Update
  BY DEF Loop, SetUp, Update
<1> QED
  BY <1>1 DEF MainInv, SetUp

\* A step of the read task that writes slot w; what it does to the state of
\* the slot is left to ReadInv' and AckInv'.
LEMMA ReadStep ==
  ASSUME TInv, el_idx = 3, NEW to \in ReadPcs, pc' = [pc EXCEPT !["read"] = to],
         NEW w \in Eid, NEW new \in Slots, slots' = [slots EXCEPT ![w] = new],
         new.type = slots[w].type,
         \/ new.ke_suffix \in KeyExprs
         \/ cmd.e = w /\ \/ new.ke_suffix = Torn /\ to = "copied"
                         \/ new.ke_suffix = Freed /\ to = "moved",
         pc["read"] \in {"moved", "copied"} => w = cmd.e,
         upd' \in [Thread -> Calls], dangling' \in BOOLEAN,
         UNCHANGED <<el_idx, cmd, list, rx_id, reply, sample, fault, acked, late>>,
         ReadInv', AckInv', PointerInv'
  PROVE  TInv'
<1>1. DOMAIN pc' = Thread /\ pc'["read"] = to /\ pc'["main"] = pc["main"]
  BY MoveType DEF Thread, TInv
<1>2. slots' \in [Eid -> Slots] /\ slots'[w] = new /\ \A e \in Eid \ {w} : slots'[e] = slots[e]
  BY DEF TInv, TypeInv
<1>3. TypeInv'
  BY <1>1, <1>2 DEF TInv, TypeInv, ReadPcs
<1>4. MainInv'
  <2>1. ASSUME NEW e \in Eid
        PROVE  /\ slots'[e].type \in Types
               /\ slots'[e].ke_suffix \in KeyExprs \/ Partial(e)'
    <3>1. CASE e = w
      BY <1>1, <1>2, <3>1, SettledSlots DEF Partial
    <3>2. CASE e # w
      BY <1>2, <3>2, SettledSlots DEF Partial
    <3> QED
      BY <3>1, <3>2
  <2> QED
    BY <1>1, <2>1, SettledMainInv, SettledSlots
<1>5. LateInv'
  BY <1>1 DEF TInv, LateInv
<1> QED
  BY <1>3, <1>4, <1>5 DEF TInv

\* A step of zdc_update_entity_state in the read task: when it is the last
\* one, the slot is in the requested state.
LEMMA ReadUpdateStep ==
  ASSUME TInv, el_idx = 3, pc["read"] \in Update,
         NEW to \in Update \cup {upd["read"].ret},
         pc' = [pc EXCEPT !["read"] = to],
         NEW new \in Slots, slots' = [slots EXCEPT ![upd["read"].e] = new],
         new.type = slots[upd["read"].e].type,
         new.ke_suffix = slots[upd["read"].e].ke_suffix,
         to \notin Update => new.state = upd["read"].s,
         UNCHANGED <<upd, fault>>, UpdateRest
  PROVE  TInv'
<1> DEFINE w == upd["read"].e
<1>1. /\ w \in Eid /\ upd["read"].ret \in {"set", "grow", "renamed"} /\ to \in ReadPcs
      /\ pc["read"] \notin {"moved", "copied"}
      /\ upd \in [Thread -> Calls] /\ dangling \in BOOLEAN
  BY DEF TInv, TypeInv, ReadInv, Thread, Calls, Update, ReadPcs
<1>2. UNCHANGED <<el_idx, cmd, list, dangling, rx_id, reply, sample, acked, late>>
  BY DEF UpdateRest, history
<1>3. pc'["read"] = to
  BY MoveType DEF Thread, TInv
<1>4. (Setting' <=> Setting) /\ (Renaming' <=> Renaming)
  BY <1>1, <1>3 DEF Setting, Renaming, Update
<1>5. Renaming => w = cmd.e /\ cmd.restart /\ upd["read"].s = IF upd["read"].ret = "grow" THEN OFF ELSE ON
  BY DEF TInv, ReadInv
<1>6. ~Renaming => Setting
  BY <1>1 DEF Renaming, Setting
<1>7. ReadInv'
  BY <1>1, <1>2, <1>3, <1>4, <1>5 DEF TInv, ReadInv
<1>8. slots'[w] = new /\ \A e \in Eid \ {w} : slots'[e] = slots[e]
  BY <1>1 DEF TInv, TypeInv
<1> HIDE DEF w
<1>9. AckInv'
  <2>1. Setting' => acked'[upd'["read"].e] = NULL
    BY <1>2, <1>4 DEF TInv, AckInv
  <2>2. pc'["read"] \in {"set", "renamed"} => slots'[w].state = upd["read"].s
    BY <1>3, <1>8 DEF Update
  <2>3. pc'["read"] = "renamed" /\ cmd.restart => w = cmd.e /\ upd["read"].s = ON
    BY <1>1, <1>3, <1>4, <1>5, States DEF Renaming, Update
  <2>4. ASSUME NEW e \in Eid, acked[e] # NULL
        PROVE  IF Renaming /\ cmd.e = e /\ cmd.restart THEN acked[e] = ON
                                                       ELSE slots'[e].state = acked[e]
    <3>1. CASE e = w
      BY <1>5, <1>6, <2>4, <3>1 DEF TInv, AckInv, w
    <3>2. CASE e # w
      BY <1>8, <2>4, <3>2 DEF TInv, AckInv
    <3> QED
      BY <3>1, <3>2
  <2> QED
    BY <1>2, <1>4, <2>1, <2>2, <2>3, <2>4 DEF AckInv, w
<1>10. PointerInv'
  BY <1>2, <1>8, MoveType DEF TInv, PointerInv, Thread, w
<1>11. new.ke_suffix \in KeyExprs
  BY <1>1, SettledSlots DEF w
<1> QED
  BY <1>1, <1>2, <1>7, <1>9, <1>10, <1>11, ReadStep DEF w

LEMMA ReadUpdateT ==
  ASSUME TInv, Settled, zdc_update_entity_state("read")
  PROVE  TInv'
<1> DEFINE w   == upd["read"].e
           ent == slots[w]
           s   == upd["read"].s
           ret == upd["read"].ret
<1>1. pc["read"] \in Update
  BY DEF zdc_update_entity_state, UpdateCheck, UpdateMark, UpdateSwitch, UpdateStore, Move, Update
<1>2. el_idx = 3
  BY <1>1, ReadRuns DEF Update
<1>3. w \in Eid /\ s \in {OFF, ON}
  BY DEF TInv, TypeInv, Thread, Calls
<1>4. ent \in Slots /\ ent.type \in Types /\ ent.ke_suffix \in KeyExprs
  BY <1>1, <1>2, <1>3, SettledSlots DEF TInv, TypeInv, Update
<1> HIDE DEF ent, s
<1>5. CASE UpdateCheck("read")
  <2>1. slots' = [slots EXCEPT ![w] = ent]
    BY <1>3, <1>5 DEF UpdateCheck, ent, TInv, TypeInv
  <2>2. PICK to \in Update \cup {ret} :
          pc' = [pc EXCEPT !["read"] = to] /\ (to \notin Update => ent.state = s)
    BY <1>5 DEF UpdateCheck, Move, Update, ent, s
  <2>3. UNCHANGED <<upd, fault>> /\ UpdateRest
    BY <1>5 DEF UpdateCheck
  <2> QED
    BY <1>1, <1>2, <1>4, <2>1, <2>2, <2>3, ReadUpdateStep DEF ent, s
<1>6. CASE UpdateMark("read")
  <2> DEFINE new == [ent EXCEPT !.state = INVALID]
  <2>1. new \in Slots /\ new.type = ent.type /\ new.ke_suffix = ent.ke_suffix
    BY <1>4, States DEF Slots
  <2>2. /\ pc' = [pc EXCEPT !["read"] = "switch"] /\ "switch" \in Update
        /\ slots' = [slots EXCEPT ![w] = new]
        /\ UNCHANGED <<upd, fault>> /\ UpdateRest
    BY <1>6 DEF UpdateMark, Move, SetSlot, Update, ent
  <2> HIDE DEF new
  <2> QED
    BY <1>1, <1>2, <2>1, <2>2, ReadUpdateStep DEF ent
<1>7. CASE UpdateSwitch("read")
  <2>1. CASE Undefined("handler")
    BY <2>1, UndefinedT
  <2>2. CASE ~Undefined("handler")
    <3>1. PICK declared \in DeclareResults :
            /\ pc' = [pc EXCEPT !["read"] = "store"] /\ "store" \in Update
            /\ slots' = [slots EXCEPT ![w] = Switch(ent, s, declared)]
            /\ UNCHANGED <<upd, fault>> /\ UpdateRest
      BY <1>4, <1>7, <2>2 DEF UpdateSwitch, Move, SetSlot, Update, ent, s
    <3> DEFINE new == Switch(ent, s, declared)
    <3>2. /\ slots' = [slots EXCEPT ![w] = new]
          /\ new \in Slots /\ new.type = ent.type /\ new.ke_suffix = ent.ke_suffix
      BY <1>4, <3>1 DEF Switch, Slots
    <3> HIDE DEF new
    <3> QED
      BY <1>1, <1>2, <3>1, <3>2, ReadUpdateStep DEF ent
  <2> QED
    BY <2>1, <2>2
<1>8. CASE UpdateStore("read")
  <2> DEFINE new == [ent EXCEPT !.state = Int8(s)]
  <2>1. new \in Slots /\ new.type = ent.type /\ new.ke_suffix = ent.ke_suffix /\ new.state = s
    BY <1>3, <1>4, States DEF Slots
  <2>2. /\ pc' = [pc EXCEPT !["read"] = ret]
        /\ slots' = [slots EXCEPT ![w] = new]
        /\ UNCHANGED <<upd, fault>> /\ UpdateRest
    BY <1>8 DEF UpdateStore, Move, SetSlot, ent, s
  <2> HIDE DEF new
  <2> QED
    BY <1>1, <1>2, <2>1, <2>2, ReadUpdateStep DEF ent, s
<1> QED
  BY <1>5, <1>6, <1>7, <1>8 DEF zdc_update_entity_state

\* A step of a rename between its stop and its restart.
LEMMA RenameStepT ==
  ASSUME TInv, el_idx = 3, pc["read"] \in {"grow", "moved", "tear", "copied"},
         NEW to \in {"moved", "tear", "copied", "renamed", "check"},
         pc' = [pc EXCEPT !["read"] = to],
         NEW new \in Slots, slots' = [slots EXCEPT ![cmd.e] = new],
         new.type = slots[cmd.e].type, new.state = slots[cmd.e].state,
         \/ new.ke_suffix \in KeyExprs
         \/ new.ke_suffix = Torn /\ to = "copied"
         \/ new.ke_suffix = Freed /\ to = "moved",
         new.ke_suffix = Freed /\ cmd.e = Publisher /\ pc["main"] = "put" => dangling',
         dangling => dangling',
         IF to = "check"
         THEN /\ cmd.restart
              /\ upd' = [upd EXCEPT !["read"] =
                           [e |-> cmd.e, s |-> ON, ok |-> TRUE, ret |-> "renamed"]]
         ELSE UNCHANGED upd,
         to = "renamed" => ~cmd.restart,
         UNCHANGED <<cmd, fault>>, RenameRest, dangling' \in BOOLEAN, rx_id' = rx_id
  PROVE  TInv'
<1>1. cmd.e \in Eid /\ cmd.restart \in BOOLEAN /\ to \in ReadPcs
  BY DEF TInv, TypeInv, Update, ReadPcs
<1>2. UNCHANGED <<el_idx, cmd, list, rx_id, reply, sample, fault, acked, late>>
  BY DEF RenameRest, history
<1>3. pc'["read"] = to
  BY MoveType DEF Thread, TInv
<1>4. upd' \in [Thread -> Calls]
  <2>1. upd \in [Thread -> Calls]
    BY DEF TInv, TypeInv
  <2>2. CASE to = "check"
    <3>1. [e |-> cmd.e, s |-> ON, ok |-> TRUE, ret |-> "renamed"] \in Calls
      BY <1>1 DEF Calls
    <3> QED
      BY <2>1, <2>2, <3>1
  <2>3. CASE to # "check"
    BY <2>1, <2>3
  <2> QED
    BY <2>2, <2>3
<1>5. to = "check" => upd'["read"].e = cmd.e /\ upd'["read"].s = ON /\ upd'["read"].ret = "renamed"
  BY DEF TInv, TypeInv, Thread
<1>6. Renaming /\ ~Setting /\ Renaming' /\ ~Setting'
  BY <1>3, <1>5 DEF Renaming, Setting, Update
<1>7. ReadInv'
  BY <1>2, <1>3, <1>5, <1>6 DEF TInv, ReadInv, Update
<1>8. AckInv'
  <2>1. ASSUME NEW e \in Eid, acked[e] # NULL
        PROVE  IF cmd.e = e /\ cmd.restart THEN acked[e] = ON ELSE slots'[e].state = acked[e]
    <3>1. slots'[e].state = slots[e].state
      BY <1>1 DEF TInv, TypeInv
    <3> QED
      BY <1>6, <2>1, <3>1 DEF TInv, AckInv
  <2> QED
    BY <1>2, <1>3, <1>6, <2>1 DEF AckInv
<1>9. PointerInv'
  <2>1. pc'["main"] = pc["main"] /\ slots'[cmd.e] = new
        /\ \A e \in Eid \ {cmd.e} : slots'[e] = slots[e]
    BY <1>1, MoveType DEF TInv, TypeInv, Thread
  <2> QED
    BY <2>1, Sizes DEF TInv, PointerInv
<1> QED
  BY <1>1, <1>2, <1>4, <1>7, <1>8, <1>9, ReadStep

LEMMA RenamingT ==
  ASSUME TInv, Settled, RenameGrow \/ RenameStore \/ RenameTear \/ RenameCopied
  PROVE  TInv'
<1> DEFINE ent == slots[cmd.e]
<1>1. pc["read"] \in {"grow", "moved", "tear", "copied"}
  BY DEF RenameGrow, RenameStore, RenameTear, RenameCopied, Move, Call
<1>2. el_idx = 3 /\ cmd.e \in Eid /\ cmd.ke \in KeyExprs
  BY <1>1, ReadRuns DEF TInv, TypeInv, ReadInv, Renaming
<1>3. ent \in Slots /\ dangling \in BOOLEAN
      /\ (pc["read"] \notin {"moved", "copied"} => ent.ke_suffix \in KeyExprs)
      /\ Freed \notin KeyExprs /\ Torn # Freed /\ Freed # NULL
  BY <1>1, <1>2, SettledSlots, KeyExprAssumption, ThreadsAssumption DEF TInv, TypeInv
<1> HIDE DEF ent
<1>4. CASE RenameGrow
  <2> DEFINE new == Grow(ent, cmd.ke)
  <2>1. CASE Undefined("handler")
    BY <2>1, UndefinedT
  <2>2. CASE ~Undefined("handler") /\ pc' = [pc EXCEPT !["read"] = "tear"]
    <3>1. /\ pc["read"] = "grow"
          /\ slots' = [slots EXCEPT ![cmd.e] = new]
          /\ UNCHANGED <<upd, cmd, dangling, rx_id, fault>> /\ RenameRest
      BY <1>4, <2>2, MoveType DEF RenameGrow, Move, SetSlot, ent, TInv, Thread
    <3>2. new \in Slots /\ new.type = ent.type /\ new.state = ent.state
          /\ new.ke_suffix = ent.ke_suffix
      <4>1. ent.ke_suffix # NULL
        BY <1>3, <3>1, KeyExprAssumption
      <4> QED
        BY <1>2, <1>3, <4>1, SmallSlot DEF Grow, Slots
    <3> HIDE DEF new
    <3> QED
      BY <1>1, <1>2, <1>3, <2>2, <3>1, <3>2, RenameStepT DEF ent
  <2>3. CASE pc' = [pc EXCEPT !["read"] = "moved"]
    <3> DEFINE moved == [ent EXCEPT !.ke_suffix = Freed]
    <3>1. /\ slots' = [slots EXCEPT ![cmd.e] = moved]
          /\ dangling' = (dangling \/ (cmd.e = Publisher /\ pc["main"] = "put"))
          /\ UNCHANGED <<upd, cmd, rx_id, fault>> /\ RenameRest
      BY <1>4, <2>3, MoveType DEF RenameGrow, Undefined, Move, SetSlot, ent, TInv, Thread
    <3>2. moved \in Slots /\ moved.type = ent.type /\ moved.state = ent.state
          /\ moved.ke_suffix = Freed
      BY <1>3 DEF Slots
    <3> HIDE DEF moved
    <3> QED
      BY <1>1, <1>2, <1>3, <2>3, <3>1, <3>2, RenameStepT DEF ent
  <2> QED
    BY <1>4, <2>1, <2>2, <2>3 DEF RenameGrow, Move
<1>5. CASE RenameStore
  <2> DEFINE new == [ent EXCEPT !.ke_suffix = Torn, !.ke_size = NewSize(cmd.ke)]
  <2>1. /\ pc' = [pc EXCEPT !["read"] = "copied"]
        /\ slots' = [slots EXCEPT ![cmd.e] = new]
        /\ UNCHANGED <<upd, cmd, dangling, rx_id, fault>> /\ RenameRest
    BY <1>5 DEF RenameStore, Move, SetSlot, ent
  <2>2. new \in Slots /\ new.type = ent.type /\ new.state = ent.state /\ new.ke_suffix = Torn
    BY <1>2, <1>3, SmallSlot DEF Slots
  <2> HIDE DEF new
  <2> QED
    BY <1>1, <1>2, <1>3, <2>1, <2>2, RenameStepT DEF ent
<1>6. CASE RenameTear
  <2> DEFINE new == [ent EXCEPT !.ke_suffix = Torn]
  <2>1. /\ pc' = [pc EXCEPT !["read"] = "copied"]
        /\ slots' = [slots EXCEPT ![cmd.e] = new]
        /\ UNCHANGED <<upd, cmd, dangling, rx_id, fault>> /\ RenameRest
    BY <1>6 DEF RenameTear, Move, SetSlot, ent
  <2>2. new \in Slots /\ new.type = ent.type /\ new.state = ent.state /\ new.ke_suffix = Torn
    BY <1>3 DEF Slots
  <2> HIDE DEF new
  <2> QED
    BY <1>1, <1>2, <1>3, <2>1, <2>2, RenameStepT DEF ent
<1>7. CASE RenameCopied
  <2> DEFINE new == [ent EXCEPT !.ke_suffix = cmd.ke]
  <2>1. new \in Slots /\ new.type = ent.type /\ new.state = ent.state
        /\ new.ke_suffix = cmd.ke
    BY <1>2, <1>3 DEF Slots
  <2>2. /\ slots' = [slots EXCEPT ![cmd.e] = new]
        /\ UNCHANGED <<cmd, dangling, rx_id, fault>> /\ RenameRest
    BY <1>7 DEF RenameCopied, SetSlot, ent
  <2> HIDE DEF new
  <2>3. CASE cmd.restart
    <3>1. /\ pc' = [pc EXCEPT !["read"] = "check"]
          /\ upd' = [upd EXCEPT !["read"] =
                       [e |-> cmd.e, s |-> ON, ok |-> TRUE, ret |-> "renamed"]]
      BY <1>7, <2>3 DEF RenameCopied, Call, Move
    <3> QED
      BY <1>1, <1>2, <1>3, <2>1, <2>2, <2>3, <3>1, RenameStepT DEF ent
  <2>4. CASE ~cmd.restart
    <3>1. pc' = [pc EXCEPT !["read"] = "renamed"] /\ UNCHANGED upd
      BY <1>7, <2>4 DEF RenameCopied, Move
    <3> QED
      BY <1>1, <1>2, <1>3, <2>1, <2>2, <2>4, <3>1, RenameStepT DEF ent
  <2> QED
    BY <2>3, <2>4
<1> QED
  BY <1>4, <1>6, <1>7, <1>5

-----------------------------------------------------------------------------
(* The read task: steps that leave the table alone.                         *)

Commands == [e : Eid, ke : KeyExprs \cup {NULL}, restart : BOOLEAN]
Lists    == [entries : Seq(Entry), tmp_idx : 0 .. 192]

LEMMA SameSlotsStep ==
  ASSUME TInv, el_idx = 3, pc["read"] \notin {"moved", "copied"},
         NEW to \in ReadPcs,
         pc' = [pc EXCEPT !["read"] = to] \/ (UNCHANGED pc /\ pc["read"] = to),
         UNCHANGED <<slots, el_idx, dangling, sample, fault>>,
         upd' \in [Thread -> Calls], cmd' \in Commands,
         list' \in Lists, Len(list'.entries) \in 0 .. 3,
         rx_id' \in Uint16, reply' \in Node!Messages \cup {NoMsg},
         acked' \in [Eid -> {OFF, ON, NULL}], late' \in 0 .. 2,
         ReadInv', AckInv', LateInv'
  PROVE  TInv'
<1>1. DOMAIN pc' = Thread /\ pc'["read"] = to /\ pc'["main"] = pc["main"]
  BY MoveType DEF Thread, TInv, TypeInv
<1>2. TypeInv'
  BY <1>1 DEF TInv, TypeInv, ReadPcs, Commands, Lists
<1>3. MainInv'
  <2>1. \A e \in Eid : slots'[e].type \in Types /\ slots'[e].ke_suffix \in KeyExprs
    BY SettledSlots
  <2> QED
    BY <1>1, <2>1, SettledMainInv, SettledSlots
<1>4. PointerInv'
  BY <1>1 DEF TInv, PointerInv
<1> QED
  BY <1>2, <1>3, <1>4 DEF TInv

\* The query is over: the state of every slot is the one acknowledged.
LEMMA IdleStep ==
  ASSUME TInv, el_idx = 3, pc["read"] \notin {"moved", "copied"},
         pc' = [pc EXCEPT !["read"] = "idle"] \/ (UNCHANGED pc /\ pc["read"] = "idle"),
         UNCHANGED <<slots, el_idx, dangling, sample, fault>>,
         upd' \in [Thread -> Calls], cmd' \in Commands,
         list' \in Lists, Len(list'.entries) \in 0 .. 3,
         rx_id' \in Uint16, reply' \in Node!Messages \cup {NoMsg},
         acked' \in [Eid -> {OFF, ON, NULL}], late' \in 0 .. 2,
         \A e \in Eid : acked'[e] # NULL => slots[e].state = acked'[e], LateInv'
  PROVE  TInv'
<1>1. pc'["read"] = "idle" /\ "idle" \in ReadPcs
  BY MoveType DEF Thread, TInv, ReadPcs
<1>2. ReadInv'
  BY <1>1 DEF ReadInv, Renaming, Update
<1>3. AckInv'
  BY <1>1 DEF AckInv, Setting, Renaming, Update
<1> QED
  BY <1>1, <1>2, <1>3, SameSlotsStep

LEMMA InvParts ==
  ASSUME TInv
  PROVE  /\ upd \in [Thread -> Calls] /\ cmd \in Commands
         /\ list \in Lists /\ Len(list.entries) \in 0 .. 3
         /\ rx_id \in Uint16 /\ reply \in Node!Messages \cup {NoMsg}
         /\ acked \in [Eid -> {OFF, ON, NULL}] /\ late \in 0 .. 2
         /\ ReadInv /\ AckInv /\ LateInv
         /\ NoCommand \in Commands /\ NoList \in Lists /\ Len(NoList.entries) \in 0 .. 3
         /\ [upd EXCEPT !["read"] = NoCall] \in [Thread -> Calls]
<1>1. NoCall \in Calls /\ NoCommand \in Commands
  BY Sizes DEF NoCall, NoCommand, Calls, Commands
<1>2. NoList \in Lists /\ Len(NoList.entries) \in 0 .. 3
  BY DEF NoList, Lists
<1>3. upd \in [Thread -> Calls]
  BY DEF TInv, TypeInv
<1>4. [upd EXCEPT !["read"] = NoCall] \in [Thread -> Calls]
  BY <1>1, <1>3
<1> QED
  BY <1>1, <1>2, <1>3, <1>4 DEF TInv, TypeInv, Commands, Lists

LEMMA StatusType ==
  ASSUME NEW v \in {STATUS_OK, STATUS_ERR}
  PROVE  Node!SendStatus(v) \in Node!Messages \cup {NoMsg}
<1>1. Node!Status(v) \in Node!Messages
  BY DEF Node!Status, Node!Messages, Node!STATUS_OK, Node!STATUS_ERR, STATUS_OK, STATUS_ERR
<1> QED
  BY <1>1 DEF Node!SendStatus, Node!SendCommand

\* Zenoh takes the reply or the querier gets nothing.
LEMMA ReplyType ==
  ASSUME NEW encoded, Node!Reply(encoded)
  PROVE  reply' \in {encoded, NoMsg}
  BY DEF Node!Reply

LEMMA IdType ==
  ASSUME NEW r \in Uint16, NEW v \in Uint16
  PROVE  CopyUint16(r, v) \in Uint16
<1>1. UINT16_MAX \in Int
  BY DEF UINT16_MAX
<1>2. UINT16_MAX = 65535
  BY DEF UINT16_MAX
<1>3. /\ r \in Int /\ 0 <= r /\ r <= UINT16_MAX
      /\ v \in Int /\ 0 <= v /\ v <= UINT16_MAX
  BY <1>1 DEF Uint16
<1>4. CopyUint16(r, v) \in Int /\ 0 <= CopyUint16(r, v) /\ CopyUint16(r, v) <= UINT16_MAX
  <2>1. CASE v < 256
    <3>1. PICK high \in Int : high = r - (r % 256) /\ 0 <= high /\ high <= 65280
      BY <1>2, <1>3
    <3>2. high + v \in Int /\ 0 <= high + v /\ high + v <= 65535
      BY <1>3, <2>1, <3>1
    <3> QED
      BY <1>2, <2>1, <3>1, <3>2 DEF CopyUint16, GetVLESize
  <2>2. CASE ~(v < 256)
    BY <1>3, <2>2 DEF CopyUint16, GetVLESize
  <2> QED
    BY <2>1, <2>2
<1> QED
  BY <1>1, <1>4 DEF Uint16

LEMMA DispatchT ==
  ASSUME TInv, Settled, Dispatch
  PROVE  /\ el_idx = 3 /\ pc["read"] = "idle"
         /\ \A e \in Eid : acked[e] # NULL => slots[e].state = acked[e]
<1>1. el_idx = 3 /\ pc["read"] = "idle"
  BY ReadRuns DEF Dispatch
<1>2. ~Renaming
  BY <1>1 DEF Renaming, Update
<1> QED
  BY <1>1, <1>2 DEF TInv, AckInv

LEMMA RejectedT ==
  ASSUME TInv, Settled, Rejected
  PROVE  TInv'
<1>1. Dispatch /\ Finish("idle", NoMsg) /\ UNCHANGED history
  BY DEF Rejected
<1>2. /\ pc' = [pc EXCEPT !["read"] = "idle"]
      /\ UNCHANGED <<slots, el_idx, dangling, list, rx_id, sample, fault, acked, late>>
      /\ reply' = NoMsg /\ upd' = [upd EXCEPT !["read"] = NoCall] /\ cmd' = NoCommand
  BY <1>1, ReplyType DEF Finish, Move, shared, history
<1>3. LateInv'
  BY <1>1, <1>2, InvParts, MoveType DEF LateInv, TInv, Thread
<1> QED
  BY <1>1, <1>2, <1>3, InvParts, DispatchT, IdleStep

LEMMA AnswerT ==
  ASSUME TInv, Settled, Dispatch, NEW e \in Uint16,
         NEW encoded \in Node!Messages \cup {NoMsg}, AnswerAtOnce(e, encoded)
  PROVE  TInv'
<1>1. /\ UNCHANGED <<slots, el_idx, dangling, pc, upd, cmd, list, sample, fault, acked, late>>
      /\ reply' \in Node!Messages \cup {NoMsg} /\ rx_id' = e
  BY ReplyType DEF AnswerAtOnce, shared
<1>2. LateInv'
  BY <1>1, InvParts DEF LateInv
<1>3. UNCHANGED pc /\ pc["read"] = "idle" /\ el_idx = 3
  BY <1>1, DispatchT
<1> QED
  BY <1>1, <1>2, <1>3, InvParts, DispatchT, IdleStep

LEMMA SetStateT ==
  ASSUME TInv, Settled, NEW id \in EntityIds, NEW s \in {OFF, ON}, SetState(id, s)
  PROVE  TInv'
<1> DEFINE e == CopyUint16(rx_id, id)
<1>1. Dispatch /\ e \in Uint16
  BY IdType, InvParts, ThreadsAssumption DEF SetState
<1>2. CASE e >= ElSize /\ AnswerAtOnce(e, NoMsg)
  BY <1>1, <1>2, AnswerT
<1>3. CASE e = 0 /\ AnswerAtOnce(e, Node!SendStatus(STATUS_ERR))
  <2>1. Node!SendStatus(STATUS_ERR) \in Node!Messages \cup {NoMsg}
    BY StatusType
  <2> QED
    BY <1>1, <1>3, <2>1, AnswerT
<1>4. CASE e \in 1 .. EntityNb /\ Call("read", "idle", e, s, "set")
  <2> DEFINE call == [e |-> e, s |-> s, ok |-> TRUE, ret |-> "set"]
  <2>1. ~(e >= ElSize) /\ e # 0
    BY <1>4, Sizes
  <2>2. /\ pc' = [pc EXCEPT !["read"] = "check"] /\ upd' = [upd EXCEPT !["read"] = call]
        /\ rx_id' = e /\ acked' = [acked EXCEPT ![e] = NULL]
        /\ UNCHANGED <<slots, el_idx, dangling, cmd, list, reply, sample, fault, late>>
    BY <1>4, <2>1 DEF SetState, Call, Move, shared
  <2>3. e \in Eid /\ call \in Calls /\ call.e = e /\ call.ret = "set"
    BY <1>4, Sizes DEF Calls
  <2> HIDE DEF e, call
  <2>4. upd' \in [Thread -> Calls] /\ upd'["read"] = call
    BY <2>2, <2>3, InvParts DEF Thread
  <2>5. acked' \in [Eid -> {OFF, ON, NULL}] /\ acked'[e] = NULL
        /\ \A o \in Eid \ {e} : acked'[o] = acked[o]
    BY <2>2, <2>3, InvParts
  <2>6. pc'["read"] = "check" /\ pc'["main"] = pc["main"] /\ "check" \in ReadPcs
    BY <2>2, MoveType DEF TInv, Thread, ReadPcs, Update
  <2>7. ~Renaming'
    BY <2>3, <2>4, <2>6 DEF Renaming
  <2>8. ReadInv'
    BY <1>1, <2>2, <2>3, <2>4, <2>6, <2>7, DispatchT DEF ReadInv
  <2>9. AckInv'
    BY <1>1, <2>2, <2>3, <2>4, <2>5, <2>6, <2>7, DispatchT DEF AckInv
  <2>10. LateInv'
    BY <2>2, <2>5, <2>6, InvParts, Sizes, States DEF LateInv
  <2>11. rx_id' \in Uint16
    BY <1>1, <2>2
  <2> QED
    BY <1>1, <2>2, <2>4, <2>5, <2>6, <2>8, <2>9, <2>10, <2>11, DispatchT, InvParts, SameSlotsStep
<1> QED
  BY <1>2, <1>3, <1>4 DEF SetState

LEMMA SetStateDoneT ==
  ASSUME TInv, Settled, SetStateDone
  PROVE  TInv'
<1> DEFINE e  == upd["read"].e
           ok == upd["read"].ok
           v  == IF ok THEN STATUS_OK ELSE STATUS_ERR
<1>1. /\ pc["read"] = "set" /\ pc' = [pc EXCEPT !["read"] = "idle"]
      /\ reply' \in {Node!SendStatus(v), NoMsg}
      /\ upd' = [upd EXCEPT !["read"] = NoCall] /\ cmd' = NoCommand
      /\ UNCHANGED <<slots, el_idx, dangling, list, rx_id, sample, fault>>
      /\ acked' = (IF ok THEN [acked EXCEPT ![e] = upd["read"].s] ELSE acked)
      /\ late' = (IF e = Publisher THEN 0 ELSE late)
  BY ReplyType DEF SetStateDone, Finish, Move, shared
<1>2. el_idx = 3
  BY <1>1, ReadRuns
<1>3. e \in Eid /\ upd["read"].s \in {OFF, ON}
  BY InvParts DEF Calls, Thread
<1>4. reply' \in Node!Messages \cup {NoMsg}
  <2>1. v \in {STATUS_OK, STATUS_ERR}
    OBVIOUS
  <2> QED
    BY <1>1, <2>1, StatusType
<1>5. Setting /\ ~Renaming
  BY <1>1 DEF Setting, Renaming, Update
<1> HIDE DEF e, ok
<1>6. acked' \in [Eid -> {OFF, ON, NULL}] /\ (\A o \in Eid \ {e} : acked'[o] = acked[o])
      /\ acked'[e] = (IF ok THEN upd["read"].s ELSE acked[e])
  BY <1>1, <1>3, InvParts
<1>7. \A o \in Eid : acked'[o] # NULL => slots[o].state = acked'[o]
  <2>1. ok => slots[e].state = upd["read"].s
    BY <1>1, InvParts DEF AckInv, e, ok
  <2>2. acked[e] = NULL
    BY <1>5, InvParts DEF AckInv, e
  <2>3. \A o \in Eid : acked[o] # NULL => slots[o].state = acked[o]
    BY <1>5, InvParts DEF AckInv
  <2> QED
    BY <1>3, <1>6, <2>1, <2>2, <2>3
<1>8. LateInv' /\ late' \in 0 .. 2
  <2>1. pc'["main"] = pc["main"]
    BY <1>1, MoveType DEF TInv, Thread
  <2>2. Publisher \in Eid
    BY Sizes
  <2> QED
    BY <1>1, <1>6, <2>1, <2>2, InvParts DEF LateInv
<1> QED
  BY <1>1, <1>2, <1>4, <1>6, <1>7, <1>8, InvParts, IdleStep

LEMMA SetConfigT ==
  ASSUME TInv, Settled, NEW id \in EntityIds, SetConfig(id)
  PROVE  TInv'
<1> DEFINE e == CopyUint16(rx_id, id)
           m == IF e < ElSize THEN Node!SendStatus(STATUS_OK) ELSE NoMsg
<1>1. Dispatch /\ AnswerAtOnce(e, m)
  BY DEF SetConfig
<1>2. e \in Uint16
  BY IdType, InvParts, ThreadsAssumption
<1>3. m \in Node!Messages \cup {NoMsg}
  BY StatusType
<1> HIDE DEF e, m
<1> QED
  BY <1>1, <1>2, <1>3, AnswerT

LEMMA SetKeyexprT ==
  ASSUME TInv, Settled, NEW id \in EntityIds, NEW ke \in KeyExprs, SetKeyexpr(id, ke)
  PROVE  TInv'
<1> DEFINE e == CopyUint16(rx_id, id)
<1>1. Dispatch /\ e \in Uint16
  BY IdType, InvParts, ThreadsAssumption DEF SetKeyexpr
<1>2. CASE e >= ElSize /\ AnswerAtOnce(e, NoMsg)
  BY <1>1, <1>2, AnswerT
<1>3. CASE ~(e >= ElSize /\ AnswerAtOnce(e, NoMsg))
  <2> DEFINE call == [e |-> e, s |-> OFF, ok |-> TRUE, ret |-> "grow"]
             r    == Restarts(slots[e])
  <2>1. /\ e < ElSize /\ cmd' = [e |-> e, ke |-> ke, restart |-> r] /\ rx_id' = e
        /\ IF r THEN /\ pc' = [pc EXCEPT !["read"] = "check"]
                     /\ upd' = [upd EXCEPT !["read"] = call]
                ELSE pc' = [pc EXCEPT !["read"] = "grow"] /\ UNCHANGED upd
        /\ UNCHANGED <<slots, el_idx, dangling, list, reply, sample, fault, acked, late>>
    BY <1>3 DEF SetKeyexpr, Call, Move, RenameRest, history
  <2>2. e \in Eid
    <3> HIDE DEF e
    <3>1. e \in Int /\ 0 <= e /\ e < 3
      BY <1>1, <2>1, Sizes DEF Uint16, UINT16_MAX
    <3> QED
      BY <3>1, Sizes
  <2>3. r <=> slots[e].state = ON
    BY DEF Restarts
  <2>4. r \in BOOLEAN
    BY DEF Restarts
  <2>5. call \in Calls /\ call.e = e /\ call.s = OFF /\ call.ret = "grow"
    BY <2>2 DEF Calls
  <2> HIDE DEF e, call, r
  <2>6. cmd' \in Commands /\ cmd'.e = e /\ cmd'.ke = ke /\ cmd'.restart = r
    BY <2>1, <2>2, <2>4 DEF Commands
  <2>7. upd' \in [Thread -> Calls] /\ (r => upd'["read"] = call)
    BY <2>1, <2>5, InvParts DEF Thread
  <2>8. PICK to \in {"check", "grow"} :
          pc' = [pc EXCEPT !["read"] = to] /\ (r <=> to = "check")
    BY <2>1
  <2>9. pc'["read"] = to /\ pc'["main"] = pc["main"] /\ to \in ReadPcs
    BY <2>8, MoveType DEF TInv, Thread, ReadPcs, Update
  <2>10. Renaming' /\ ~Setting'
    BY <2>5, <2>7, <2>8, <2>9 DEF Renaming, Setting, Update
  <2>11. ReadInv'
    BY <1>1, <2>1, <2>5, <2>6, <2>7, <2>8, <2>9, DispatchT DEF ReadInv, Update
  <2>12. AckInv'
    BY <1>1, <2>1, <2>3, <2>6, <2>9, <2>10, DispatchT DEF AckInv
  <2>13. LateInv'
    BY <2>1, <2>9, InvParts DEF LateInv
  <2>14. rx_id' \in Uint16
    BY <1>1, <2>1
  <2> QED
    BY <1>1, <2>1, <2>6, <2>7, <2>8, <2>9, <2>11, <2>12, <2>13, <2>14, DispatchT, InvParts,
       SameSlotsStep
<1> QED
  BY <1>2, <1>3

LEMMA RenameDoneT ==
  ASSUME TInv, Settled, RenameDone
  PROVE  TInv'
<1>1. /\ pc["read"] = "renamed" /\ pc' = [pc EXCEPT !["read"] = "idle"]
      /\ reply' \in {Node!SendStatus(STATUS_OK), NoMsg}
      /\ upd' = [upd EXCEPT !["read"] = NoCall] /\ cmd' = NoCommand
      /\ UNCHANGED <<slots, el_idx, dangling, list, rx_id, sample, fault, acked, late>>
  BY ReplyType DEF RenameDone, Finish, Move, shared
<1>2. el_idx = 3
  BY <1>1, ReadRuns
<1>3. reply' \in Node!Messages \cup {NoMsg}
  BY <1>1, StatusType
<1>4. \A e \in Eid : acked'[e] # NULL => slots[e].state = acked'[e]
  <2>1. Renaming
    BY <1>1 DEF Renaming
  <2>2. cmd.restart => slots[cmd.e].state = ON
    BY <1>1, InvParts DEF AckInv
  <2> QED
    BY <1>1, <2>1, <2>2, InvParts DEF AckInv
<1>5. LateInv'
  BY <1>1, MoveType, InvParts DEF TInv, Thread, LateInv
<1> QED
  BY <1>1, <1>2, <1>3, <1>4, <1>5, InvParts, IdleStep

-----------------------------------------------------------------------------
(* The read task: the entity list.                                          *)

\* A step that leaves the read task in the list loop.
LEMMA EntryStep ==
  ASSUME TInv, el_idx = 3, pc["read"] \in {"idle", "entry"},
         pc' = [pc EXCEPT !["read"] = "entry"],
         UNCHANGED <<slots, el_idx, dangling, upd, cmd, rx_id, reply, sample, fault, acked, late>>,
         list' \in Lists, Len(list'.entries) \in 0 .. 3
  PROVE  TInv'
<1>1. pc'["read"] = "entry" /\ pc'["main"] = pc["main"] /\ "entry" \in ReadPcs
  BY MoveType DEF TInv, Thread, ReadPcs
<1>2. ~Renaming /\ ~Renaming' /\ ~Setting'
  BY <1>1 DEF Renaming, Setting, Update
<1>3. ReadInv'
  BY <1>1, <1>2 DEF ReadInv, Update
<1>4. AckInv'
  BY <1>1, <1>2, InvParts DEF AckInv
<1>5. LateInv'
  BY <1>1, InvParts DEF LateInv
<1> QED
  BY <1>1, <1>3, <1>4, <1>5, InvParts, SameSlotsStep

LEMMA ListStartT ==
  ASSUME TInv, Settled, ListStart
  PROVE  TInv'
<1>1. /\ Dispatch /\ pc' = [pc EXCEPT !["read"] = "entry"] /\ list' = NoList
      /\ UNCHANGED <<slots, el_idx, dangling, upd, cmd, rx_id, reply, sample, fault, acked, late>>
  BY DEF ListStart, Move, ListRest, shared, history
<1>2. list' \in Lists /\ Len(list'.entries) \in 0 .. 3
  BY <1>1, InvParts
<1> QED
  BY <1>1, <1>2, DispatchT, EntryStep

LEMMA EntryType ==
  ASSUME NEW ent \in Slots, ent.ke_suffix \in KeyExprs
  PROVE  Node!ListEntry(ent) \in Entry
<1>1. ent.state % 256 \in Uint8
  BY DEF Slots, Int8Values, Uint8
<1>2. ent.ke_size % 256 \in Uint8
  BY DEF Slots, Uint8
<1> QED
  BY <1>1, <1>2 DEF Node!ListEntry, Entry, Slots

LEMMA ListOneT ==
  ASSUME TInv, Settled, ListOne
  PROVE  TInv'
<1> DEFINE n   == Len(list.entries)
           ent == slots[n]
           end == list.tmp_idx + 3 + ent.ke_size
<1>1. CASE \E kind \in {"handler", "overrun"} : Undefined(kind)
  BY <1>1, UndefinedT
<1>2. CASE ~\E kind \in {"handler", "overrun"} : Undefined(kind)
  <2>1. /\ n < ElSize /\ end <= Node!ListBuffer
        /\ pc["read"] = "entry" /\ pc' = [pc EXCEPT !["read"] = "entry"]
        /\ list' = [entries |-> Append(list.entries, Node!ListEntry(ent)), tmp_idx |-> end]
        /\ UNCHANGED <<slots, el_idx, dangling, upd, cmd, rx_id, reply, sample, fault, acked, late>>
    BY <1>2 DEF ListOne, Move, ListRest, shared, history
  <2>2. el_idx = 3
    BY <2>1, ReadRuns
  <2>3. n \in Eid /\ n \in 0 .. 2
    <3>1. n \in 0 .. 3 /\ n < 3
      BY <2>1, InvParts, Sizes
    <3>2. n \in 0 .. 2
      BY <3>1
    <3> QED
      BY <3>2, Sizes
  <2>4. ent \in Slots /\ ent.ke_suffix \in KeyExprs
    BY <2>1, <2>2, <2>3, SettledSlots DEF TInv, TypeInv
  <2>5. Node!ListEntry(ent) \in Entry
    BY <2>4, EntryType
  <2>6. end \in 0 .. 192
    <3>1. list.tmp_idx \in 0 .. 192
      BY InvParts DEF Lists
    <3>2. ent.ke_size \in Nat
      BY <2>4 DEF Slots
    <3>3. end <= 192
      BY <2>1, Sizes
    <3>4. \A i \in 0 .. 192, k \in Nat : i + 3 + k <= 192 => i + 3 + k \in 0 .. 192
      OBVIOUS
    <3> HIDE DEF ent
    <3> QED
      BY <3>1, <3>2, <3>3, <3>4
  <2>7. list.entries \in Seq(Entry)
    BY InvParts DEF Lists
  <2> HIDE DEF end, ent
  <2>8. list' \in Lists /\ Len(list'.entries) = n + 1
    BY <2>1, <2>5, <2>6, <2>7 DEF Lists
  <2>9. Len(list'.entries) \in 0 .. 3
    <3> HIDE DEF n
    <3>1. n + 1 \in 0 .. 3
      BY <2>3
    <3> QED
      BY <2>8, <3>1
  <2> QED
    BY <2>1, <2>2, <2>8, <2>9, EntryStep
<1> QED
  BY <1>1, <1>2

LEMMA ListDoneT ==
  ASSUME TInv, Settled, ListDone
  PROVE  TInv'
<1> DEFINE msg == [cmd |-> "LIST_ENTITIES_RESP",
                   entities |-> [e \in Eid |-> list.entries[e + 1]]]
<1>1. /\ Len(list.entries) = 3
      /\ pc["read"] = "entry" /\ pc' = [pc EXCEPT !["read"] = "idle"]
      /\ reply' \in {Node!SendCommand(msg, ListOverhead + list.tmp_idx), NoMsg}
      /\ list' = NoList
      /\ UNCHANGED <<slots, el_idx, dangling, upd, cmd, rx_id, sample, fault, acked, late>>
  BY Sizes, ReplyType DEF ListDone, Move, ListRest, shared, history
<1>2. el_idx = 3
  BY <1>1, ReadRuns
<1>3. [e \in Eid |-> list.entries[e + 1]] \in [Eid -> Entry]
  <2>1. \A e \in Eid : list.entries[e + 1] \in Entry
    BY <1>1, InvParts, Sizes DEF Lists
  <2> QED
    BY <2>1
<1>4. msg \in Node!Messages
  BY <1>3, Sizes
  DEF Node!Messages, Entry, Node!Types, Types, Node!BadType, BadType, Node!Uint8, Uint8
<1>5. reply' \in Node!Messages \cup {NoMsg}
  BY <1>1, <1>4 DEF Node!SendCommand
<1>6. ~Renaming
  BY <1>1 DEF Renaming, Update
<1>7. \A e \in Eid : acked'[e] # NULL => slots[e].state = acked'[e]
  BY <1>1, <1>6, InvParts DEF AckInv
<1>8. LateInv'
  BY <1>1, MoveType, InvParts DEF TInv, Thread, LateInv
<1> QED
  BY <1>1, <1>2, <1>5, <1>7, <1>8, InvParts, IdleStep

-----------------------------------------------------------------------------
(* The theorems.                                                            *)

LEMMA StepT ==
  ASSUME TInv, Settled, [Next]_vars
  PROVE  TInv'
<1>1. CASE MainThread
  BY <1>1, MainInitT, AddT, AddedT, PublishT, MainUpdateT DEF MainThread, AddEntities
<1>2. CASE Receive
  BY <1>2, RejectedT, ListStartT, SetStateT, SetKeyexprT, SetConfigT DEF Receive
<1>3. CASE Execute
  BY <1>3, ReadUpdateT, SetStateDoneT, RenamingT, RenameDoneT, ListOneT, ListDoneT DEF Execute
<1>4. CASE UNCHANGED vars
  BY <1>4
  DEF vars, TInv, TypeInv, MainInv, ReadInv, AckInv, LateInv, PointerInv, Typed, Named,
      Partial, Setting, Renaming
<1> QED
  BY <1>1, <1>2, <1>3, <1>4 DEF Next

\* With the set-up done before the first query, the two threads keep the
\* table of main_rx.c in order between any two of their statements: every
\* added slot has a type and a string, at most the one a rename is changing
\* is in pieces or on the move, and its state is the one acknowledged for it.
THEOREM ThreadsInvariance ==
  ASSUME Settled PROVE Spec => []TInv
<1>1. Init => TInv
  BY InitT
<1>2. TInv /\ [Next]_vars => TInv'
  BY StepT
<1> QED
  BY <1>1, <1>2, PTL DEF Spec

\* No thread of node B leaves the table or the list buffer, and each variable
\* stays in its range.
THEOREM ThreadsTypeCorrect ==
  ASSUME Settled PROVE Spec => []TypeOK
<1>1. TInv => TypeOK
  BY TypeInvImplies DEF TInv
<1> QED
  BY <1>1, ThreadsInvariance, PTL

\* Whatever renames follow and wherever the publisher loop stands, an entity
\* is between commands in the state last acknowledged for it by
\* zdcExecuteset_entity_state.
THEOREM AcknowledgementsHold ==
  ASSUME Settled PROVE Spec => []AcknowledgedStateHolds
<1>1. TInv => AcknowledgedStateHolds
  <2> SUFFICES ASSUME TInv, pc["read"] = "idle" PROVE
        \A e \in Eid : acked[e] # NULL => slots[e].state = acked[e]
    BY DEF AcknowledgedStateHolds
  <2>1. ~Renaming
    BY DEF Renaming, Update
  <2> QED
    BY <2>1 DEF TInv, AckInv
<1> QED
  BY <1>1, ThreadsInvariance, PTL

\* The publisher loop of main_rx.c puts at most one sample after its entity's
\* OFF was acknowledged.
THEOREM OneLatePut ==
  ASSUME Settled PROVE Spec => []AtMostOneLatePut
<1>1. TInv => AtMostOneLatePut
  BY DEF TInv, LateInv, AtMostOneLatePut
<1> QED
  BY <1>1, ThreadsInvariance, PTL

-----------------------------------------------------------------------------
(* Queries that arrive while the entities are still being added: what is    *)
(* left to say of the node's own queryable, without Settled.                *)

\* The part of TypeOK the two threads keep even then.
RaceTypes ==
  /\ slots \in [Eid -> Slots]
  /\ el_idx \in 0 .. 3
  /\ DOMAIN pc = Thread
  /\ pc["main"] \in SetUp \cup Loop \cup Update /\ pc["read"] \in ReadPcs
  /\ upd \in [Thread -> Calls] /\ cmd \in Commands /\ rx_id \in Uint16

\* The set-up works on the slot after those it has added.
AddInv ==
  /\ pc["main"] = "boot" => el_idx = 0
  /\ pc["main"] \in {"type", "state", "size", "alloc", "copy"} => el_idx \in 1 .. 2
  /\ pc["main"] \in Update \cup {"added"} => el_idx \in 0 .. 2
  /\ pc["main"] \in Loop => el_idx = 3
  /\ pc["main"] \in Update => upd["main"].e = el_idx /\ upd["main"].ret = "added"

\* A set_state is never for slot 0; a rename that stops its slot restarts it.
CommandInv ==
  /\ pc["read"] \in Update => upd["read"].ret \in {"set", "grow", "renamed"}
  /\ Setting => upd["read"].e # 0
  /\ Renaming => cmd.ke \in KeyExprs
  /\ Renaming /\ pc["read"] \in Update =>
       /\ upd["read"].e = cmd.e /\ cmd.restart
       /\ upd["read"].s = IF upd["read"].ret = "grow" THEN OFF ELSE ON

\* The set-up declares slot 0: where it is in that.
Undeclared == pc["main"] = "boot" \/ (el_idx = 0 /\ pc["main"] \in {"check", "mark", "switch"})
Declaring  == el_idx = 0 /\ pc["main"] \in Update

\* A rename is restarting the node's queryable.
Restarting == Renaming /\ cmd.e = 0 /\ cmd.restart

\* Zenoh refuses no declaration.
Accepting == FALSE \notin DeclareResults

\* Until slot 0 is declared no query is dispatched; from then on, unless zenoh
\* refuses, only a rename that stopped it leaves it undeclared, until it has
\* restarted it.
\* The state is still INVALID while the declaring update runs, so that no
\* rename takes the slot for a running one before that update is over.
QueryableInv ==
  /\ Undeclared => pc["read"] = "idle" /\ ~IsDeclared(slots[0])
  /\ pc["main"] # "boot" => slots[0].type = "QUERYABLE"
  /\ Declaring => /\ upd["main"].s = ON /\ ~Restarting
                  /\ pc["main"] = "check" => slots[0].state = OFF
                  /\ pc["main"] \in {"switch", "store"} => slots[0].state = INVALID
  /\ Accepting /\ ~Undeclared /\ ~Restarting => IsDeclared(slots[0])
  /\ Restarting =>
       /\ pc["read"] \in {"grow", "moved", "tear", "copied"} => slots[0].state = OFF
       /\ pc["read"] = "check" /\ upd["read"].ret = "renamed" => slots[0].state = OFF
       /\ Accepting /\ pc["read"] = "store" /\ upd["read"].ret = "renamed" =>
            IsDeclared(slots[0])
       /\ Accepting /\ pc["read"] = "renamed" => IsDeclared(slots[0])

RaceInv == RaceTypes /\ AddInv /\ CommandInv /\ QueryableInv

LEMMA InitRace == Init => RaceInv
<1> SUFFICES ASSUME Init PROVE RaceInv
  OBVIOUS
<1>1. TInv
  BY InitT
<1>2. pc["main"] = "boot" /\ pc["read"] = "idle" /\ el_idx = 0
  BY DEF Init, Thread
<1>3. RaceTypes
  BY <1>1, <1>2 DEF TInv, TypeInv, RaceTypes, SetUp, ReadPcs, Commands
<1>4. AddInv
  BY <1>2 DEF AddInv, Update, Loop
<1>5. CommandInv /\ ~Restarting
  BY <1>2 DEF CommandInv, Setting, Renaming, Restarting, Update
<1>6. ~IsDeclared(slots[0])
  <2>1. MallocedSlots \subseteq {ent \in Slots : ent.data \in {NULL, Wild}}
    BY <1>1 DEF MallocedSlots, ZeroSlot, WildSlots, Slots, Types, BadType, OFF, ON, INVALID,
                Int8Values
  <2>2. slots[0].data \in {NULL, Wild}
    BY <2>1, Sizes, ThreadsAssumption DEF Init
  <2> QED
    BY <2>2, KeyExprAssumption DEF IsDeclared
<1>7. Undeclared /\ ~Declaring
  BY <1>2 DEF Undeclared, Declaring, Update
<1>8. QueryableInv
  BY <1>2, <1>5, <1>6, <1>7 DEF QueryableInv
<1> QED
  BY <1>3, <1>4, <1>5, <1>8 DEF RaceInv

LEMMA RaceParts ==
  ASSUME RaceInv
  PROVE  /\ 0 \in Eid /\ slots \in [Eid -> Slots] /\ slots[0] \in Slots
         /\ upd \in [Thread -> Calls] /\ upd["main"] \in Calls /\ upd["read"] \in Calls
         /\ cmd \in Commands /\ cmd.e \in Eid /\ rx_id \in Uint16
         /\ NoCall \in Calls /\ NoCommand \in Commands
         /\ [upd EXCEPT !["read"] = NoCall] \in [Thread -> Calls]
<1>1. NoCall \in Calls /\ NoCommand \in Commands /\ 0 \in Eid
  BY Sizes DEF NoCall, NoCommand, Calls, Commands
<1>2. upd \in [Thread -> Calls] /\ slots \in [Eid -> Slots] /\ cmd \in Commands
  BY DEF RaceInv, RaceTypes
<1>3. [upd EXCEPT !["read"] = NoCall] \in [Thread -> Calls]
  BY <1>1, <1>2
<1> QED
  BY <1>1, <1>2, <1>3 DEF RaceInv, RaceTypes, Thread, Commands

LEMMA RaceMove ==
  ASSUME RaceInv, NEW t \in Thread, NEW to, pc' = [pc EXCEPT ![t] = to]
  PROVE  /\ DOMAIN pc' = Thread /\ pc'[t] = to
         /\ \A o \in Thread \ {t} : pc'[o] = pc[o]
  BY DEF RaceInv, RaceTypes

\* A query is dispatched, or a command runs, only once slot 0 was declared.
LEMMA ReadMeansDeclared ==
  ASSUME RaceInv, Dispatch \/ pc["read"] # "idle"
  PROVE  ~Undeclared
  BY DEF RaceInv, QueryableInv, Dispatch

\* A step of the read task.
LEMMA ReadRace ==
  ASSUME RaceInv, ~Undeclared,
         NEW to \in ReadPcs,
         pc' = [pc EXCEPT !["read"] = to] \/ (UNCHANGED pc /\ pc["read"] = to),
         UNCHANGED el_idx, slots' \in [Eid -> Slots],
         upd' \in [Thread -> Calls], upd'["main"] = upd["main"],
         cmd' \in Commands, rx_id' \in Uint16, CommandInv',
         slots'[0].type = slots[0].type,
         Declaring => slots'[0].state = slots[0].state /\ ~Restarting',
         Accepting /\ ~Restarting' => IsDeclared(slots'[0]),
         Restarting' =>
           /\ to \in {"grow", "moved", "tear", "copied"} => slots'[0].state = OFF
           /\ to = "check" /\ upd'["read"].ret = "renamed" => slots'[0].state = OFF
           /\ Accepting /\ to = "store" /\ upd'["read"].ret = "renamed" =>
                IsDeclared(slots'[0])
           /\ Accepting /\ to = "renamed" => IsDeclared(slots'[0])
  PROVE  RaceInv'
<1>1. DOMAIN pc' = Thread /\ pc'["read"] = to /\ pc'["main"] = pc["main"]
  BY RaceMove DEF Thread, RaceInv, RaceTypes
<1>2. RaceTypes'
  BY <1>1 DEF RaceInv, RaceTypes
<1>3. AddInv'
  BY <1>1 DEF RaceInv, AddInv
<1>4. Undeclared' = Undeclared /\ Declaring' = Declaring
  BY <1>1 DEF Undeclared, Declaring
<1>5. QueryableInv'
  BY <1>1, <1>4 DEF RaceInv, QueryableInv
<1> QED
  BY <1>2, <1>3, <1>5 DEF RaceInv

\* One that leaves type, state and declaration of slot 0 alone, and is not
\* of a rename that restarts it.
LEMMA QuietRace ==
  ASSUME RaceInv, ~Undeclared, ~Restarting, ~Restarting',
         NEW to \in ReadPcs,
         pc' = [pc EXCEPT !["read"] = to] \/ (UNCHANGED pc /\ pc["read"] = to),
         UNCHANGED el_idx, slots' \in [Eid -> Slots],
         upd' \in [Thread -> Calls], upd'["main"] = upd["main"],
         cmd' \in Commands, rx_id' \in Uint16, CommandInv',
         slots'[0].type = slots[0].type, slots'[0].state = slots[0].state,
         slots'[0].data = slots[0].data
  PROVE  RaceInv'
<1>1. Accepting => IsDeclared(slots'[0])
  BY DEF RaceInv, QueryableInv, IsDeclared
<1> QED
  BY <1>1, ReadRace

\* The query is over, or was answered at once.
LEMMA IdleRace ==
  ASSUME RaceInv, ~Undeclared, Accepting => IsDeclared(slots[0]),
         pc' = [pc EXCEPT !["read"] = "idle"] \/ (UNCHANGED pc /\ pc["read"] = "idle"),
         UNCHANGED <<slots, el_idx>>, upd' \in [Thread -> Calls], upd'["main"] = upd["main"],
         cmd' \in Commands, rx_id' \in Uint16
  PROVE  RaceInv'
<1>1. pc'["read"] = "idle" /\ "idle" \in ReadPcs
  BY RaceMove DEF Thread, ReadPcs
<1>2. CommandInv' /\ ~Restarting'
  BY <1>1 DEF CommandInv, Setting, Renaming, Restarting, Update
<1> QED
  BY <1>1, <1>2, RaceParts, ReadRace

LEMMA AtOnceRace ==
  ASSUME RaceInv, Dispatch, NEW e \in Uint16, NEW encoded, AnswerAtOnce(e, encoded)
  PROVE  RaceInv'
<1>1. UNCHANGED <<pc, slots, el_idx, upd, cmd>> /\ rx_id' = e
  BY DEF AnswerAtOnce, shared
<1>2. pc["read"] = "idle" /\ IsDeclared(slots[0])
  BY DEF Dispatch
<1> QED
  BY <1>1, <1>2, RaceParts, ReadMeansDeclared, IdleRace

\* What ends a query leaves slot 0 declared, unless zenoh refused.
LEMMA FinishRace ==
  ASSUME RaceInv, NEW from \in {"idle", "set", "renamed"}, NEW encoded, Finish(from, encoded),
         from = "idle" => Dispatch
  PROVE  RaceInv'
<1>1. /\ pc["read"] = from /\ pc' = [pc EXCEPT !["read"] = "idle"]
      /\ UNCHANGED <<slots, el_idx, rx_id>>
      /\ upd' = [upd EXCEPT !["read"] = NoCall] /\ cmd' = NoCommand
  BY DEF Finish, Move, shared
<1>2. upd'["main"] = upd["main"]
  BY <1>1, RaceParts DEF Thread
<1>3. ~Undeclared
  BY <1>1, ReadMeansDeclared
<1>4. Accepting => IsDeclared(slots[0])
  BY <1>1, <1>3 DEF RaceInv, QueryableInv, Restarting, Renaming, Update
<1> QED
  BY <1>1, <1>2, <1>3, <1>4, RaceParts, IdleRace

\* The program stops: nothing of what RaceInv is about moves.
LEMMA UndefinedRace ==
  ASSUME RaceInv, NEW kind, Undefined(kind)
  PROVE  RaceInv'
<1>1. UNCHANGED <<slots, el_idx, pc, upd, cmd, rx_id>>
  BY DEF Undefined, shared
<1> QED
  BY <1>1
  DEF RaceInv, RaceTypes, AddInv, CommandInv, QueryableInv, Setting, Renaming, Undeclared,
      Declaring, Restarting

LEMMA ListRace ==
  ASSUME RaceInv, ListStart \/ ListOne \/ ListDone
  PROVE  RaceInv'
<1>2. CASE /\ pc["read"] \in {"idle", "entry"} /\ (pc["read"] = "idle" => Dispatch)
           /\ \E to \in {"idle", "entry"} : pc' = [pc EXCEPT !["read"] = to]
           /\ UNCHANGED <<slots, el_idx, upd, cmd, rx_id>>
  <2>1. PICK to \in {"idle", "entry"} : pc' = [pc EXCEPT !["read"] = to]
    BY <1>2
  <2>2. pc'["read"] = to /\ to \in ReadPcs
    BY <2>1, RaceMove DEF Thread, ReadPcs
  <2>3. CommandInv' /\ ~Restarting' /\ ~Restarting
    BY <1>2, <2>2 DEF CommandInv, Setting, Renaming, Restarting, Update
  <2>4. ~Undeclared
    BY <1>2, ReadMeansDeclared
  <2> QED
    BY <1>2, <2>1, <2>2, <2>3, <2>4, RaceParts, QuietRace
<1>3. CASE ListStart
  <2>1. /\ pc["read"] = "idle" /\ pc' = [pc EXCEPT !["read"] = "entry"] /\ Dispatch
        /\ UNCHANGED <<slots, el_idx, upd, cmd, rx_id>>
    BY <1>3 DEF ListStart, Move, ListRest, shared
  <2> QED
    BY <1>2, <2>1
<1>4. CASE ListDone
  <2>1. /\ pc["read"] = "entry" /\ pc' = [pc EXCEPT !["read"] = "idle"]
        /\ UNCHANGED <<slots, el_idx, upd, cmd, rx_id>>
    BY <1>4 DEF ListDone, Move, ListRest, shared
  <2> QED
    BY <1>2, <2>1
<1>5. CASE ListOne
  <2>1. CASE Undefined("handler") \/ Undefined("overrun")
    BY <2>1, UndefinedRace
  <2>2. CASE ~(Undefined("handler") \/ Undefined("overrun"))
    <3>1. /\ pc["read"] = "entry" /\ pc' = [pc EXCEPT !["read"] = "entry"]
          /\ UNCHANGED <<slots, el_idx, upd, cmd, rx_id>>
      BY <1>5, <2>2 DEF ListOne, Move, ListRest, shared
    <3> QED
      BY <1>2, <3>1
  <2> QED
    BY <2>1, <2>2
<1> QED
  BY <1>3, <1>4, <1>5

LEMMA SetStateRace ==
  ASSUME RaceInv, NEW id \in EntityIds, NEW s \in {OFF, ON}, SetState(id, s)
  PROVE  RaceInv'
<1> DEFINE e == CopyUint16(rx_id, id)
<1>1. Dispatch /\ e \in Uint16 /\ pc["read"] = "idle"
  BY IdType, RaceParts, ThreadsAssumption DEF SetState, Dispatch
<1>2. CASE e \in 1 .. EntityNb /\ Call("read", "idle", e, s, "set")
  <2> DEFINE call == [e |-> e, s |-> s, ok |-> TRUE, ret |-> "set"]
  <2>1. ~(e >= ElSize) /\ e # 0 /\ e \in Eid
    BY <1>2, Sizes
  <2>2. /\ pc' = [pc EXCEPT !["read"] = "check"] /\ upd' = [upd EXCEPT !["read"] = call]
        /\ rx_id' = e /\ UNCHANGED <<slots, el_idx, cmd>>
    BY <1>2, <2>1 DEF SetState, Call, Move, shared
  <2>3. call \in Calls /\ call.e = e /\ call.ret = "set"
    BY <2>1 DEF Calls
  <2> HIDE DEF e, call
  <2>4. upd' \in [Thread -> Calls] /\ upd'["read"] = call /\ upd'["main"] = upd["main"]
    BY <2>2, <2>3, RaceParts DEF Thread
  <2>5. pc'["read"] = "check" /\ "check" \in ReadPcs
    BY <2>2, RaceMove DEF Thread, ReadPcs, Update
  <2>6. ~Renaming'
    BY <2>3, <2>4, <2>5 DEF Renaming
  <2>7. CommandInv' /\ ~Restarting'
    BY <2>1, <2>3, <2>4, <2>5, <2>6 DEF CommandInv, Restarting
  <2>8. ~Restarting /\ ~Undeclared
    BY <1>1, ReadMeansDeclared DEF Restarting, Renaming, Update
  <2>9. rx_id' \in Uint16
    BY <1>1, <2>2
  <2> QED
    BY <2>2, <2>4, <2>5, <2>7, <2>8, <2>9, RaceParts, QuietRace
<1> QED
  BY <1>1, <1>2, AtOnceRace DEF SetState

LEMMA SetConfigRace ==
  ASSUME RaceInv, NEW id \in EntityIds, SetConfig(id)
  PROVE  RaceInv'
  BY IdType, RaceParts, ThreadsAssumption, AtOnceRace DEF SetConfig

\* A rename stops slot 0 only when the update that declared it is over.
LEMMA SetKeyexprRace ==
  ASSUME RaceInv, NEW id \in EntityIds, NEW ke \in KeyExprs, SetKeyexpr(id, ke)
  PROVE  RaceInv'
<1> DEFINE e == CopyUint16(rx_id, id)
<1>1. Dispatch /\ e \in Uint16 /\ pc["read"] = "idle" /\ IsDeclared(slots[0]) /\ ~Undeclared
  BY IdType, RaceParts, ReadMeansDeclared, ThreadsAssumption DEF SetKeyexpr, Dispatch
<1>2. CASE e >= ElSize /\ AnswerAtOnce(e, NoMsg)
  BY <1>1, <1>2, AtOnceRace
<1>3. CASE e < ElSize
  <2> DEFINE restart == Restarts(slots[e])
             call    == [e |-> e, s |-> OFF, ok |-> TRUE, ret |-> "grow"]
             to      == IF restart THEN "check" ELSE "grow"
  <2>1. e \in Eid
    BY <1>1, <1>3, Sizes DEF Uint16
  <2>2. ~(e >= ElSize)
    BY <1>3, <2>1, Sizes
  <2>3. /\ pc' = [pc EXCEPT !["read"] = to]
        /\ upd' = (IF restart THEN [upd EXCEPT !["read"] = call] ELSE upd)
        /\ cmd' = [e |-> e, ke |-> ke, restart |-> restart]
        /\ rx_id' = e /\ UNCHANGED <<slots, el_idx>>
    BY <1>3, <2>2 DEF SetKeyexpr, Call, Move, RenameRest
  <2>4. call \in Calls /\ call.e = e /\ call.ret = "grow" /\ call.s = OFF
    BY <2>1 DEF Calls
  <2>5. restart <=> slots[e].state = ON
    BY DEF Restarts
  <2>6. cmd' \in Commands /\ cmd'.e = e /\ cmd'.ke = ke /\ cmd'.restart = restart
    BY <2>1, <2>3, <2>5 DEF Commands, Restarts
  <2> HIDE DEF e, call, restart
  <2>7. upd' \in [Thread -> Calls] /\ upd'["main"] = upd["main"]
        /\ (restart => upd'["read"] = call)
    BY <2>3, <2>4, RaceParts DEF Thread
  <2>8. pc'["read"] = to /\ to \in ReadPcs
    BY <2>3, RaceMove DEF Thread, ReadPcs, Update
  <2>9. Renaming' /\ ~Setting'
    BY <2>4, <2>7, <2>8 DEF Renaming, Setting, Update
  <2>10. CommandInv'
    BY <2>4, <2>6, <2>7, <2>8, <2>9 DEF CommandInv, Update
  <2>11. Restarting' => slots[0].state = ON /\ to = "check" /\ upd'["read"].ret = "grow"
    BY <2>4, <2>5, <2>6, <2>7 DEF Restarting
  <2>12. Declaring => slots[0].state = INVALID
    BY <1>1 DEF RaceInv, QueryableInv, Undeclared, Declaring, Update
  <2>13. Declaring => ~Restarting'
    BY <2>11, <2>12, States
  <2>14. rx_id' \in Uint16
    BY <1>1, <2>3
  <2> HIDE DEF to
  <2> QED
    BY <1>1, <2>3, <2>6, <2>7, <2>8, <2>10, <2>11, <2>13, <2>14, RaceParts, ReadRace
<1> QED
  BY <1>1, <1>2, <1>3 DEF SetKeyexpr

\* A statement of a rename: it writes the string of its slot.
LEMMA WriteRace ==
  ASSUME RaceInv, Renaming, pc["read"] \notin Update,
         NEW to \in {"moved", "tear", "copied", "renamed", "check"},
         pc' = [pc EXCEPT !["read"] = to], NEW new \in Slots,
         new.type = slots[cmd.e].type, new.state = slots[cmd.e].state,
         new.data = slots[cmd.e].data,
         slots' = [slots EXCEPT ![cmd.e] = new], UNCHANGED <<el_idx, cmd, rx_id>>,
         pc["read"] \in {"grow", "moved", "tear", "copied"},
         to # "check" => UNCHANGED upd,
         to = "renamed" => ~cmd.restart,
         to = "check" => /\ cmd.restart
                         /\ upd' = [upd EXCEPT !["read"] = [e |-> cmd.e, s |-> ON, ok |-> TRUE,
                                                           ret |-> "renamed"]]
  PROVE  RaceInv'
<1> DEFINE call == [e |-> cmd.e, s |-> ON, ok |-> TRUE, ret |-> "renamed"]
<1>1. pc'["read"] = to /\ to \in ReadPcs
  BY RaceMove DEF Thread, ReadPcs, Update
<1>2. ~Undeclared
  BY ReadMeansDeclared
<1>3. slots' \in [Eid -> Slots] /\ slots'[0].type = slots[0].type
      /\ slots'[0].state = slots[0].state /\ slots'[0].data = slots[0].data
  BY RaceParts
<1>4. call \in Calls /\ call.e = cmd.e /\ call.s = ON /\ call.ret = "renamed"
  BY RaceParts DEF Calls
<1>5. to = "check" => cmd.restart /\ upd' = [upd EXCEPT !["read"] = call]
  OBVIOUS
<1> HIDE DEF call
<1>6. /\ upd' \in [Thread -> Calls] /\ upd'["main"] = upd["main"]
      /\ to # "check" => upd' = upd
      /\ to = "check" => upd'["read"] = call
  <2>1. CASE to = "check"
    BY <1>4, <1>5, <2>1, RaceParts DEF Thread
  <2>2. CASE to # "check"
    BY <2>2, RaceParts
  <2> QED
    BY <2>1, <2>2
<1>7. Renaming' /\ ~Setting' /\ (pc'["read"] \in Update <=> to = "check")
  BY <1>1, <1>4, <1>6 DEF Renaming, Setting, Update
<1>8. CommandInv'
  BY <1>1, <1>4, <1>5, <1>6, <1>7 DEF RaceInv, CommandInv
<1>9. Restarting' = Restarting
  BY <1>7 DEF Restarting
<1>10. IsDeclared(slots'[0]) = IsDeclared(slots[0])
  BY <1>3 DEF IsDeclared
<1>11. Restarting => slots[0].state = OFF /\ to # "renamed"
  BY DEF RaceInv, QueryableInv, Restarting
<1>12. Declaring => ~Restarting
  BY DEF RaceInv, QueryableInv
<1>13. Accepting /\ ~Restarting => IsDeclared(slots[0])
  BY <1>2 DEF RaceInv, QueryableInv
<1>14. to # "store"
  OBVIOUS
<1> QED
  BY <1>1, <1>2, <1>3, <1>6, <1>8, <1>9, <1>10, <1>11, <1>12, <1>13, <1>14, RaceParts, ReadRace

LEMMA RenameRace ==
  ASSUME RaceInv, RenameGrow \/ RenameStore \/ RenameTear \/ RenameCopied
  PROVE  RaceInv'
<1>1. pc["read"] \in {"grow", "moved", "tear", "copied"}
  BY DEF RenameGrow, RenameStore, RenameTear, RenameCopied, Call, Move
<1>2. Renaming /\ pc["read"] \notin Update
  BY <1>1 DEF Renaming, Update
<1>3. cmd.ke \in KeyExprs /\ slots[cmd.e] \in Slots /\ NewSize(cmd.ke) \in Nat
  BY <1>2, RaceParts, SmallSlot DEF RaceInv, CommandInv
<1>4. CASE RenameGrow
  <2> DEFINE new == Grow(slots[cmd.e], cmd.ke)
  <2>1. CASE Undefined("handler")
    BY <2>1, UndefinedRace
  <2>2. CASE /\ pc' = [pc EXCEPT !["read"] = "tear"]
             /\ slots' = [slots EXCEPT ![cmd.e] = new] /\ UNCHANGED <<el_idx, upd, cmd, rx_id>>
    <3>1. /\ new \in Slots /\ new.type = slots[cmd.e].type
          /\ new.state = slots[cmd.e].state /\ new.data = slots[cmd.e].data
      BY <1>3 DEF Grow, Slots
    <3> HIDE DEF new
    <3> QED
      BY <1>1, <1>2, <2>2, <3>1, WriteRace
  <2>3. CASE /\ pc' = [pc EXCEPT !["read"] = "moved"]
             /\ slots' = [slots EXCEPT ![cmd.e] = [slots[cmd.e] EXCEPT !.ke_suffix = Freed]]
             /\ UNCHANGED <<el_idx, upd, cmd, rx_id>>
    <3> DEFINE moved == [slots[cmd.e] EXCEPT !.ke_suffix = Freed]
    <3>1. /\ moved \in Slots /\ moved.type = slots[cmd.e].type
          /\ moved.state = slots[cmd.e].state /\ moved.data = slots[cmd.e].data
      BY <1>3 DEF Slots
    <3>2. slots' = [slots EXCEPT ![cmd.e] = moved]
      BY <2>3
    <3> HIDE DEF moved
    <3> QED
      BY <1>1, <1>2, <2>3, <3>1, <3>2, WriteRace
  <2> QED
    BY <1>4, <2>1, <2>2, <2>3 DEF RenameGrow, Move, SetSlot, RenameRest
<1>5. CASE RenameStore
  <2> DEFINE new == [slots[cmd.e] EXCEPT !.ke_suffix = Torn, !.ke_size = NewSize(cmd.ke)]
  <2>1. /\ pc' = [pc EXCEPT !["read"] = "copied"]
        /\ slots' = [slots EXCEPT ![cmd.e] = new] /\ UNCHANGED <<el_idx, upd, cmd, rx_id>>
    BY <1>5 DEF RenameStore, Move, SetSlot, RenameRest
  <2>2. /\ new \in Slots /\ new.type = slots[cmd.e].type
        /\ new.state = slots[cmd.e].state /\ new.data = slots[cmd.e].data
    BY <1>3 DEF Slots
  <2> HIDE DEF new
  <2> QED
    BY <1>1, <1>2, <2>1, <2>2, WriteRace
<1>6. CASE RenameTear
  <2> DEFINE new == [slots[cmd.e] EXCEPT !.ke_suffix = Torn]
  <2>1. /\ pc' = [pc EXCEPT !["read"] = "copied"]
        /\ slots' = [slots EXCEPT ![cmd.e] = new] /\ UNCHANGED <<el_idx, upd, cmd, rx_id>>
    BY <1>6 DEF RenameTear, Move, SetSlot, RenameRest
  <2>2. /\ new \in Slots /\ new.type = slots[cmd.e].type
        /\ new.state = slots[cmd.e].state /\ new.data = slots[cmd.e].data
    BY <1>3 DEF Slots
  <2> HIDE DEF new
  <2> QED
    BY <1>1, <1>2, <2>1, <2>2, WriteRace
<1>7. CASE RenameCopied
  <2> DEFINE new == [slots[cmd.e] EXCEPT !.ke_suffix = cmd.ke]
             to  == IF cmd.restart THEN "check" ELSE "renamed"
  <2>1. /\ pc' = [pc EXCEPT !["read"] = to]
        /\ slots' = [slots EXCEPT ![cmd.e] = new] /\ UNCHANGED <<el_idx, cmd, rx_id>>
        /\ upd' = IF cmd.restart
                  THEN [upd EXCEPT !["read"] = [e |-> cmd.e, s |-> ON, ok |-> TRUE,
                                               ret |-> "renamed"]]
                  ELSE upd
    BY <1>7 DEF RenameCopied, Call, Move, SetSlot, RenameRest
  <2>2. /\ new \in Slots /\ new.type = slots[cmd.e].type
        /\ new.state = slots[cmd.e].state /\ new.data = slots[cmd.e].data
    BY <1>3 DEF Slots
  <2> HIDE DEF new
  <2>3. CASE cmd.restart
    BY <1>1, <1>2, <2>1, <2>2, <2>3, WriteRace
  <2>4. CASE ~cmd.restart
    BY <1>1, <1>2, <2>1, <2>2, <2>4, WriteRace
  <2> QED
    BY <2>3, <2>4
<1> QED
  BY <1>4, <1>6, <1>7, <1>5

\* The update a command runs, on slot 0 only to restart it.
LEMMA ReadUpdateRace ==
  ASSUME RaceInv, zdc_update_entity_state("read")
  PROVE  RaceInv'
<1> DEFINE e   == upd["read"].e
           s   == upd["read"].s
           ret == upd["read"].ret
           ent == slots[e]
<1>1. pc["read"] \in Update /\ ~Undeclared
  <2>1. pc["read"] \in Update
    BY DEF zdc_update_entity_state, UpdateCheck, UpdateMark, UpdateSwitch, UpdateStore, Move,
           Update
  <2> QED
    BY <2>1, ReadMeansDeclared DEF Update
<1>2. e \in Eid /\ s \in {OFF, ON} /\ ent \in Slots /\ upd["read"] \in Calls
  BY RaceParts DEF Calls
<1>3. /\ ret \in {"set", "grow", "renamed"}
      /\ ret = "set" => e # 0 /\ ~Renaming
      /\ ret # "set" => /\ Renaming /\ cmd.ke \in KeyExprs /\ e = cmd.e /\ cmd.restart
                        /\ s = IF ret = "grow" THEN OFF ELSE ON
  <2>1. ret \in {"set", "grow", "renamed"}
    BY <1>1 DEF RaceInv, CommandInv
  <2>2. CASE ret = "set"
    BY <1>1, <2>2 DEF RaceInv, CommandInv, Setting, Renaming, Update
  <2>3. CASE ret # "set"
    <3>1. Renaming
      BY <1>1, <2>1, <2>3 DEF Renaming
    <3> QED
      BY <1>1, <2>3, <3>1 DEF RaceInv, CommandInv
  <2> QED
    BY <2>1, <2>2, <2>3
<1>4. Restarting <=> e = 0
  BY <1>3 DEF Restarting
<1>5. /\ Declaring => e # 0
      /\ Accepting /\ e # 0 => IsDeclared(slots[0])
  BY <1>1, <1>4 DEF RaceInv, QueryableInv
<1>6. pc["main"] # "boot" /\ slots[0].type = "QUERYABLE"
  BY <1>1 DEF RaceInv, QueryableInv, Undeclared
<1> HIDE DEF e, s, ret, ent
\* A step to the next statement of the update, or back to the command.
<1>7. ASSUME NEW to \in Update \cup {"set", "grow", "renamed"}, to \in Update \/ to = ret,
             pc' = [pc EXCEPT !["read"] = to], NEW new \in Slots,
             slots' = [slots EXCEPT ![e] = new], new.type = ent.type,
             upd' = upd \/ upd' = [upd EXCEPT !["read"].ok = FALSE], UpdateRest,
             e = 0 /\ ret = "grow" /\ to = "grow" => new.state = OFF,
             e = 0 /\ ret = "renamed" /\ to = "check" => new.state = OFF,
             Accepting /\ e = 0 /\ ret = "renamed" /\ to \in {"store", "renamed"} =>
               IsDeclared(new)
      PROVE  RaceInv'
  <2>1. /\ upd' \in [Thread -> Calls] /\ upd'["main"] = upd["main"]
        /\ upd'["read"].e = e /\ upd'["read"].s = s /\ upd'["read"].ret = ret
    <3>1. CASE upd' = upd
      BY <3>1, RaceParts DEF e, s, ret
    <3>2. CASE upd' = [upd EXCEPT !["read"].ok = FALSE]
      BY <3>2, RaceParts DEF Thread, Calls, e, s, ret
    <3> QED
      BY <1>7, <3>1, <3>2
  <2>2. pc'["read"] = to /\ to \in ReadPcs
    BY <1>7, RaceMove DEF Thread, ReadPcs
  <2>3. UNCHANGED <<el_idx, cmd, rx_id>>
    BY <1>7 DEF UpdateRest
  <2>4. /\ slots' \in [Eid -> Slots] /\ slots'[e] = new
        /\ e # 0 => slots'[0] = slots[0]
    BY <1>2, <1>7, RaceParts
  <2>5. slots'[0].type = slots[0].type
    BY <1>7, <2>4 DEF ent
  <2>6. /\ Renaming' <=> ret # "set"
        /\ Setting' <=> ret = "set"
    BY <1>3, <1>7, <2>1, <2>2 DEF Renaming, Setting, Update
  <2>7. CommandInv'
    BY <1>3, <2>1, <2>2, <2>3, <2>6 DEF CommandInv
  <2>8. Restarting' <=> e = 0
    BY <1>3, <2>3, <2>6 DEF Restarting
  <2>9. Declaring => slots'[0].state = slots[0].state /\ ~Restarting'
    BY <1>5, <2>4, <2>8
  <2>10. Accepting /\ ~Restarting' => IsDeclared(slots'[0])
    BY <1>5, <2>4, <2>8
  <2>11. Restarting' =>
           /\ to \in {"grow", "moved", "tear", "copied"} => slots'[0].state = OFF
           /\ to = "check" /\ upd'["read"].ret = "renamed" => slots'[0].state = OFF
           /\ Accepting /\ to = "store" /\ upd'["read"].ret = "renamed" =>
                IsDeclared(slots'[0])
           /\ Accepting /\ to = "renamed" => IsDeclared(slots'[0])
    BY <1>3, <1>7, <2>1, <2>4, <2>8 DEF Update
  <2> QED
    BY <1>1, <1>7, <2>1, <2>2, <2>3, <2>4, <2>5, <2>7, <2>9, <2>10, <2>11, RaceParts, ReadRace
<1>8. CASE UpdateCheck("read")
  <2> DEFINE to == IF ent.state = s THEN ret ELSE IF MustSwitch(ent, s) THEN "mark" ELSE "store"
  <2>1. /\ pc["read"] = "check" /\ pc' = [pc EXCEPT !["read"] = to]
        /\ UNCHANGED <<slots, upd>> /\ UpdateRest
    BY <1>8 DEF UpdateCheck, Move, ent, e, s, ret
  <2>2. slots' = [slots EXCEPT ![e] = ent]
    BY <1>2, <2>1, RaceParts DEF ent
  <2>3. to \in Update \cup {"set", "grow", "renamed"} /\ (to \in Update \/ to = ret)
    BY <1>3 DEF Update
  <2>4. e = 0 /\ ret = "renamed" => ent.state = OFF /\ s = ON
    BY <1>3, <1>4, <2>1 DEF RaceInv, QueryableInv, ent, ret
  <2>5. e = 0 /\ ret = "renamed" => to = "mark"
    BY <2>4, States DEF MustSwitch
  <2>6. e = 0 /\ ret = "grow" /\ to = "grow" => ent.state = OFF
    BY <1>3
  <2> HIDE DEF to
  <2> QED
    BY <1>2, <1>7, <2>1, <2>2, <2>3, <2>4, <2>5, <2>6
<1>9. CASE UpdateMark("read")
  <2> DEFINE new == [ent EXCEPT !.state = INVALID]
  <2>1. /\ pc' = [pc EXCEPT !["read"] = "switch"] /\ slots' = [slots EXCEPT ![e] = new]
        /\ UNCHANGED upd /\ UpdateRest
    BY <1>9 DEF UpdateMark, Move, SetSlot, ent, e
  <2>2. new \in Slots /\ new.type = ent.type
    BY <1>2, States DEF Slots
  <2> HIDE DEF new
  <2>3. /\ "switch" \in Update /\ "switch" \in Update \cup {"set", "grow", "renamed"}
        /\ "switch" \notin {"grow", "check", "store", "renamed"} /\ upd' = upd
    BY <2>1 DEF Update
  <2> QED
    BY <1>7, <2>1, <2>2, <2>3
<1>10. CASE UpdateSwitch("read")
  <2>1. CASE Undefined("handler")
    BY <2>1, UndefinedRace
  <2>2. CASE /\ ent.type \notin Types /\ pc' = [pc EXCEPT !["read"] = ret]
             /\ upd' = [upd EXCEPT !["read"].ok = FALSE] /\ UNCHANGED slots /\ UpdateRest
    <3>1. e # 0
      BY <1>6, <2>2 DEF ent, Types
    <3>2. slots' = [slots EXCEPT ![e] = ent]
      BY <1>2, <2>2, RaceParts DEF ent
    <3> QED
      BY <1>2, <1>3, <1>7, <2>2, <3>1, <3>2
  <2>3. CASE /\ ~SwitchIsUndefined(ent, s) /\ pc' = [pc EXCEPT !["read"] = "store"]
             /\ \E declared \in DeclareResults :
                  slots' = [slots EXCEPT ![e] = Switch(ent, s, declared)]
             /\ UNCHANGED upd /\ UpdateRest
    <3>1. PICK declared \in DeclareResults :
            slots' = [slots EXCEPT ![e] = Switch(ent, s, declared)]
      BY <2>3
    <3> DEFINE new == Switch(ent, s, declared)
    <3>2. new \in Slots /\ new.type = ent.type
      BY <1>2, <2>3, States DEF Switch, SwitchIsUndefined, Slots
    <3>3. Accepting /\ e = 0 /\ ret = "renamed" => IsDeclared(new)
      <4>1. SUFFICES ASSUME declared = TRUE, e = 0, ret = "renamed" PROVE IsDeclared(new)
        BY ThreadsAssumption DEF Accepting
      <4>2. s = ON /\ ent.type \in Declarable
        BY <1>3, <1>6, <4>1 DEF ent, Declarable
      <4>3. ent.ke_suffix \in KeyExprs
        BY <2>3, <4>2 DEF SwitchIsUndefined
      <4> QED
        BY <1>2, <4>1, <4>2, <4>3 DEF Switch, IsDeclared, Slots
    <3> HIDE DEF new
    <3>4. slots' = [slots EXCEPT ![e] = new] /\ upd' = upd
      BY <2>3, <3>1 DEF new
    <3>5. /\ "store" \in Update /\ "store" \in Update \cup {"set", "grow", "renamed"}
          /\ "store" \notin {"grow", "check", "renamed"}
      BY DEF Update
    <3> QED
      BY <1>7, <2>3, <3>2, <3>3, <3>4, <3>5
  <2> QED
    BY <1>10, <2>1, <2>2, <2>3 DEF UpdateSwitch, Move, SetSlot, ent, e, s, ret
<1>11. CASE UpdateStore("read")
  <2> DEFINE new == [ent EXCEPT !.state = Int8(s)]
  <2>1. /\ pc["read"] = "store" /\ pc' = [pc EXCEPT !["read"] = ret]
        /\ slots' = [slots EXCEPT ![e] = new] /\ UNCHANGED upd /\ UpdateRest
    BY <1>11 DEF UpdateStore, Move, SetSlot, ent, e, s, ret
  <2>2. new \in Slots /\ new.type = ent.type /\ new.state = s /\ new.data = ent.data
    BY <1>2, States DEF Slots
  <2> HIDE DEF new
  <2>3. Accepting /\ e = 0 /\ ret = "renamed" => IsDeclared(ent)
    BY <1>4, <2>1 DEF RaceInv, QueryableInv, ent, ret
  <2>4. Accepting /\ e = 0 /\ ret = "renamed" => IsDeclared(new)
    BY <2>2, <2>3 DEF IsDeclared
  <2>5. e = 0 /\ ret = "grow" => new.state = OFF
    BY <1>3, <2>2
  <2>6. ret \notin Update
    BY <1>3 DEF Update
  <2> QED
    BY <1>3, <1>7, <2>1, <2>2, <2>4, <2>5, <2>6 DEF Update
<1> QED
  BY <1>8, <1>9, <1>10, <1>11 DEF zdc_update_entity_state

\* A step of the main thread.
LEMMA MainRace ==
  ASSUME RaceInv, NEW to \in SetUp \cup Loop \cup Update, to # "boot",
         pc' = [pc EXCEPT !["main"] = to], slots' \in [Eid -> Slots], el_idx' \in 0 .. 3,
         upd' \in [Thread -> Calls], upd'["read"] = upd["read"], UNCHANGED <<cmd, rx_id>>,
         AddInv',
         slots'[0].type = "QUERYABLE",
         Restarting => slots'[0].state = slots[0].state /\ slots'[0].data = slots[0].data,
         Undeclared' => pc["read"] = "idle" /\ ~IsDeclared(slots'[0]),
         Declaring' => /\ upd'["main"].s = ON /\ ~Restarting
                       /\ to = "check" => slots'[0].state = OFF
                       /\ to \in {"switch", "store"} => slots'[0].state = INVALID,
         Accepting /\ ~Undeclared' /\ ~Restarting => IsDeclared(slots'[0])
  PROVE  RaceInv'
<1>1. DOMAIN pc' = Thread /\ pc'["main"] = to /\ pc'["read"] = pc["read"]
  BY RaceMove DEF Thread
<1>2. RaceTypes'
  BY <1>1 DEF RaceInv, RaceTypes
<1>3. CommandInv' /\ Restarting' = Restarting
  BY <1>1 DEF RaceInv, CommandInv, Setting, Renaming, Restarting
<1>4. IsDeclared(slots[0]) /\ Restarting => IsDeclared(slots'[0])
  BY DEF IsDeclared
<1>5. QueryableInv'
  BY <1>1, <1>3, <1>4 DEF RaceInv, QueryableInv
<1> QED
  BY <1>2, <1>3, <1>5 DEF RaceInv

\* One taken after the update that declares slot 0.
LEMMA BeyondRace ==
  ASSUME RaceInv, NEW to \in SetUp \cup Loop \cup Update, to # "boot",
         pc' = [pc EXCEPT !["main"] = to], slots' \in [Eid -> Slots], slots'[0] = slots[0],
         ~Undeclared, el_idx' \in 1 .. 3, UNCHANGED <<cmd, rx_id>>,
         upd' \in [Thread -> Calls], upd'["read"] = upd["read"], AddInv'
  PROVE  RaceInv'
<1>1. ~Undeclared' /\ ~Declaring'
  BY RaceMove DEF Undeclared, Declaring, Thread
<1>2. slots[0].type = "QUERYABLE" /\ (Accepting /\ ~Restarting => IsDeclared(slots[0]))
  BY DEF RaceInv, QueryableInv, Undeclared
<1>3. el_idx' \in 0 .. 3
  OBVIOUS
<1> QED
  BY <1>1, <1>2, <1>3, MainRace

LEMMA MainInitRace ==
  ASSUME RaceInv, MainInit
  PROVE  RaceInv'
<1> DEFINE ent  == [type |-> "QUERYABLE", state |-> OFF, ke_suffix |-> DefKe[0],
                    ke_size |-> NewSize(DefKe[0]), data |-> slots[0].data]
           call == [e |-> 0, s |-> ON, ok |-> TRUE, ret |-> "added"]
<1>1. /\ pc["main"] = "boot" /\ pc' = [pc EXCEPT !["main"] = "check"]
      /\ slots' = [slots EXCEPT ![0] = ent] /\ upd' = [upd EXCEPT !["main"] = call]
      /\ UNCHANGED <<el_idx, cmd, rx_id>>
  BY DEF MainInit, Call, Move, SetSlot, MainRest
<1>2. el_idx = 0 /\ pc["read"] = "idle" /\ ~IsDeclared(slots[0])
  BY <1>1 DEF RaceInv, AddInv, QueryableInv, Undeclared
<1>3. DefKe[0] \in KeyExprs
  BY Sizes, ThreadsAssumption
<1>4. ent \in Slots /\ ent.type = "QUERYABLE" /\ ent.state = OFF /\ ent.data = slots[0].data
  BY <1>3, RaceParts, SmallSlot DEF Slots, Types
<1>5. call \in Calls /\ call.e = 0 /\ call.s = ON /\ call.ret = "added"
  BY RaceParts DEF Calls
<1> HIDE DEF ent, call
<1>6. slots' \in [Eid -> Slots] /\ slots'[0] = ent
  BY <1>1, <1>4, RaceParts
<1>7. upd' \in [Thread -> Calls] /\ upd'["read"] = upd["read"] /\ upd'["main"] = call
  BY <1>1, <1>5, RaceParts DEF Thread
<1>8. "check" \in SetUp \cup Loop \cup Update /\ pc'["main"] = "check"
  BY <1>1, RaceMove DEF Update, Thread
<1>9. AddInv'
  BY <1>1, <1>2, <1>5, <1>7, <1>8 DEF AddInv, Loop
<1>10. ~Restarting /\ Undeclared'
  BY <1>1, <1>2, <1>8 DEF Restarting, Renaming, Undeclared, Update
<1>11. ~IsDeclared(slots'[0])
  BY <1>2, <1>4, <1>6 DEF IsDeclared
<1>12. el_idx' \in 0 .. 3
  BY <1>1, <1>2
<1> QED
  BY <1>1, <1>2, <1>4, <1>5, <1>6, <1>7, <1>8, <1>9, <1>10, <1>11, <1>12, MainRace

\* The statements that add slots 1 and 2.
LEMMA AddRace ==
  ASSUME RaceInv, AddType \/ AddState \/ AddSize \/ AddAlloc \/ AddCopy
  PROVE  RaceInv'
<1>1. pc["main"] \in {"type", "state", "size", "alloc", "copy"} /\ UNCHANGED <<el_idx, cmd, rx_id>>
  BY DEF AddType, AddState, AddSize, AddAlloc, AddCopy, AddWrite, Call, Move, MainRest,
         Undefined, shared
<1>2. el_idx \in 1 .. 2 /\ el_idx \in Eid /\ el_idx # 0
  BY <1>1, Sizes DEF RaceInv, AddInv
<1>3. slots[el_idx] \in Slots /\ DefKe[el_idx] \in KeyExprs
  BY <1>2, RaceParts, ThreadsAssumption
<1>4. ~Undeclared
  BY <1>1, <1>2 DEF Undeclared
<1>5. ASSUME NEW to \in {"state", "size", "alloc", "copy"}, NEW ent \in Slots,
             UNCHANGED upd, pc' = [pc EXCEPT !["main"] = to],
             slots' = [slots EXCEPT ![el_idx] = ent]
      PROVE  RaceInv'
  <2>1. /\ slots' \in [Eid -> Slots] /\ slots'[0] = slots[0]
        /\ upd' \in [Thread -> Calls] /\ upd'["read"] = upd["read"]
    BY <1>2, <1>5, RaceParts
  <2>2. to \in SetUp \cup Loop \cup Update /\ to # "boot" /\ to \notin Loop \cup Update
    BY DEF SetUp, Loop, Update
  <2>3. pc'["main"] = to
    BY <1>5, RaceMove DEF Thread
  <2>4. AddInv' /\ el_idx' \in 1 .. 3
    BY <1>1, <1>2, <2>2, <2>3 DEF AddInv
  <2> QED
    BY <1>1, <1>4, <1>5, <2>1, <2>2, <2>4, BeyondRace
<1>6. CASE AddType
  <2>1. [slots[el_idx] EXCEPT !.type = Adds[el_idx].type] \in Slots
    <3>1. Adds[el_idx].type \in Types
      BY <1>2 DEF Adds, Types
    <3> QED
      BY <1>3, <3>1 DEF Slots
  <2> QED
    BY <1>5, <1>6, <2>1 DEF AddType, AddWrite, Move, SetSlot
<1>7. CASE AddState
  <2>1. [slots[el_idx] EXCEPT !.state = INVALID] \in Slots
    BY <1>3, States DEF Slots
  <2> QED
    BY <1>5, <1>7, <2>1 DEF AddState, AddWrite, Move, SetSlot
<1>8. CASE AddSize
  <2>1. [slots[el_idx] EXCEPT !.ke_size = NewSize(DefKe[el_idx])] \in Slots
    BY <1>3, SmallSlot DEF Slots
  <2> QED
    BY <1>5, <1>8, <2>1 DEF AddSize, AddWrite, Move, SetSlot
<1>9. CASE AddAlloc
  <2>1. [slots[el_idx] EXCEPT !.ke_suffix = Torn] \in Slots
    BY <1>3 DEF Slots
  <2> QED
    BY <1>5, <1>9, <2>1 DEF AddAlloc, AddWrite, Move, SetSlot
<1>10. CASE AddCopy /\ Undefined("application")
  BY <1>10, UndefinedRace
<1>11. CASE AddCopy /\ ~Undefined("application")
  <2> DEFINE ent  == [slots[el_idx] EXCEPT !.ke_suffix = DefKe[el_idx]]
             call == [e |-> el_idx, s |-> IF Adds[el_idx].on THEN ON ELSE OFF, ok |-> TRUE,
                      ret |-> "added"]
  <2>1. /\ pc' = [pc EXCEPT !["main"] = "check"] /\ upd' = [upd EXCEPT !["main"] = call]
        /\ slots' = [slots EXCEPT ![el_idx] = ent]
    BY <1>11 DEF AddCopy, Call, Move, SetSlot
  <2>2. ent \in Slots
    BY <1>3 DEF Slots
  <2>3. call \in Calls /\ call.e = el_idx /\ call.ret = "added"
    BY <1>2 DEF Calls
  <2> HIDE DEF ent, call
  <2>4. /\ slots' \in [Eid -> Slots] /\ slots'[0] = slots[0]
        /\ upd' \in [Thread -> Calls] /\ upd'["read"] = upd["read"] /\ upd'["main"] = call
    BY <1>2, <2>1, <2>2, <2>3, RaceParts DEF Thread
  <2>5. "check" \in SetUp \cup Loop \cup Update /\ pc'["main"] = "check"
    BY <2>1, RaceMove DEF Update, Thread
  <2>6. AddInv' /\ el_idx' \in 1 .. 3
    BY <1>1, <1>2, <2>3, <2>4, <2>5 DEF AddInv, Loop
  <2> QED
    BY <1>1, <1>4, <2>1, <2>4, <2>5, <2>6, BeyondRace
<1> QED
  BY <1>6, <1>7, <1>8, <1>9, <1>10, <1>11

LEMMA AddedRace ==
  ASSUME RaceInv, Added
  PROVE  RaceInv'
<1> DEFINE to == IF el_idx < EntityNb THEN "type" ELSE "load"
<1>1. /\ pc["main"] = "added" /\ pc' = [pc EXCEPT !["main"] = to] /\ el_idx' = el_idx + 1
      /\ upd' = [upd EXCEPT !["main"] = NoCall] /\ UNCHANGED <<slots, cmd, rx_id>>
  BY DEF Added, Move, MainRest
<1>2. el_idx \in 0 .. 2 /\ ~Undeclared
  BY <1>1 DEF RaceInv, AddInv, Undeclared
<1>3. upd' \in [Thread -> Calls] /\ upd'["read"] = upd["read"]
  BY <1>1, RaceParts DEF Thread
<1>4. /\ to \in SetUp \cup Loop \cup Update /\ to # "boot" /\ pc'["main"] = to
      /\ to \notin Update \cup {"added"}
  BY <1>1, RaceMove DEF SetUp, Loop, Update, Thread
<1>5. el_idx' \in 1 .. 3 /\ (to = "type" => el_idx' \in 1 .. 2) /\ (to = "load" => el_idx' = 3)
  BY <1>1, <1>2, Sizes
<1>6. AddInv'
  BY <1>4, <1>5 DEF AddInv, Loop, Update
<1> HIDE DEF to
<1> QED
  BY <1>1, <1>2, <1>3, <1>4, <1>5, <1>6, RaceParts, BeyondRace

LEMMA PublishRace ==
  ASSUME RaceInv, Publish
  PROVE  RaceInv'
<1>1. /\ pc["main"] \in Loop /\ UNCHANGED <<slots, el_idx, upd, cmd, rx_id>>
      /\ \E to \in Loop : pc' = [pc EXCEPT !["main"] = to]
  BY DEF Publish, PubCheck, PubKeyexpr, PubPut, PubRest, Move, Loop
<1>2. PICK to \in Loop : pc' = [pc EXCEPT !["main"] = to]
  BY <1>1
<1>3. el_idx = 3 /\ ~Undeclared
  BY <1>1 DEF RaceInv, AddInv, Undeclared, Loop
<1>4. /\ to \in SetUp \cup Loop \cup Update /\ to # "boot" /\ pc'["main"] = to
      /\ to \notin SetUp \cup Update
  BY <1>2, RaceMove DEF SetUp, Loop, Update, Thread
<1>5. AddInv' /\ el_idx' \in 1 .. 3
  BY <1>1, <1>3, <1>4 DEF AddInv, SetUp
<1> QED
  BY <1>1, <1>2, <1>3, <1>4, <1>5, RaceParts, BeyondRace

\* The update an added entity starts with.
LEMMA MainUpdateRace ==
  ASSUME RaceInv, zdc_update_entity_state("main")
  PROVE  RaceInv'
<1> DEFINE s   == upd["main"].s
           ent == slots[el_idx]
<1>1. pc["main"] \in Update
  BY DEF zdc_update_entity_state, UpdateCheck, UpdateMark, UpdateSwitch, UpdateStore, Move, Update
<1>2. /\ el_idx \in 0 .. 2 /\ el_idx \in Eid
      /\ upd["main"].e = el_idx /\ upd["main"].ret = "added"
  BY <1>1, Sizes DEF RaceInv, AddInv
<1>3. ent \in Slots /\ s \in {OFF, ON}
  BY <1>2, RaceParts DEF Calls
<1>4. el_idx = 0 => Declaring /\ s = ON /\ ~Restarting /\ ent.type = "QUERYABLE"
  BY <1>1 DEF RaceInv, QueryableInv, Declaring, Update
<1> HIDE DEF s, ent
<1>5. ASSUME NEW to \in Update \cup {"added"}, pc' = [pc EXCEPT !["main"] = to],
             NEW new \in Slots, slots' = [slots EXCEPT ![el_idx] = new], new.type = ent.type,
             upd' = upd \/ upd' = [upd EXCEPT !["main"].ok = FALSE], UpdateRest,
             el_idx = 0 =>
               /\ to # "check"
               /\ to \in {"mark", "switch"} => pc["read"] = "idle" /\ ~IsDeclared(new)
               /\ to \in {"switch", "store"} => new.state = INVALID
               /\ Accepting /\ to \in {"store", "added"} => IsDeclared(new)
      PROVE  RaceInv'
  <2>1. /\ upd' \in [Thread -> Calls] /\ upd'["read"] = upd["read"]
        /\ upd'["main"].e = el_idx /\ upd'["main"].ret = "added" /\ upd'["main"].s = s
    <3>1. CASE upd' = upd
      BY <1>2, <3>1, RaceParts DEF s
    <3>2. CASE upd' = [upd EXCEPT !["main"].ok = FALSE]
      BY <1>2, <3>2, RaceParts DEF Thread, Calls, s
    <3> QED
      BY <1>5, <3>1, <3>2
  <2>2. slots' \in [Eid -> Slots] /\ slots'[el_idx] = new /\ (el_idx # 0 => slots'[0] = slots[0])
    BY <1>2, <1>5, RaceParts
  <2>3. /\ to \in SetUp \cup Loop \cup Update /\ to # "boot" /\ pc'["main"] = to
        /\ to \notin Loop \cup {"type", "state", "size", "alloc", "copy"}
    BY <1>5, RaceMove DEF SetUp, Loop, Update, Thread
  <2>4. UNCHANGED <<el_idx, cmd, rx_id>>
    BY <1>5 DEF UpdateRest
  <2>5. AddInv'
    BY <1>2, <2>1, <2>3, <2>4 DEF AddInv
  <2>6. CASE el_idx = 0
    <3>1. Undeclared' <=> to \in {"check", "mark", "switch"}
      BY <2>3, <2>4, <2>6 DEF Undeclared
    <3>2. to \in {"mark", "switch", "store", "added"}
      BY <1>5, <2>6 DEF Update
    <3>3. el_idx' \in 0 .. 3
      BY <1>2, <2>4
    <3> QED
      BY <1>4, <1>5, <2>1, <2>2, <2>3, <2>4, <2>5, <2>6, <3>1, <3>2, <3>3, MainRace
  <2>7. CASE el_idx # 0
    <3>1. ~Undeclared /\ el_idx' \in 1 .. 3
      BY <1>1, <1>2, <2>4, <2>7 DEF Undeclared, Update
    <3> QED
      BY <1>5, <2>1, <2>2, <2>3, <2>4, <2>5, <2>7, <3>1, BeyondRace
  <2> QED
    BY <2>6, <2>7
<1>6. el_idx = 0 /\ pc["main"] # "store" => pc["read"] = "idle" /\ ~IsDeclared(ent)
  BY <1>1 DEF RaceInv, QueryableInv, Undeclared, Update, ent
<1>7. CASE UpdateCheck("main")
  <2> DEFINE to == IF ent.state = s THEN "added" ELSE IF MustSwitch(ent, s) THEN "mark"
                                                                           ELSE "store"
  <2>1. /\ pc["main"] = "check" /\ pc' = [pc EXCEPT !["main"] = to]
        /\ UNCHANGED <<slots, upd>> /\ UpdateRest
    BY <1>2, <1>7 DEF UpdateCheck, Move, ent, s
  <2>2. slots' = [slots EXCEPT ![el_idx] = ent]
    BY <1>2, <2>1, RaceParts DEF ent
  <2>3. to \in Update \cup {"added"}
    BY DEF Update
  <2>4. el_idx = 0 => ent.state = OFF
    BY <1>4, <2>1 DEF RaceInv, QueryableInv, ent
  <2>5. el_idx = 0 => to = "mark"
    BY <1>4, <2>4, States DEF MustSwitch
  <2>6. upd' = upd /\ UpdateRest
    BY <2>1
  <2> HIDE DEF to
  <2> QED
    BY <1>3, <1>5, <1>6, <2>1, <2>2, <2>3, <2>5, <2>6
<1>8. CASE UpdateMark("main")
  <2> DEFINE new == [ent EXCEPT !.state = INVALID]
  <2>1. /\ pc["main"] = "mark" /\ pc' = [pc EXCEPT !["main"] = "switch"]
        /\ slots' = [slots EXCEPT ![el_idx] = new] /\ upd' = upd /\ UpdateRest
    BY <1>2, <1>8 DEF UpdateMark, Move, SetSlot, ent
  <2>2. new \in Slots /\ new.type = ent.type /\ new.state = INVALID /\ new.data = ent.data
    BY <1>3, States DEF Slots
  <2> HIDE DEF new
  <2>3. el_idx = 0 => pc["read"] = "idle" /\ ~IsDeclared(new)
    BY <1>6, <2>1, <2>2 DEF IsDeclared
  <2>4. "switch" \in Update \cup {"added"} /\ "switch" \notin {"check", "store", "added"}
    BY DEF Update
  <2> QED
    BY <1>5, <2>1, <2>2, <2>3, <2>4
<1>9. CASE UpdateSwitch("main")
  <2>1. CASE Undefined("application")
    BY <2>1, UndefinedRace
  <2>2. CASE /\ ent.type \notin Types /\ pc' = [pc EXCEPT !["main"] = "added"]
             /\ upd' = [upd EXCEPT !["main"].ok = FALSE] /\ UNCHANGED slots /\ UpdateRest
    <3>1. el_idx # 0
      BY <1>4, <2>2 DEF Types
    <3>2. slots' = [slots EXCEPT ![el_idx] = ent]
      BY <1>2, <2>2, RaceParts DEF ent
    <3> QED
      BY <1>3, <1>5, <2>2, <3>1, <3>2
  <2>3. CASE /\ pc["main"] = "switch" /\ ~SwitchIsUndefined(ent, s)
             /\ pc' = [pc EXCEPT !["main"] = "store"]
             /\ \E declared \in DeclareResults :
                  slots' = [slots EXCEPT ![el_idx] = Switch(ent, s, declared)]
             /\ upd' = upd /\ UpdateRest
    <3>1. PICK declared \in DeclareResults :
            slots' = [slots EXCEPT ![el_idx] = Switch(ent, s, declared)]
      BY <2>3
    <3> DEFINE new == Switch(ent, s, declared)
    <3>2. new \in Slots /\ new.type = ent.type /\ new.state = ent.state
      BY <1>3, <2>3, States DEF Switch, SwitchIsUndefined, Slots
    <3>3. el_idx = 0 => (Accepting => IsDeclared(new)) /\ ent.state = INVALID
      <4>1. SUFFICES ASSUME el_idx = 0
                     PROVE  (Accepting => IsDeclared(new)) /\ ent.state = INVALID
        OBVIOUS
      <4>2. ent.state = INVALID
        BY <1>4, <2>3, <4>1 DEF RaceInv, QueryableInv, ent
      <4>3. s = ON /\ ent.type \in Declarable
        BY <1>4, <4>1 DEF Declarable
      <4>4. ent.ke_suffix \in KeyExprs
        BY <2>3, <4>3 DEF SwitchIsUndefined
      <4>5. declared = TRUE => IsDeclared(new)
        BY <1>3, <4>3, <4>4 DEF Switch, IsDeclared, Slots
      <4>6. Accepting => declared = TRUE
        BY ThreadsAssumption DEF Accepting
      <4> QED
        BY <4>2, <4>5, <4>6
    <3>4. slots' = [slots EXCEPT ![el_idx] = new]
      BY <3>1
    <3> HIDE DEF new
    <3>5. "store" \in Update \cup {"added"} /\ "store" \notin {"check", "mark", "switch"}
      BY DEF Update
    <3> QED
      BY <1>5, <2>3, <3>2, <3>3, <3>4, <3>5
  <2> QED
    BY <1>2, <1>9, <2>1, <2>2, <2>3 DEF UpdateSwitch, Move, SetSlot, ent, s
<1>10. CASE UpdateStore("main")
  <2> DEFINE new == [ent EXCEPT !.state = Int8(s)]
  <2>1. /\ pc["main"] = "store" /\ pc' = [pc EXCEPT !["main"] = "added"]
        /\ slots' = [slots EXCEPT ![el_idx] = new] /\ upd' = upd /\ UpdateRest
    BY <1>2, <1>10 DEF UpdateStore, Move, SetSlot, ent, s
  <2>2. new \in Slots /\ new.type = ent.type /\ new.data = ent.data
    BY <1>3, States DEF Slots
  <2> HIDE DEF new
  <2>3. Accepting /\ el_idx = 0 => IsDeclared(ent)
    BY <1>4, <2>1 DEF RaceInv, QueryableInv, Undeclared, ent
  <2>4. Accepting /\ el_idx = 0 => IsDeclared(new)
    BY <2>2, <2>3 DEF IsDeclared
  <2>5. "added" \in Update \cup {"added"} /\ "added" \notin {"check", "mark", "switch", "store"}
    OBVIOUS
  <2> QED
    BY <1>5, <2>1, <2>2, <2>4, <2>5
<1> QED
  BY <1>7, <1>8, <1>9, <1>10 DEF zdc_update_entity_state

LEMMA StepRace ==
  ASSUME RaceInv, [Next]_vars
  PROVE  RaceInv'
<1>1. CASE MainThread
  BY <1>1, MainInitRace, AddRace, AddedRace, PublishRace, MainUpdateRace
  DEF MainThread, AddEntities
<1>2. CASE Receive
  <2>1. CASE Rejected
    BY <2>1, FinishRace DEF Rejected
  <2> QED
    BY <1>2, <2>1, ListRace, SetStateRace, SetKeyexprRace, SetConfigRace DEF Receive
<1>3. CASE Execute
  <2>1. CASE SetStateDone
    BY <2>1, FinishRace DEF SetStateDone
  <2>2. CASE RenameDone
    BY <2>2, FinishRace DEF RenameDone
  <2> QED
    BY <1>3, <2>1, <2>2, ReadUpdateRace, RenameRace, ListRace DEF Execute
<1>4. CASE UNCHANGED vars
  BY <1>4
  DEF vars, RaceInv, RaceTypes, AddInv, CommandInv, QueryableInv, Setting, Renaming,
      Undeclared, Declaring, Restarting
<1> QED
  BY <1>1, <1>2, <1>3, <1>4 DEF Next

\* Whatever queries arrive while zdc_add_*_entity still writes the table, and
\* wherever they interrupt the declaration of slot 0: as long as zenoh accepts
\* declarations, once the set-up has gone past that slot node B listens
\* whenever no command is being carried out.
THEOREM ControlSurvivesRaces ==
  ASSUME FALSE \notin DeclareResults PROVE Spec => []ControlSurvivesSetUp
<1> Accepting
  BY DEF Accepting
<1>1. Init => RaceInv
  BY InitRace
<1>2. RaceInv /\ [Next]_vars => RaceInv'
  BY StepRace
<1>3. RaceInv => ControlSurvivesSetUp
  <2> SUFFICES ASSUME RaceInv, el_idx > 0, pc["read"] = "idle" PROVE IsDeclared(slots[0])
    BY DEF ControlSurvivesSetUp
  <2>1. ~Undeclared
    BY DEF RaceInv, RaceTypes, AddInv, Undeclared
  <2>2. ~Restarting
    BY DEF Restarting, Renaming, Update
  <2> QED
    BY <2>1, <2>2 DEF RaceInv, QueryableInv
<1> QED
  BY <1>1, <1>2, <1>3, PTL DEF Spec

-----------------------------------------------------------------------------
(* The samples, as long as no rename is for the publisher.                  *)

RenamesPublisher == Renaming /\ cmd.e = Publisher

\* The set-up has copied the publisher's string.
PublisherNamed ==
  el_idx \in 2 .. 3 \/ (el_idx = 1 /\ pc["main"] \in Update \cup {"added"})

\* Its string is whole and stays where it is.
PutInv ==
  /\ fault # "publisher" /\ dangling = FALSE /\ sample \in KeyExprs \cup {NULL}
  /\ PublisherNamed => slots[Publisher].ke_suffix \in KeyExprs

LEMMA PublisherSlot == Publisher \in Eid /\ Publisher = 1 /\ DefKe[Publisher] \in KeyExprs
  BY Sizes, ThreadsAssumption

\* A step that leaves the publisher's string, and what it sent, alone.
LEMMA KeepsPut ==
  ASSUME PutInv, PublisherNamed' => PublisherNamed,
         slots'[Publisher].ke_suffix = slots[Publisher].ke_suffix,
         fault' # "publisher", UNCHANGED <<dangling, sample>>
  PROVE  PutInv'
  BY DEF PutInv

\* zdc_update_entity_state never writes a string.
LEMMA UpdatePut ==
  ASSUME RaceInv, PutInv, NEW t \in Thread, zdc_update_entity_state(t)
  PROVE  PutInv'
<1> DEFINE e == upd[t].e
<1>1. e \in Eid /\ upd[t].s \in {OFF, ON} /\ slots[e] \in Slots /\ slots \in [Eid -> Slots]
  BY RaceParts DEF Calls
<1>2. UNCHANGED <<el_idx, dangling, sample>>
  BY DEF zdc_update_entity_state, UpdateCheck, UpdateMark, UpdateSwitch, UpdateStore,
         UpdateRest, Undefined, shared
<1>3. pc[t] \in Update /\ fault' # "publisher"
  <2>1. fault # "publisher"
    BY DEF PutInv
  <2> QED
    BY <2>1 DEF zdc_update_entity_state, UpdateCheck, UpdateMark, UpdateSwitch, UpdateStore,
                Move, Undefined, Update
<1>4. PublisherNamed' => PublisherNamed
  <2>1. CASE t = "main"
    BY <1>2, <1>3, <2>1 DEF PublisherNamed
  <2>2. CASE t = "read"
    <3>1. pc'["main"] = pc["main"]
      BY <2>2
      DEF zdc_update_entity_state, UpdateCheck, UpdateMark, UpdateSwitch, UpdateStore, Move,
          Undefined, RaceInv, RaceTypes, Thread
    <3> QED
      BY <1>2, <3>1 DEF PublisherNamed
  <2> QED
    BY <2>1, <2>2 DEF Thread
<1>5. \/ UNCHANGED slots
      \/ \E new \in Slots : /\ slots' = [slots EXCEPT ![e] = new]
                            /\ new.ke_suffix = slots[e].ke_suffix
  <2>1. CASE UpdateCheck(t)
    BY <2>1 DEF UpdateCheck
  <2>2. CASE UpdateMark(t)
    <3>1. /\ slots' = [slots EXCEPT ![e] = [slots[e] EXCEPT !.state = INVALID]]
          /\ [slots[e] EXCEPT !.state = INVALID] \in Slots
          /\ [slots[e] EXCEPT !.state = INVALID].ke_suffix = slots[e].ke_suffix
      BY <1>1, <2>2, States DEF UpdateMark, SetSlot, Slots
    <3> QED
      BY <3>1
  <2>3. CASE UpdateSwitch(t)
    <3>1. CASE UNCHANGED slots
      BY <3>1
    <3>2. CASE /\ ~SwitchIsUndefined(slots[e], upd[t].s)
               /\ \E declared \in DeclareResults :
                    slots' = [slots EXCEPT ![e] = Switch(slots[e], upd[t].s, declared)]
      <4>1. PICK declared \in DeclareResults :
              slots' = [slots EXCEPT ![e] = Switch(slots[e], upd[t].s, declared)]
        BY <3>2
      <4> DEFINE new == Switch(slots[e], upd[t].s, declared)
      <4>2. new \in Slots /\ new.ke_suffix = slots[e].ke_suffix
        BY <1>1, <3>2, States DEF Switch, SwitchIsUndefined, Slots
      <4> QED
        BY <4>1, <4>2
    <3> QED
      BY <2>3, <3>1, <3>2 DEF UpdateSwitch, Undefined, SetSlot, shared
  <2>4. CASE UpdateStore(t)
    <3>1. /\ slots' = [slots EXCEPT ![e] = [slots[e] EXCEPT !.state = Int8(upd[t].s)]]
          /\ [slots[e] EXCEPT !.state = Int8(upd[t].s)] \in Slots
          /\ [slots[e] EXCEPT !.state = Int8(upd[t].s)].ke_suffix = slots[e].ke_suffix
      BY <1>1, <2>4, States DEF UpdateStore, SetSlot, Slots
    <3> QED
      BY <3>1
  <2> QED
    BY <2>1, <2>2, <2>3, <2>4 DEF zdc_update_entity_state
<1> HIDE DEF e
<1>6. slots'[Publisher].ke_suffix = slots[Publisher].ke_suffix
  BY <1>1, <1>5, PublisherSlot
<1> QED
  BY <1>2, <1>3, <1>4, <1>6, KeepsPut

\* The statements of the set-up.
LEMMA SetUpPut ==
  ASSUME RaceInv, PutInv, MainInit \/ AddEntities
  PROVE  PutInv'
<1>1. UNCHANGED <<dangling, sample>> /\ fault' # "publisher"
  BY DEF MainInit, AddEntities, AddType, AddState, AddSize, AddAlloc, AddCopy, Added, AddWrite,
         MainRest, Undefined, shared, PutInv
<1>2. slots \in [Eid -> Slots] /\ DOMAIN pc = Thread
  BY DEF RaceInv, RaceTypes
<1>3. CASE MainInit
  <2>1. el_idx' = 0 /\ \E new : slots' = [slots EXCEPT ![0] = new]
    BY <1>3 DEF MainInit, Call, Move, SetSlot, RaceInv, AddInv
  <2>2. slots'[Publisher] = slots[Publisher] /\ ~PublisherNamed'
    BY <1>2, <2>1, PublisherSlot DEF PublisherNamed
  <2> QED
    BY <1>1, <2>2, KeepsPut
<1>4. CASE AddType \/ AddState \/ AddSize \/ AddAlloc
  <2>1. /\ pc'["main"] \in {"state", "size", "alloc", "copy"} /\ UNCHANGED el_idx
        /\ \E new : slots' = [slots EXCEPT ![el_idx] = new]
        /\ pc["main"] \in {"type", "state", "size", "alloc"}
    BY <1>2, <1>4 DEF AddType, AddState, AddSize, AddAlloc, AddWrite, Move, SetSlot, Thread
  <2>2. el_idx \in 1 .. 2
    BY <2>1 DEF RaceInv, AddInv
  <2>3. CASE el_idx = 1
    BY <1>1, <2>1, <2>3 DEF PutInv, PublisherNamed, Update
  <2>4. CASE el_idx = 2
    <3>1. slots'[Publisher] = slots[Publisher] /\ PublisherNamed
      BY <1>2, <2>1, <2>4, PublisherSlot DEF PublisherNamed
    <3> QED
      BY <1>1, <3>1, KeepsPut
  <2> QED
    BY <2>2, <2>3, <2>4
<1>5. CASE AddCopy /\ Undefined("application")
  <2>1. UNCHANGED <<slots, el_idx, pc>>
    BY <1>5 DEF Undefined, shared
  <2> QED
    BY <1>1, <2>1, KeepsPut DEF PublisherNamed
<1>6. CASE AddCopy /\ ~Undefined("application")
  <2>1. /\ slots' = [slots EXCEPT ![el_idx].ke_suffix = DefKe[el_idx]] /\ UNCHANGED el_idx
        /\ pc["main"] = "copy"
    BY <1>2, <1>6 DEF AddCopy, Call, Move, SetSlot
  <2>2. el_idx \in 1 .. 2
    BY <2>1 DEF RaceInv, AddInv
  <2>3. CASE el_idx = 1
    <3>1. slots'[Publisher].ke_suffix \in KeyExprs
      BY <1>2, <2>1, <2>3, PublisherSlot DEF Slots
    <3> QED
      BY <1>1, <3>1 DEF PutInv
  <2>4. CASE el_idx = 2
    <3>1. slots'[Publisher] = slots[Publisher] /\ PublisherNamed
      BY <1>2, <2>1, <2>4, PublisherSlot DEF PublisherNamed
    <3> QED
      BY <1>1, <3>1, KeepsPut
  <2> QED
    BY <2>2, <2>3, <2>4
<1>7. CASE Added
  <2>1. /\ pc["main"] = "added" /\ pc'["main"] \in {"type", "load"}
        /\ el_idx' = el_idx + 1 /\ UNCHANGED slots
    BY <1>2, <1>7 DEF Added, Move, Thread
  <2>2. el_idx \in 0 .. 2
    BY <2>1 DEF RaceInv, AddInv
  <2>3. PublisherNamed' => PublisherNamed
    BY <2>1, <2>2 DEF PublisherNamed, Update
  <2> QED
    BY <1>1, <2>1, <2>3, KeepsPut
<1> QED
  BY <1>3, <1>4, <1>6, <1>7, <1>5 DEF AddEntities

LEMMA PublishPut ==
  ASSUME RaceInv, PutInv, Publish
  PROVE  PutInv'
<1>1. /\ pc["main"] \in Loop /\ UNCHANGED <<slots, el_idx>> /\ fault = "none"
  BY DEF Publish, PubCheck, PubKeyexpr, PubPut, PubRest, Move, Loop
<1>2. el_idx = 3
  BY <1>1 DEF RaceInv, AddInv
<1>3. PublisherNamed /\ slots[Publisher].ke_suffix \in KeyExprs \ {Freed}
  BY <1>2, KeyExprAssumption DEF PutInv, PublisherNamed
<1>4. dangling = FALSE /\ sample \in KeyExprs \cup {NULL}
  BY DEF PutInv
<1>5. dangling' = FALSE /\ fault' = "none" /\ sample' \in {sample, slots[Publisher].ke_suffix}
  BY <1>1, <1>3, <1>4 DEF Publish, PubCheck, PubKeyexpr, PubPut
<1> QED
  BY <1>1, <1>3, <1>4, <1>5 DEF PutInv

\* The read task's own statements.
LEMMA CommandPut ==
  ASSUME RaceInv, PutInv, ~RenamesPublisher,
         \/ Receive
         \/ SetStateDone \/ RenameGrow \/ RenameStore \/ RenameTear \/ RenameCopied \/ RenameDone
         \/ ListOne \/ ListDone
  PROVE  PutInv'
<1>1. fault # "publisher" /\ dangling = FALSE
  BY DEF PutInv
<1>2. slots \in [Eid -> Slots] /\ cmd.e \in Eid /\ DOMAIN pc = Thread
  BY RaceParts DEF RaceInv, RaceTypes
<1>3. ASSUME RenameGrow \/ RenameStore \/ RenameTear \/ RenameCopied PROVE cmd.e # Publisher
  <2>1. pc["read"] \in {"grow", "moved", "tear", "copied"}
    BY <1>3 DEF RenameGrow, RenameStore, RenameTear, RenameCopied, Call, Move
  <2> QED
    BY <2>1 DEF RenamesPublisher, Renaming
<1>4. UNCHANGED <<el_idx, sample>>
  BY DEF Receive, Rejected, Finish, SetState, SetKeyexpr, SetConfig, AnswerAtOnce, RenameRest,
         ListStart, ListRest, SetStateDone, RenameGrow, RenameStore, RenameTear,
         RenameCopied, RenameDone, ListOne, ListDone, Undefined, shared
<1>5. fault' # "publisher"
  BY <1>1
  DEF Receive, Rejected, Finish, SetState, SetKeyexpr, SetConfig, AnswerAtOnce, RenameRest,
      ListStart, ListRest, SetStateDone, RenameGrow, RenameStore, RenameTear,
      RenameCopied, RenameDone, ListOne, ListDone, Undefined, shared
<1>6. pc'["main"] = pc["main"]
  <2>1. ASSUME UNCHANGED pc \/ \E from, to : Move("read", from, to)
        PROVE  pc'["main"] = pc["main"]
    <3>1. CASE \E from, to : Move("read", from, to)
      <4>1. PICK to : pc' = [pc EXCEPT !["read"] = to]
        BY <3>1 DEF Move
      <4> QED
        BY <4>1, RaceMove DEF Thread
    <3> QED
      BY <2>1, <3>1
  <2>2. CASE Receive
    <3>1. CASE Rejected \/ ListStart
      BY <2>1, <3>1 DEF Rejected, ListStart, Finish
    <3>2. CASE \E id \in EntityIds : SetConfig(id)
      BY <2>1, <3>2 DEF SetConfig, AnswerAtOnce
    <3>3. CASE \E id \in EntityIds, s \in {OFF, ON} : SetState(id, s)
      BY <2>1, <3>3 DEF SetState, AnswerAtOnce, Call
    <3>4. CASE \E id \in EntityIds, ke \in KeyExprs : SetKeyexpr(id, ke)
      BY <2>1, <3>4 DEF SetKeyexpr, AnswerAtOnce, Call
    <3> QED
      BY <2>2, <3>1, <3>2, <3>3, <3>4 DEF Receive
  <2>3. CASE SetStateDone \/ RenameDone
    BY <2>1, <2>3 DEF SetStateDone, RenameDone, Finish
  <2>4. CASE RenameGrow \/ RenameStore \/ RenameTear \/ RenameCopied
    BY <2>1, <2>4 DEF RenameGrow, RenameStore, RenameTear, RenameCopied, Call, Undefined
  <2>5. CASE ListOne \/ ListDone
    BY <2>1, <2>5 DEF ListOne, ListDone, Undefined
  <2> QED
    BY <2>2, <2>3, <2>4, <2>5
<1>7. UNCHANGED dangling
  BY <1>1, <1>3
  DEF Receive, Rejected, Finish, SetState, SetKeyexpr, SetConfig, AnswerAtOnce, RenameRest,
      ListStart, ListRest, SetStateDone, RenameGrow, RenameStore, RenameTear,
      RenameCopied, RenameDone, ListOne, ListDone, Undefined, shared
<1>8. slots'[Publisher] = slots[Publisher]
  <2>1. CASE UNCHANGED slots
    BY <2>1
  <2>2. CASE RenameGrow \/ RenameStore \/ RenameTear \/ RenameCopied
    <3>1. UNCHANGED slots \/ \E new : slots' = [slots EXCEPT ![cmd.e] = new]
      BY <2>2 DEF RenameGrow, RenameStore, RenameTear, RenameCopied, SetSlot, Undefined, shared
    <3> QED
      BY <1>2, <1>3, <2>2, <3>1, PublisherSlot
  <2> QED
    BY <2>1, <2>2
    DEF Receive, Rejected, Finish, SetState, SetKeyexpr, SetConfig, AnswerAtOnce, ListStart,
        ListRest, SetStateDone, RenameDone, ListOne, ListDone, Undefined, shared
<1>9. PublisherNamed' => PublisherNamed
  BY <1>4, <1>6 DEF PublisherNamed
<1> QED
  BY <1>4, <1>5, <1>7, <1>8, <1>9, KeepsPut

LEMMA StepPut ==
  ASSUME RaceInv, PutInv, ~RenamesPublisher, [Next]_vars
  PROVE  PutInv'
<1>1. CASE MainThread
  BY <1>1, SetUpPut, PublishPut, UpdatePut DEF MainThread, Thread
<1>2. CASE Receive \/ Execute
  BY <1>2, CommandPut, UpdatePut DEF Execute, Thread
<1>3. CASE UNCHANGED vars
  BY <1>3 DEF vars, PutInv, PublisherNamed
<1> QED
  BY <1>1, <1>2, <1>3 DEF Next

\* main_rx.c's loop reads its entity's string without a copy.  What threads_put
\* shows takes a rename of the publisher: in a behaviour without one, whatever
\* other commands arrive and however early, every sample is put on a whole
\* key expression, through a pointer that is still good.
THEOREM OnlyItsOwnRenameTears ==
  Spec /\ []~RenamesPublisher => []PutOnGivenKeyexpr
<1>1. Init => RaceInv /\ PutInv
  BY InitRace DEF Init, PutInv, PublisherNamed
<1>2. RaceInv /\ PutInv /\ ~RenamesPublisher /\ [Next]_vars => RaceInv' /\ PutInv'
  BY StepRace, StepPut
<1>3. PutInv => PutOnGivenKeyexpr
  BY DEF PutInv, PutOnGivenKeyexpr
<1> QED
  BY <1>1, <1>2, <1>3, PTL DEF Spec
=============================================================================
