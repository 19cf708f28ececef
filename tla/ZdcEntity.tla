----------------------------- MODULE ZdcEntity -----------------------------
(***************************************************************************)
(* One slot of node B's entity_list (zdc_entity_t) and what                *)
(* zdc_update_entity_state does to it.  The declarations themselves live   *)
(* in the zenoh-pico session; the slot keeps the handle of one of them in  *)
(* body.sub.data / body.queryable.data.                                    *)
(***************************************************************************)
EXTENDS ZdcProtocol

CONSTANTS
  KeyExprs,   (* The key expressions a node or a command can name.          *)
  KeLen,      (* strlen of each key expression.                             *)
  NULL,       (* A null pointer, and a zenoh handle that owns nothing.      *)
  Wild,       (* A pointer or handle read from memory never written.        *)
  Freed       (* A pointer to memory already given back.                    *)

ASSUME KeyExprAssumption ==
  /\ KeLen \in [KeyExprs -> Nat]
  /\ NULL \notin KeyExprs /\ Wild \notin KeyExprs /\ Freed \notin KeyExprs
  /\ NULL # Wild /\ NULL # Freed /\ Wild # Freed

Entities ==
  [type      : Types \cup {BadType},
   state     : Int8Values,
   ke_suffix : KeyExprs \cup {NULL, Wild, Freed},
   ke_size   : Nat,
   data      : KeyExprs \cup {NULL, Wild}]

\* Bytes needed to store a key expression with its terminator.
NewSize(ke) == KeLen[ke] + 1

\* What malloc leaves in a slot: a page of zeros, or bytes of an earlier use
\* (pointers lead nowhere, type and state are whatever was there; a ke_size
\* of 1 stands for every length that makes the node follow the pointer).
ZeroSlot == [type |-> "PUB", state |-> OFF, ke_suffix |-> NULL, ke_size |-> 0,
             data |-> NULL]
WildSlots ==
  {[type |-> t, state |-> s, ke_suffix |-> Wild, ke_size |-> 1, data |-> Wild] :
     t \in Types \cup {BadType}, s \in {OFF, ON, INVALID}}
MallocedSlots == {ZeroSlot} \cup WildSlots

-----------------------------------------------------------------------------
\* The handle names a live declaration.
IsDeclared(ent) == ent.data \in KeyExprs

\* Faulty variants: the first early return is missing; the second one is
\* missing; the second one does not ask for INVALID.
MustSwitchEvenIfThere(ent, s)   == ~(ent.state = INVALID /\ s = OFF)
MustSwitchEvenIfUnborn(ent, s)  == ent.state # s
MustSwitchUnlessOff(ent, s)     == ent.state # s /\ s # OFF

\* The switch on the entity type is reached: neither of the two early
\* returns of zdc_update_entity_state applies.  The second one is what keeps
\* a freshly added, never declared slot away from z_undeclare_*.
MustSwitch(ent, s) ==
  /\ ent.state # s
  /\ ~(ent.state = INVALID /\ s = OFF)

\* The return value: false only from the default case of either switch.
UpdateReturns(ent, s) ==
  ~(MustSwitch(ent, s) /\ s \in {ON, OFF} /\ ent.type \notin Types)

\* Faulty variant: turning off forgets to undeclare.
SwitchOnOnly(ent, s, declared) ==
  IF ent.type \in Declarable /\ s = ON
  THEN [ent EXCEPT !.data = IF declared THEN ent.ke_suffix ELSE NULL] ELSE ent

\* z_declare_* writes a fresh handle, null when it failed; z_undeclare_*
\* moves the handle out.  Neither result is looked at.
Switch(ent, s, declared) ==
  IF ent.type \in Declarable /\ s \in {ON, OFF}
  THEN [ent EXCEPT !.data = IF s = ON /\ declared THEN ent.ke_suffix ELSE NULL]
  ELSE ent

\* zdc_update_entity_state on slot ent, requested state s; declared says
\* whether zenoh accepts a declaration made on the way.
UpdateEntityState(ent, s, declared) ==
  CASE ~MustSwitch(ent, s)    -> [ent EXCEPT !.state = Int8(s)]
    [] ~UpdateReturns(ent, s) -> [ent EXCEPT !.state = INVALID]
    [] OTHER                  -> [Switch(ent, s, declared) EXCEPT !.state = Int8(s)]

\* Declarations that stay live while their only handle is overwritten.
UpdateOrphans(ent, s) ==
  IF MustSwitch(ent, s) /\ s = ON /\ ent.type \in Declarable /\ IsDeclared(ent)
  THEN {ent.data} ELSE {}

\* The switch hands zenoh a pointer or a handle that was never written.
SwitchIsUndefined(ent, s) ==
  /\ ent.type \in Declarable
  /\ \/ s = ON  /\ ent.ke_suffix \notin KeyExprs
     \/ s = OFF /\ ent.data = Wild

UpdateIsUndefined(ent, s) == MustSwitch(ent, s) /\ SwitchIsUndefined(ent, s)

-----------------------------------------------------------------------------
\* Faulty variant: ke_size does not follow the reallocation.
StoreUncounted(ent, ke) == [ent EXCEPT !.ke_suffix = ke]

\* The key expression is copied in place when it fits; the slot is grown,
\* and never shrunk, when it does not.
StoreKeyexpr(ent, ke) ==
  [ent EXCEPT !.ke_suffix = ke,
              !.ke_size   = IF NewSize(ke) > @ THEN NewSize(ke) ELSE @]

\* Faulty variant: the key expression changes under a running entity.
RestartsNever(ent) == FALSE

\* zdcExecuteset_entity_keyexpr: stop a running entity, store, restart it.
Restarts(ent) == ent.state = ON

\* Faulty variant: declared again without having been stopped.
StoredRunning(ent, ke) ==
  [StoreKeyexpr(ent, ke) EXCEPT !.state = IF Restarts(ent) THEN OFF ELSE @]

StoredStopped(ent, ke) ==
  StoreKeyexpr(IF Restarts(ent) THEN UpdateEntityState(ent, OFF, TRUE) ELSE ent, ke)

\* Faulty variant: stopped and left off.
RenameWithoutRestart(ent, ke, declared) == StoredStopped(ent, ke)

RenameEntity(ent, ke, declared) ==
  IF Restarts(ent)
  THEN UpdateEntityState(StoredStopped(ent, ke), ON, declared)
  ELSE StoredStopped(ent, ke)

RenameOrphans(ent, ke) ==
  IF Restarts(ent) THEN UpdateOrphans(StoredStopped(ent, ke), ON) ELSE {}

\* realloc or strcpy through a wild pointer, or an undefined stop or restart.
RenameIsUndefined(ent, ke) ==
  \/ ent.ke_suffix = Wild
  \/ ent.ke_suffix = NULL /\ NewSize(ke) <= ent.ke_size
  \/ /\ Restarts(ent)
     /\ \/ UpdateIsUndefined(ent, OFF)
        \/ UpdateIsUndefined(StoredStopped(ent, ke), ON)

-----------------------------------------------------------------------------
\* tmp_idx of zdcExecutelist_entities_req, by the number of slots serialised:
\* a slot takes its type, state and length bytes and ke_size bytes of string.
ListIdx(entities, nb) ==
  LET idx[i \in 0 .. nb] ==
        IF i = 0 THEN 0 ELSE idx[i - 1] + 3 + entities[i - 1].ke_size
  IN  idx
=============================================================================
