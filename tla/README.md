# Verification of the zdc proof of concept

zdc lets one zenoh node (A, a command line tool) reconfigure another (B, a
zenoh-pico application) at run time: switch its publishers, subscribers and
queryables on and off, change their key expressions, list them. Commands are
zenoh queries, encoded with LCSF. This directory holds TLA+ modules of both
nodes, TLC runs over small instances of them, and proofs checked by TLAPS.

## 1. Inventory

| Component | Source | State it keeps | Operations |
|---|---|---|---|
| Entity table and command execution (B) | `zdc_Main_b.c/.h` | `zdcInfo`: `entity_list` (type, state, key expression and its size, zenoh handle), `el_idx`, `el_size`, send buffer, `curr_msg_size` | `zdc_MainInit`, `zdc_add_pub_entity`, `zdc_add_sub_entity`, `zdc_close`, `zdc_cmd_handler`, the four commands, `zdc_update_entity_state`, the two getters |
| LCSF bridge (B) | `LCSF_Bridge_zdc_b.c/.h` | a static command payload (a union), a Filo of attributes | `LCSF_Bridge_zdcReceive`, `LCSF_Bridge_zdcEncode` |
| Application (B) | `main_rx.c` | locals of `main` | set-up, then an endless publisher loop |
| Protocol descriptor | `LCSF_Desc_zdc.c` | constants | - |
| Command encoding and replies (A) | `zdc_Main_a.c/.h` | send buffer, `curr_size` | `zdc_encode_*`, `zdc_MainExecute` |
| LCSF bridge (A) | `LCSF_Bridge_zdc_a.c/.h` | as in B | as in B |
| Application (A) | `main_tx.c` | command line arguments | one query per run, a one second wait, `reply_handler` |
| LCSF, zenoh-pico | git submodules, not in the repository | external | external |

**How they interact.** A run of the tool turns its arguments into one query.
Zenoh-pico's *read task* of node B calls `zdc_cmd_handler`, which has LCSF
decode the payload; the bridge copies the attributes into its static payload
and calls `zdc_MainExecute`; the command changes the table, calls
`z_declare_*`/`z_undeclare_*` and encodes a status (or the list) into the send
buffer, which the handler sends as the reply. Node B's *main thread* sets up
the table and then publishes from it. The two threads share `zdcInfo` without
a lock. The read task is started first: commands can arrive as soon as slot 0,
the queryable for commands, is declared.

**What is hard here.**
- Two threads, no lock: set-up against early commands, the publisher's
  check-then-put and its borrowed string pointer against renames.
- Declarations live in zenoh, the table holds their only handle, and the
  results of declaring, also of the restart in a rename, are ignored. A reply
  zenoh refuses is dropped after its command was carried out.
- Static state that survives a command: the payload of the bridge, the send
  buffer, string sizes that never shrink.
- Integer widths: `int` to `uint_fast8_t`, one-byte attributes copied into a
  `uint16_t`, `uint8_t` states in an `int8_t`.
- Lost and late queries and replies; the tool waits one second and exits.

**What makes each component correct.**
- Table: an added entity is declared exactly while it is on, on its current key
  expression; no declaration loses its handle; the command queryable stays up;
  close leaves nothing declared.
- Commands: an acknowledged command was carried out and stays so, an unanswered
  one did what it asked or nothing, a rejected one is never answered with what an
  earlier one left in the send buffer; the list outgrows its buffer only with long
  key expressions.
- Bridges: the command that was encoded is the command that is executed, and so
  for the answer, whatever either node's static memory holds from before.
- The list: node A's walk over the bytes shows node B's table and stays inside.
- Application B: the publisher follows the state of its entity with a delay of
  at most one sample, on a key expression it was given.
- Application A: a printed status is true for what the user asked.

`PROJECT.json` lists every hazard at its line with the properties that watch it.

## 2. Modules

| Module | What it is |
|---|---|
| `ZdcProtocol` | states, types, integer widths and the copy of an integer attribute |
| `ZdcEntity` | one slot: `zdc_update_entity_state` and the rename as operators on a slot, and what they leave undeclared, orphaned or undefined |
| `ZdcNode` | node B, one action per operation, each atomic |
| `ZdcNodeProofs` | theorems about `ZdcNode` |
| `ZdcThreads` | node B, one action per access to shared memory, two threads; implements `ZdcNode` |
| `ZdcController` | node A: from arguments to the query |
| `ZdcSystem` | runs of node A, a network that loses and delays, and `ZdcNode` |
| `ZdcRemoteCall` | what the two bridges promise: a command or an answer arrives as it was given, or not at all |
| `ZdcBridge` | the bridges of both nodes, with their static memory; implements `ZdcRemoteCall` |
| `ZdcListing` | the serialised entity list, byte by byte: node B's writer, node A's reader |
| `ZdcEntityProofs` | lemmas about the sum a list's entries take, `ListIdx` of `ZdcEntity` |
| `ZdcNodeStepProofs`, `ZdcThreadsProofs`, `ZdcSystemProofs`, `ZdcBridgeProofs`, `ZdcListingProofs` | theorems about the module named, `ZdcNodeStepProofs` about the single steps of `ZdcNode` |
| `ZdcThreadsStepProofs` | theorems about `ZdcThreads` as an implementation of `ZdcNode` |
| `MCZdcNode`, `MCZdcThreads`, `MCZdcSystem`, `MCZdcBridge`, `MCZdcListing` | constants for TLC |

An operator whose comment says *faulty variant* models no code. It is a
plausible bug of the definition below it; for every property there is one that
TLC must catch when it replaces that definition.

### ZdcNode
`entity_list`, `el_idx`, `curr_msg` (the message while `curr_msg_size` is not 0)
and `rx_id` (`entity_id` of the static payload) are the code's. `data` in a slot
is the zenoh handle, written as the key expression it was declared on, or
`NULL`; `orphans` are the declarations still alive in the session whose handle
was overwritten. `phase` is before `zdc_MainInit`, after it, after `zdc_close`.
Memory is what `malloc` left: `Init` lets every slot be zeros or arbitrary
bytes, with `Wild` for a pointer or handle nobody wrote. Following one is
undefined behaviour; the model then sets `fault` and stops, and so does a list
that outgrows the `64 * el_size` bytes it is serialised into (`fault = "overrun"`).
`reply` is what the last query was answered. `DeclareResults` and `ReplyResults`
say whether zenoh may refuse a declaration or a reply.

A command is one action from the query to the reply: `GetData`, the checks in
the order of the code, the change, the status (`Finish`, which empties the send
buffer whether or not zenoh took the reply). `zdc_add_*_entity` is
`AddEntity`; the application adds exactly as many entities as it announced.
Queries may come between any two operations, also between two adds.

Strings are model values with a length. The list entry keeps the bytes the code
writes (type, state, `ke_size % 256`).

### ZdcThreads
The same functions one statement at a time. `pc` says where each thread is;
`upd` holds the locals of the `zdc_update_entity_state` a thread runs,
`cmd` and `list` those of a rename and a list. Its labels are `check`, `mark` (the
store of INVALID), `switch` (the call into zenoh) and `store`. `Torn` is a
string being copied. A realloc may move the string: until its result is stored
(label `moved`, action `RenameStore`) the slot holds a freed pointer, and `dangling`
says that the publisher has such a pointer. A slot's plain fields are written in
program order. Zenoh may refuse declarations and replies as in `ZdcNode`.

*Refinement.* `rest` is the table as the last completed operation left it;
`ImplementsNode` maps `ZdcNode`'s table to `rest` and its phase to `el_idx`.
So every completed operation must have done to the table, and answered, exactly
what the atomic one does; the list, read slot by slot, must be the table of one
moment. A command that meets undefined behaviour is not answered.

*Fairness.* Weak fairness of the main thread and of a command that is being
executed: both are threads the operating system schedules, neither waits for a
lock. No fairness for `Receive`: nobody has to send queries. `ZdcNode` and
`ZdcSystem` state no liveness and assume no fairness.

### ZdcController and ZdcSystem
`QueryOf(args)` is `main_tx.c` up to `z_get`, with the conversions: `-i` through
`uint_fast8_t`, a missing `-i` (-1) to 255, any value but "on" to off, a key
expression too long for the send buffer to no query. In `ZdcSystem` each member
of `Runs` is a run that may be under way. A run that ended keeps its place until
its query is no longer in flight; until then that query may still be executed,
also between those of other runs. `HandleQuery` is the action of `ZdcNode`. The
history `done` says what the query of a run under way did to the table, read off
it before and after: `asAsked`, exactly the change the user asked for (`CarriesOut`:
state, key expression and declaration of the entity named, no other slot), and
`touched`, whether any added slot changed.

### ZdcBridge and ZdcRemoteCall
`zdcSendCommand` of either node stores the command in `send`, a union in static
memory, lets the bridge fill an attribute array from it (allocated from `filo`)
and hands that to LCSF; on the other side the bridge copies the attributes into
its own static union, `recv`, from which `zdc_MainExecute` reads the command.
The union is modelled by offset, for a 64-bit machine: single bytes, one 32-bit
size and one pointer. So a field really overlaps the others, `entity_id` of one
command with `entity_listSize` of another, and a one-byte attribute overwrites
one byte. Both translations of command names, both switches of `GetCmdData` and
of `FillCmdAtt`, and the descriptor (`AttDesc`) are in the module; LCSF is the
check of the array against the descriptor and of the length against the buffer.

A run of node A is a new process (`Run` starts with zeroed memory); a node B
lives on. `Peers` may be several: a query goes to all of them, and their
replies are decoded into one payload of the run. Messages may be lost.
`asked`, `answered`, `executed` and `shown` record what the programs above the
bridges gave and got; in `ZdcRemoteCall` they are the state, and an answer or a
command is whatever was given. The config command, which node A's program does not
send yet, is included: both bridges have it.

### ZdcListing
`WriteEntry` is a turn of node B's loop, `ShowEntry` a turn of node A's. A byte is
a number, the j-th character of a key expression, or `Stale`: what an earlier
string or malloc left. A slot whose `ke_size` exceeds its string sends such
bytes; `%.*s` stops at the NUL before them. `ke_size % 256` is the length byte.
`phase` names the fault when a buffer is overrun or a name looked up that does
not exist; `off`, where each entry starts, is read by the proofs only.

## 3. What the runs check

Runs that pass:

| Run | Instance | Shows |
|---|---|---|
| `node_onoff` | 2 entities, 2 key expressions, ids 0-3 and 255, states off/on, zenoh accepts | In whatever order whole commands and steps of the set-up come: slots and declarations agree (`EntitiesConsistent`, `NoOrphans`), the node stays reachable (`ControlStaysUp`), close is complete (`CloseReleasesEverything`), acknowledged means done (`AckMeansDone`), a rename leaves state and declaration as they were (`RenameKeepsState`), an existing id is answered (`ValidIdIsAnswered`). Memory never written is followed only by commands that overtake the set-up (`OnlyEarlyCommandsFault`). |
| `node_any_state` | 1 entity, states 0, 1, 2, 3, 200, zenoh may refuse declarations and replies, key expressions of 13 and 100 characters | Fields keep their widths (`TypeOK`), a stored string fits its slot (`StringsFit`), a rename loses no declaration (`RenameNeverOrphans`), a query that is not executed gets no left-over, not even of a refused reply (`RejectedGetsNoReply`). The list overruns its buffer here, and only while a slot is larger than its share (`OnlyLongKeyexprsOverrun`). |
| `threads_settled` | `main_rx.c`'s two entities, ids 1-3, key expressions of 13 and 100 characters, commands after set-up, zenoh may refuse declarations and replies | `ImplementsNode`; what was acknowledged stays true (`AcknowledgedStateHolds`); what is not on receives nothing, whatever was refused (`OffMeansUndeclared`); at most one sample leaves after OFF was acknowledged (`AtMostOneLatePut`); no statement is undefined but the publisher's use of its pointer and a list with a long key expression (`OnlyKnownFaults`); a publisher left on publishes for ever (`PublishesWhileOn`). |
| `threads_setup` | commands race the set-up over clean or dirty memory, ids 0 and 2, zenoh accepts | However the two interleave, the node still listens between commands (`ControlSurvivesSetUp`). |
| `system_runs` | two concurrent runs, 1 entity, ids -1, 0, 1, zenoh may refuse replies | `StatusIsTrue`: what is printed is true of the table. `NothingElseIsDone`: a run whose answer was refused, lost or is late had what it asked for done, or no added slot changed. `IdArrivesIntact`, `RetryIsHarmless`. Queries and replies are lost and late. |
| `bridge_calls` | two nodes B, every command and answer, ids 1 and 255, byte arrays that fit and that do not, lost messages | `ImplementsRemoteCall`: nothing of an earlier command shows in a later one. `OnlyLongMessagesAreRefused`: the Filo is never exhausted and every array agrees with the descriptor. |
| `listing` | five slots, each one of five: fresh, shrunk string, at its share of the buffer, above a byte | `ListShowsTable`, `ReaderStaysInList`, and node B stays in its buffer while strings are modest (`ModestStringsFit`). |

Runs where the code breaks what it says of itself (details in `PROJECT.json`,
`findings`):

| Run | Shows |
|---|---|
| `node_wide_ids` | A one-byte id is copied over half of the static `uint16_t`: after a command with id 258, the command for entity 1 addresses 257 and is dropped. `IdArrivesIntact` shows that node A, whose ids are one byte, does not run into it. |
| `node_init_refused` | `zdc_MainInit` returns true although the queryable was refused. |
| `threads_reset` | A state acknowledged during set-up is overwritten by the rest of the set-up. |
| `threads_put` | The publisher puts with a pointer a rename has freed, or a string half copied. |
| `system_wrapped_id` | `-i 257` changes entity 1 and prints Ok. |

`node_onoff` takes each command and each add as one step. That is justified by
`ImplementsNode` once no query comes before the last add (`Settled`, below). With
earlier queries its properties speak of the order of whole operations only:
statement by statement, an ON that is carried out between the writes of an add can
be overwritten by the OFF of the set-up, which leaves a slot off and declared; that
race is the subject of `threads_reset`.

Two faults the code itself leaves open show in passing runs rather than in a run
of their own. When zenoh refuses the restart in a rename, the state says on, the
answer says Ok and the declaration, of entity 0 the command queryable, is gone:
hence "zenoh accepts" in `node_onoff` and `threads_setup`. And the buffer of the
list, marked `FIXME: Unsafe memory utilization`, is overrun after two renames to
100 characters: hence `fault = "overrun"` in `node_any_state` and `threads_settled`.

**Bounds, and why they are enough.** Two entities are what `main_rx.c` adds: one
publisher (no declaration) and one subscriber (a declaration), next to the
queryable. Slots do not interact except through the list, so `node_any_state`
and `system_runs` make do with one. Two key expressions show every change; 13
characters is the length of the default ones; 100 is one node A's 128-byte buffer
can send, and with 104 bytes of the list takes more than a slot's share of 64:
one such entry still fits the list's buffer, two do not. The ids
cover the protected entity, the added ones, one past the end and the largest
byte; {1, 258} is the smallest set where the second byte matters. State values
are the three the enum names, one above it, and one above 127. `StatusSize` 6
and the overheads of 10 stand for LCSF's encoding, which is external; the runs
depend on them only in which lists fit. `late` counts to 2, enough to violate.
In `bridge_calls` the two nodes B are interchangeable (symmetry), 1 and 255 are
the ends of the one-byte ids, and a second command through the same memory is
enough to meet the left-overs of every other. Five slots are the fewest for
which a `ke_size` of 257 fits the buffer of 64 bytes per slot; the list is then
too long to be sent, which is what `ListShowsTable` needs.
`threads_settled` sends no command to entity 0 (its rename is in
`threads_setup`), and `system_runs` uses symmetry of the runs and zeroed memory.
Deadlock is not checked: after an undefined step or `zdc_close` nothing is left
to do.

## 4. What is proved

For every value of the constants within their assumptions: any number of
entities up to 254, any key expressions and lengths, ids and states within their
widths, whatever malloc returned, any number of runs and of nodes B. The
assumptions are `ASSUME`s of the modules, which TLC evaluates in the runs
(`KeyExprAssumption`, `NodeAssumption`, `MessageAssumption`, `SystemAssumption`,
`ThreadsAssumption`, `BridgeAssumption`, `ListingAssumption`); a theorem that needs
more names it:

| Hypothesis | Means | Why |
|---|---|---|
| `OnOffOnly` | commands carry state 0 or 1 | what `zdc_encode_state` is given; with on, 3, on a handle is lost |
| "accepts" | zenoh refuses no declaration (`FALSE \notin DeclareResults`) | the code ignores the result, of the first declaration (`node_init_refused`) as of a restart |
| "takes replies" | zenoh refuses no reply (`FALSE \notin ReplyResults`) | the code drops a refused reply |
| `OneByteIds` | ids below 256 | what node A sends; `node_wide_ids` is the counterexample |
| `ByteTargets` | `-i` absent or in 0-255 | `system_wrapped_id` is the counterexample |
| `Settled` | no query before the last add | `threads_reset` is the counterexample |
| `SmallBuffer` | a send buffer of at most 255 bytes | `main_rx.c` gives 128; a longer list could hold a string whose length byte lies |

`ZdcNodeProofs`, about `ZdcNode`:

| Theorem | Property | Assumes |
|---|---|---|
| `TypeCorrect` | `TypeOK` | - |
| `Invariance` | `IInv` | `OnOffOnly` |
| `DeclarationsKeepTheirHandle` | `NoOrphans` | `OnOffOnly` |
| `OffIsOff` | `OffMeansUndeclared` | `OnOffOnly` |
| `OnlyEarlyCommandsAreUndefined` | `OnlyEarlyCommandsFault` | `OnOffOnly` |
| `CloseIsComplete` | `CloseReleasesEverything` | `OnOffOnly` |
| `StateAndDeclarationAgree` | `EntitiesConsistent` | `OnOffOnly`, accepts |
| `ControlSurvives` | `ControlStaysUp` | `OnOffOnly`, accepts |
| `InitIsHonest` | `InitSuccessMeansListening` | `OnOffOnly`, accepts |

`ZdcNodeStepProofs`, about single steps of `ZdcNode`:

| Theorem | Property | Assumes |
|---|---|---|
| `NodeInvariance` | `NInv` | - |
| `StringsAlwaysFit` | `StringsFit` | - |
| `RejectedIsSilent` | `RejectedGetsNoReply` | - |
| `RenamesOrphanNothing` | `RenameNeverOrphans` | - |
| `RenamesKeepTheState` | `RenameKeepsState` | `OneByteIds`, `OnOffOnly`, accepts |
| `ValidIdsAreAnswered` | `ValidIdIsAnswered` | `OneByteIds`, takes replies |
| `AcknowledgedIsDone` | `AckMeansDone` | `OneByteIds`, `OnOffOnly`, accepts |
| `OverrunNeedsLongKeys` | `OnlyLongKeyexprsOverrun` | - |

The other modules:

| Module | Theorem | Property | Assumes |
|---|---|---|---|
| `ZdcSystemProofs` | `SystemInvariance` | `SInv` | - |
| | `SystemImplementsNode` | `ZdcNode`'s `Spec` | - |
| | `PrintedStatusIsTrue` | `StatusIsTrue` | `ByteTargets`, accepts |
| | `RunsDoNothingElse` | `NothingElseIsDone` | `ByteTargets`, accepts |
| | `EncodedIdArrives` | `IdArrivesIntact` | - |
| | `RetriesAreHarmless` | `RetryIsHarmless` | - |
| `ZdcThreadsProofs` | `ThreadsInvariance` | `TInv` | `Settled` |
| | `ThreadsTypeCorrect` | `TypeOK` | `Settled` |
| | `AcknowledgementsHold` | `AcknowledgedStateHolds` | `Settled` |
| | `OneLatePut` | `AtMostOneLatePut` | `Settled` |
| | `ControlSurvivesRaces` | `ControlSurvivesSetUp` | accepts |
| | `OnlyItsOwnRenameTears` | `PutOnGivenKeyexpr` | the behaviour never renames the publisher |
| `ZdcThreadsStepProofs` | `ThreadsImplementNode` | `ImplementsNode` | `Settled` |
| | `OffIsOffBetweenCommands` | `OffMeansUndeclared` | `Settled` |
| | `NodeStaysDefined` | `OnlyKnownFaults` | `Settled` |
| `ZdcBridgeProofs` | `BridgeInvariance` | `BridgeInv` | `OneByteIds` |
| | `CallsArriveIntact` | `ImplementsRemoteCall` | `OneByteIds` |
| | `OnlyLengthIsRefused` | `OnlyLongMessagesAreRefused` | - |
| `ZdcListingProofs` | `ListArrivesIntact` | `ListShowsTable` | `SmallBuffer` |
| | `WalkStaysInList` | `ReaderStaysInList` | `SmallBuffer` |
| | `ModestStringsStayInBuffer` | `ModestStringsFit` | - |

`InitIsHonest` and `OnlyItsOwnRenameTears` state the properties that
`node_init_refused` and `threads_put` refute: what those runs show is the only
way there.

*The arguments.* None of these properties is inductive as it stands.

- `IInv` (table). The properties speak of added slots, and a slot becomes added
  with the handle it already had. `IInv` adds what is known before that: an added
  slot is off and undeclared, or on and, if declared, on its own key expression;
  a slot not yet added was never given a declaration, since everything that would
  declare one follows its unwritten pointer and ends the run; and once the node is
  up slot 0 is a queryable that is on. The second early return of
  `zdc_update_entity_state` (INVALID to OFF) is what keeps the arbitrary handle of
  a fresh slot away from `z_undeclare_*`.
- `NInv` (steps). Between queries the send buffer holds no message, so that a
  reply is what this query encoded; the high byte of the static id is 0 while ids
  take one byte; strings fit their slots; and until `zdc_close` a slot with a
  string has a type the switches know.
- `SInv` (system). `IInv`, `NInv`, and for every run what its query and its reply
  say: a query in flight encodes what was asked; an answer Ok only travels once
  `done` says the table was changed as asked, an answer Err when no added slot was
  touched; and where nothing was answered, one of the two is the case.
- `TInv` (threads). It follows `pc`: a slot the set-up has passed has a type and a
  string, at most one is in pieces, and only between the two halves of a rename; a
  rename with `restart` that stopped its entity is on its way to turn it on again,
  and what was acknowledged for any other entity is the state of its slot; the
  publisher that has passed its check after OFF was acknowledged has put nothing
  since; and a string realloc has moved leaves the publisher's pointer `dangling`. A read task's step is either a write to one slot or leaves the table
  alone, and each of the two has one lemma.
- `RInv` (refinement). `rest`, the table of the abstract node, lags behind
  `slots` in the slot an operation works on; `RInv` says how far each operation
  has come. `Updating` gives the slot at every label of `zdc_update_entity_state`,
  `SettingUp` at every write of an add, and likewise for a rename; the entries of
  a list in progress are those of `rest`. A label inside an operation is then a
  stutter, its last one the atomic action, since both are composed of the same
  operators of `ZdcEntity`.
- `ListIdx`, the sum of the list's entries, is a recursive function, which TLA+
  defines as a `CHOOSE`; `ZdcEntityProofs` proves that a function with its
  equations exists, and from them its bounds, by the least counterexample, with
  no induction theorem that takes an operator. With them a list whose slots all
  hold at most 61 bytes fits. `BufferInv` and, for the threads, `RoomInv` keep that
  true past the step that overruns: the slot that holds more is still in the table.
  `NodeStaysDefined` follows once `RInv` has excluded the other faults.
- `RaceInv` (queries during set-up, zenoh accepts). It speaks of slot 0 only. No query arrives
  before `z_declare_queryable` has stored its handle; until that update is over
  the state is still INVALID, so a rename that overtakes it does not take the slot
  for a running one and leaves the declaration alone; afterwards only a rename
  with `restart` undeclares it, and `RaceInv` follows it until it has declared it
  again. The other slots may hold anything.
- `PutInv` (samples). The publisher's string is whole once the set-up has copied
  it, and only a rename of its slot writes or moves it.
- `BridgeInv`. A message on the way carries the command that was asked or
  answered last, byte for byte, and the high bytes no one-byte attribute
  overwrites are 0 in every `recv`. The refinement is proved step by step from it.
- `ListInv`. Every entry before `i` lies at `off[e]` in the buffer, unchanged; a
  list that was sent is too short for a length byte that lies; so node A's
  `curr_idx` is `off[i]`.

Every inductive invariant was model-checked before it was proved.

**Only model-checked.** `PublishesWhileOn`: liveness under fairness, which the
prover does not reach.

## 5. What is not modelled

- LCSF and zenoh-pico, except for what the code relies on.
- What node A prints when a list holds a type or state its names do not cover:
  only states outside the protocol, acknowledged by node B when a command carries
  them, lead there, and node A sends none.
- Failures of malloc and realloc; a node with more entities than it announced to
  `zdc_MainInit`.
- What a query did that is executed after its run ended: nobody asks any more, and
  `done` says nothing of it (its effect on later runs is in the model).
- The config command beyond its checks: a TODO in both nodes. Memory leaked by
  each list. The text of samples. A run of the tool without `-k`.
- `query` and plain `queryable` entities: no function adds them; the type switch
  covers them.
- The stop sequence after the endless loop of `main_rx.c`; `zdc_close` is
  modelled for a caller that reaches it.

## 6. Plan

Order chosen so that the table, which everything else reads, came first.

1. Done: `ZdcProtocol`, `ZdcEntity`, `ZdcNode`, `ZdcThreads`, `ZdcController`,
   `ZdcSystem`, `ZdcRemoteCall`, `ZdcBridge`, `ZdcListing`, and the proofs of
   section 4.
2. Left: `ZdcService`, what a user may rely on (per entity: wanted state and key
   expression), implemented by `ZdcSystem` under the hypotheses of section 4; and
   `ZdcThreads` below `ZdcSystem`, so that what a run prints is proved of the
   threads, not only of the atomic node.
