--------------------------- MODULE ZdcRemoteCall ---------------------------
(***************************************************************************)
(* What the two LCSF bridges promise the programs above them: a command    *)
(* arrives as it was given to zdcSendCommand or not at all, and so does    *)
(* the answer, whatever was sent and received before.                      *)
(***************************************************************************)
CONSTANTS
  Peers,     (* The nodes B that listen on the key expression of a query.     *)
  Requests,  (* What node A can ask.                                          *)
  Answers,   (* What a node B can answer.                                     *)
  NoCall     (* Nothing was asked, answered or executed.                      *)

VARIABLES
  asked,     (* The command of node A's current run.                          *)
  answered,  (* What each node B gave zdcSendCommand last.                    *)
  executed,  (* The command each node B executed last.                        *)
  shown,     (* The answer node A executed last.                              *)
  toExecute, (* The nodes B the query has not reached yet.                    *)
  toShow     (* The nodes B whose answer has not reached node A yet.          *)

callVars == <<asked, answered, executed, shown, toExecute, toShow>>

Init ==
  /\ asked = NoCall /\ shown = NoCall
  /\ answered = [b \in Peers |-> NoCall]
  /\ executed = [b \in Peers |-> NoCall]
  /\ toExecute = {} /\ toShow = {}

\* A run of node A; a command it cannot encode reaches nobody.
Ask ==
  /\ toExecute = {}
  /\ asked' \in Requests
  /\ toExecute' \in {{}, Peers}
  /\ shown' = NoCall /\ toShow' = {}
  /\ UNCHANGED <<answered, executed>>

\* The answer may be too long to leave the node.
Execute(b) ==
  /\ b \in toExecute
  /\ executed' = [executed EXCEPT ![b] = asked]
  /\ toExecute' = toExecute \ {b}
  /\ \E a \in Answers \cup {NoCall} :
       /\ answered' = [answered EXCEPT ![b] = a]
       /\ \/ toShow' = toShow \ {b}
          \/ a # NoCall /\ toShow' = toShow \cup {b}
  /\ UNCHANGED <<asked, shown>>

Show(b) ==
  /\ b \in toShow
  /\ shown' = answered[b]
  /\ toShow' = toShow \ {b}
  /\ UNCHANGED <<asked, answered, executed, toExecute>>

Lose(b) ==
  /\ \/ toExecute' = toExecute \ {b} /\ UNCHANGED toShow
     \/ toShow' = toShow \ {b} /\ UNCHANGED toExecute
  /\ UNCHANGED <<asked, answered, executed, shown>>

Next == Ask \/ \E b \in Peers : Execute(b) \/ Show(b) \/ Lose(b)

Spec == Init /\ [][Next]_callVars
=============================================================================
