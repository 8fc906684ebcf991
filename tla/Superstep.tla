----------------------------- MODULE Superstep ------------------------------
(***************************************************************************)
(* What internal/bspgraph promises, with no workers, channels, counters or *)
(* superstep parity: every vertex has an inbox, which its compute function *)
(* reads, and an outbox, which collects what is sent to it; the two change *)
(* places only between supersteps, when every vertex is done.              *)
(***************************************************************************)
EXTENDS MessageQueue

CONSTANTS
  VertexID,
  Message     \* a set of naturals, with 0 for a message from outside a step

VARIABLES
  phase,      \* "between" steps, in a "step", a step is "done", "closed"
  members,    \* vertices of the graph
  awake,      \* those that will compute even without messages
  inbox, outbox,
  waiting,    \* members the current step has not reached
  computing   \* members whose compute function is running

vars == <<phase, members, awake, inbox, outbox, waiting, computing>>
mail == <<inbox, outbox>>

NoMail == [v \in VertexID |-> EmptyQueue]

Init ==
  /\ phase = "between"
  /\ members = {} /\ awake = {} /\ waiting = {} /\ computing = {}
  /\ inbox = NoMail /\ outbox = NoMail

Swap == inbox' = outbox /\ outbox' = inbox

(* Outside a step.                                                         *)
Join(v) ==
  /\ phase = "between" /\ v \notin members
  /\ members' = members \cup {v} /\ awake' = awake \cup {v}
  /\ UNCHANGED <<phase, mail, waiting, computing>>

SendFromOutside(d) ==
  /\ phase \in {"between", "done"} /\ d \in members
  /\ outbox' = [outbox EXCEPT ![d] = Enqueue(@, 0)]
  /\ UNCHANGED <<phase, members, awake, inbox, waiting, computing>>

Restart ==    \* a fresh executor counts its supersteps from zero
  /\ phase = "between" /\ Swap
  /\ UNCHANGED <<phase, members, awake, waiting, computing>>

Clear ==
  /\ phase = "between" /\ phase' \in {"between", "closed"}
  /\ members' = {} /\ awake' = {} /\ inbox' = NoMail /\ outbox' = NoMail
  /\ UNCHANGED <<waiting, computing>>

(* A superstep.                                                            *)
Begin ==
  /\ phase = "between"
  /\ phase' = IF members = {} THEN "done" ELSE "step"
  /\ waiting' = members
  /\ UNCHANGED <<members, awake, mail, computing>>

Skip(v) ==
  /\ v \in waiting \ awake /\ ~PendingMessages(inbox[v])
  /\ waiting' = waiting \ {v}
  /\ UNCHANGED <<phase, members, awake, mail, computing>>

Start(v) ==
  /\ v \in waiting /\ (v \in awake \/ PendingMessages(inbox[v]))
  /\ waiting' = waiting \ {v} /\ computing' = computing \cup {v}
  /\ awake' = awake \cup {v}
  /\ UNCHANGED <<phase, members, mail>>

Read(v) ==
  /\ v \in computing /\ PendingMessages(inbox[v])
  /\ inbox' = [inbox EXCEPT ![v] = AfterNext(@)]
  /\ UNCHANGED <<phase, members, awake, outbox, waiting, computing>>

Sleep(v) ==
  /\ v \in computing /\ awake' = awake \ {v}
  /\ UNCHANGED <<phase, members, mail, waiting, computing>>

Send(d, m) ==
  /\ computing # {} /\ d \in members
  /\ outbox' = [outbox EXCEPT ![d] = Enqueue(@, m)]
  /\ UNCHANGED <<phase, members, awake, inbox, waiting, computing>>

Return(v) ==
  /\ v \in computing /\ computing' = computing \ {v}
  /\ inbox' \in {inbox, [inbox EXCEPT ![v] = DiscardMessages(@)]}
  /\ UNCHANGED <<phase, members, awake, outbox, waiting>>

End ==
  /\ phase = "step" /\ waiting = {} /\ computing = {}
  /\ phase' = "done"
  /\ UNCHANGED <<members, awake, mail, waiting, computing>>

Advance ==    \* to the next superstep, or out of the run
  /\ phase = "done" /\ phase' = "between"
  /\ Swap \/ UNCHANGED mail
  /\ UNCHANGED <<members, awake, waiting, computing>>

Next ==
  \/ Restart \/ Clear \/ Begin \/ End \/ Advance
  \/ \E v \in VertexID :
       \/ Join(v) \/ SendFromOutside(v)
       \/ Skip(v) \/ Start(v) \/ Read(v) \/ Sleep(v) \/ Return(v)
       \/ \E m \in Message : Send(v, m)

Spec == Init /\ [][Next]_vars
=============================================================================
