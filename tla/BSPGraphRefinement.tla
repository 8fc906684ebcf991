------------------------- MODULE BSPGraphRefinement -------------------------
(***************************************************************************)
(* The worker pool of BSPGraph implements Superstep: every step of a       *)
(* goroutine is one step of the abstract superstep or none.                *)
(***************************************************************************)
EXTENDS BSPGraphProofs

USE DEF CallerPC, WorkerPC, Outcome, Result, Message, Outside, Buffers

(* A round is only begun below the bound.                                  *)
RoundBound == round \in 0 .. MaxRound

AbstractVars == <<Phase, vertices, Awake, Inbox, Outbox, Waiting, Computing>>

LEMMA RoundBounded == Spec => []RoundBound
<1>1. Init => RoundBound
  BY BSPAssumption DEF Init, RoundBound
<1>2. StepInv /\ RoundBound /\ [Next]_vars => RoundBound'
  <2> SUFFICES ASSUME StepInv, RoundBound, [Next]_vars PROVE RoundBound'
    OBVIOUS
  <2>1. CASE BeginStep
    BY <2>1, BSPAssumption DEF BeginStep, RoundBound
  <2>2. CASE Away \/ CalledBack \/ UNCHANGED vars
    BY <2>2 DEF Away, CalledBack, RoundBound, vars, history, delays
  <2>3. ASSUME NEW w \in Worker,
               \/ Signal(w) \/ Finish(w) \/ Inspect(w) \/ Compute(w)
               \/ \E v \in VertexID : Dispatch(w, v)
        PROVE  RoundBound'
    <3>1. round' = round
      BY <2>3, HandOver, ComputeQueues DEF Inspect
    <3> QED BY <3>1 DEF RoundBound
  <2> QED BY <2>1, <2>2, <2>3, StepEffects
<1> QED BY <1>1, <1>2, StepInvariant, PTL DEF Spec

-----------------------------------------------------------------------------
(* How the mapped mail changes with the queues.                            *)
LEMMA MailUnchanged ==
  ASSUME msgQueue' = msgQueue, superstep' = superstep
  PROVE  Inbox' = Inbox /\ Outbox' = Outbox
  BY DEF Inbox, Outbox, ReadBuffer, WriteBuffer

LEMMA MailSent ==
  ASSUME TypeOK, NEW dst \in vertices, NEW m \in Nat, SendMessage(dst, m),
         superstep' = superstep
  PROVE  Inbox' = Inbox /\ Outbox' = [Outbox EXCEPT ![dst] = Append(@, m)]
<1>0. superstep \in Nat /\ dst \in VertexID
  BY DEF TypeOK
<1>1. /\ msgQueue \in [VertexID -> [Buffers -> Seq(Nat)]]
      /\ ReadBuffer \in Buffers /\ WriteBuffer \in Buffers /\ ReadBuffer # WriteBuffer
  BY <1>0, BufferParity DEF TypeOK
<1>s. ReadBuffer' = ReadBuffer /\ WriteBuffer' = WriteBuffer
  BY DEF ReadBuffer, WriteBuffer
<1>2. msgQueue' = [msgQueue EXCEPT ![dst][WriteBuffer] = Append(@, m)]
  BY DEF SendMessage, Enqueue
<1>3. \A v \in VertexID : msgQueue'[v][ReadBuffer] = msgQueue[v][ReadBuffer]
  BY <1>0, <1>1, <1>2
<1>4. \A v \in VertexID : msgQueue'[v][WriteBuffer] =
        IF v = dst THEN Append(msgQueue[v][WriteBuffer], m) ELSE msgQueue[v][WriteBuffer]
  BY <1>0, <1>1, <1>2
<1> QED BY <1>1, <1>s, <1>3, <1>4 DEF Inbox, Outbox

LEMMA MailTaken ==
  ASSUME TypeOK, NEW u \in VertexID, NEW r,
         msgQueue' = [msgQueue EXCEPT ![u][ReadBuffer] = r], superstep' = superstep
  PROVE  Inbox' = [Inbox EXCEPT ![u] = r] /\ Outbox' = Outbox
<1>0. superstep \in Nat
  BY DEF TypeOK
<1>1. /\ msgQueue \in [VertexID -> [Buffers -> Seq(Nat)]]
      /\ ReadBuffer \in Buffers /\ WriteBuffer \in Buffers /\ ReadBuffer # WriteBuffer
  BY <1>0, BufferParity DEF TypeOK
<1>s. ReadBuffer' = ReadBuffer /\ WriteBuffer' = WriteBuffer
  BY DEF ReadBuffer, WriteBuffer
<1>2. \A v \in VertexID : msgQueue'[v][WriteBuffer] = msgQueue[v][WriteBuffer]
  BY <1>1
<1>3. \A v \in VertexID : msgQueue'[v][ReadBuffer] =
        IF v = u THEN r ELSE msgQueue[v][ReadBuffer]
  BY <1>1
<1> QED BY <1>1, <1>s, <1>2, <1>3 DEF Inbox, Outbox

(* A change of superstep leaves the buffers or makes them change places.   *)
LEMMA MailSwapped ==
  ASSUME TypeOK, msgQueue' = msgQueue, superstep' \in Nat
  PROVE  \/ Inbox' = Outbox /\ Outbox' = Inbox
         \/ Inbox' = Inbox /\ Outbox' = Outbox
<1>1. \A n \in Nat : \/ n % 2 = 0 /\ (n + 1) % 2 = 1
                     \/ n % 2 = 1 /\ (n + 1) % 2 = 0
  OBVIOUS
<1>2. superstep \in Nat
  BY DEF TypeOK
<1>3. \/ ReadBuffer' = ReadBuffer /\ WriteBuffer' = WriteBuffer
      \/ ReadBuffer' = WriteBuffer /\ WriteBuffer' = ReadBuffer
  BY <1>1, <1>2 DEF ReadBuffer, WriteBuffer
<1>4. CASE ReadBuffer' = ReadBuffer /\ WriteBuffer' = WriteBuffer
  BY <1>4 DEF Inbox, Outbox
<1>5. CASE ReadBuffer' = WriteBuffer /\ WriteBuffer' = ReadBuffer
  <2>1. Inbox' = [v \in VertexID |-> msgQueue[v][WriteBuffer]]
    BY <1>5 DEF Inbox
  <2>2. Outbox' = [v \in VertexID |-> msgQueue[v][ReadBuffer]]
    BY <1>5 DEF Outbox
  <2>3. /\ Inbox = [v \in VertexID |-> msgQueue[v][ReadBuffer]]
        /\ Outbox = [v \in VertexID |-> msgQueue[v][WriteBuffer]]
    BY DEF Inbox, Outbox
  <2> QED BY <2>1, <2>2, <2>3
<1> QED BY <1>3, <1>4, <1>5

LEMMA MailCleared ==
  ASSUME ResetGraph
  PROVE  /\ Inbox' = [v \in VertexID |-> EmptyQueue]
         /\ Outbox' = [v \in VertexID |-> EmptyQueue]
         /\ Awake' = {} /\ vertices' = {}
<1>1. ReadBuffer' \in Buffers /\ WriteBuffer' \in Buffers
  <2>1. superstep' = 0 /\ 0 % 2 = 0 /\ (0 + 1) % 2 = 1
    BY DEF ResetGraph
  <2>2. ReadBuffer' = 0
    BY <2>1 DEF ReadBuffer
  <2>3. WriteBuffer' = 1
    BY <2>1 DEF WriteBuffer
  <2> QED BY <2>2, <2>3
<1> QED BY <1>1 DEF ResetGraph, Inbox, Outbox, Awake, NoQueues

(* Nothing the abstract superstep sees depends on edges, counters or out.  *)
LEMMA Stutters ==
  ASSUME Phase' = Phase, Waiting' = Waiting, Computing' = Computing,
         UNCHANGED <<superstep, vertices, active, msgQueue>>
  PROVE  UNCHANGED AbstractVars
  BY MailUnchanged DEF AbstractVars, Awake

LEMMA AtUnchanged ==
  ASSUME wpc' = wpc, held' = held
  PROVE  \A locs \in SUBSET {"inspect", "compute", "finish"} : At(locs)' = At(locs)
  BY DEF At

-----------------------------------------------------------------------------
(* Building the graph, choosing an executor, closing it.                   *)
LEMMA SetupImplements ==
  ASSUME StepInv, Setup
  PROVE  Abstract!Next \/ UNCHANGED AbstractVars
<1>a. TypeOK
  BY DEF StepInv
<1> USE DEF callerVars, workerVars, countVars, history, delays
<1>i. pc = "idle" => Phase = "between"
  BY DEF Phase
<1>1. ASSUME NEW id \in VertexID, addVertex(id) PROVE Abstract!Join(id)
  <2>1. Phase' = Phase /\ Waiting' = Waiting /\ Computing' = Computing
    BY <1>1, AtUnchanged DEF addVertex, Phase, Waiting, Computing
  <2>2. Awake' = Awake \cup {id}
    BY <1>a, <1>1 DEF addVertex, Awake, TypeOK
  <2>3. Inbox' = Inbox /\ Outbox' = Outbox
    BY <1>1, MailUnchanged DEF addVertex
  <2> QED BY <1>i, <1>1, <2>1, <2>2, <2>3 DEF addVertex, Abstract!Join, Abstract!mail
<1>2. ASSUME NEW id \in VertexID, CallerSend(id) PROVE Abstract!SendFromOutside(id)
  <2>1. Phase' = Phase /\ Waiting' = Waiting /\ Computing' = Computing /\ Awake' = Awake
    BY <1>2, AtUnchanged DEF CallerSend, Phase, Waiting, Computing, Awake
  <2>2. Phase \in {"between", "done"}
    BY <1>2 DEF CallerSend, Phase
  <2>3. Inbox' = Inbox /\ Outbox' = [Outbox EXCEPT ![id] = Append(@, 0)]
    BY <1>a, <1>2, MailSent DEF CallerSend
  <2> QED BY <1>2, <2>1, <2>2, <2>3 DEF CallerSend, Abstract!SendFromOutside, Abstract!Enqueue
<1>3. ASSUME NEW src \in VertexID, NEW dst \in VertexID, AddEdge(src, dst)
      PROVE  UNCHANGED AbstractVars
  BY <1>3, AtUnchanged, Stutters DEF AddEdge, Phase, Waiting, Computing
<1>4. CASE NewExecutor
  <2>1. /\ Phase' = Phase /\ Waiting' = Waiting /\ Computing' = Computing
        /\ Awake' = Awake /\ vertices' = vertices
    BY <1>4, AtUnchanged DEF NewExecutor, Phase, Waiting, Computing, Awake
  <2>2. \/ Inbox' = Outbox /\ Outbox' = Inbox
        \/ Inbox' = Inbox /\ Outbox' = Outbox
    BY <1>a, <1>4, MailSwapped DEF NewExecutor
  <2>3. CASE Inbox' = Outbox /\ Outbox' = Inbox
    <3>1. Abstract!Restart
      BY <1>i, <1>4, <2>1, <2>3 DEF NewExecutor, Abstract!Restart, Abstract!Swap
    <3> QED BY <3>1 DEF Abstract!Next
  <2>4. CASE Inbox' = Inbox /\ Outbox' = Outbox
    BY <2>1, <2>4 DEF AbstractVars
  <2> QED BY <2>2, <2>3, <2>4
<1>5. ASSUME Reset PROVE Abstract!Clear
  <2>1. Phase' = Phase /\ Waiting' = Waiting /\ Computing' = Computing
    BY <1>5, AtUnchanged DEF Reset, Phase, Waiting, Computing
  <2> QED BY <1>i, <1>5, <2>1, MailCleared
          DEF Reset, Abstract!Clear, Abstract!NoMail, Abstract!EmptyQueue, EmptyQueue
<1>6. CASE Close
  <2>1. Phase' = Phase
    BY <1>6 DEF Close, Phase
  <2> QED BY <1>6, <2>1, AtUnchanged, Stutters DEF Close, Waiting, Computing
<1> QED BY <1>1, <1>2, <1>3, <1>4, <1>5, <1>6 DEF Setup, Abstract!Next

(* Outside a step, no worker is at a vertex.                               *)
LEMMA NobodyAt ==
  ASSUME StepInv, ~Running
  PROVE  Waiting = {} /\ Computing = {}
<1>1. todo = {} /\ \A w \in Worker : wpc[w] \in {"recv", "exited"}
  BY DEF StepInv, Control, Running
<1> QED BY <1>1 DEF Waiting, Computing, At

(* The executor and the two ends of step().                                *)
LEMMA RunImplements ==
  ASSUME StepInv, Run
  PROVE  Abstract!Next \/ UNCHANGED AbstractVars
<1>a. TypeOK /\ Control /\ Count
  BY DEF StepInv
<1> USE DEF callerVars, workerVars, countVars, history, delays
<1>1. CASE RunToCompletion \/ (\E e \in {"ctx", "callback"} : BreakBeforeStep(e))
  <2>1. Phase' = Phase
    BY <1>1 DEF RunToCompletion, BreakBeforeStep, Phase
  <2> QED BY <1>1, <2>1, AtUnchanged, Stutters
          DEF RunToCompletion, BreakBeforeStep, Waiting, Computing
<1>2. ASSUME BeginStep PROVE Abstract!Begin
  <2>1. Waiting = {} /\ Computing = {} /\ todo = {}
    BY <1>a, <1>2, NobodyAt DEF BeginStep, Running, Control
  <2>2. At({"inspect"})' = At({"inspect"}) /\ Computing' = Computing
    BY <1>2, AtUnchanged DEF BeginStep, Computing
  <2>3. Waiting' = vertices
    BY <1>2, <2>1, <2>2 DEF BeginStep, Waiting
  <2>4. Phase = "between" /\ Phase' = IF vertices = {} THEN "done" ELSE "step"
    BY <1>2 DEF BeginStep, Phase
  <2>5. Inbox' = Inbox /\ Outbox' = Outbox /\ Awake' = Awake
    BY <1>2, MailUnchanged DEF BeginStep, Awake
  <2> QED BY <1>2, <2>2, <2>3, <2>4, <2>5 DEF BeginStep, Abstract!Begin, Abstract!mail
<1>3. ASSUME \/ NextSuperstep
             \/ \E e \in Result : EndRun(e)
      PROVE  Abstract!Advance
  <2>1. Phase = "done" /\ Phase' = "between"
    BY <1>3 DEF NextSuperstep, EndRun, Phase
  <2>2. Waiting' = Waiting /\ Computing' = Computing /\ Awake' = Awake /\ vertices' = vertices
    BY <1>3, AtUnchanged DEF NextSuperstep, EndRun, Waiting, Computing, Awake
  <2>3. superstep' \in Nat /\ msgQueue' = msgQueue
    BY <1>a, <1>3 DEF NextSuperstep, EndRun, TypeOK
  <2>4. \/ Inbox' = Outbox /\ Outbox' = Inbox
        \/ Inbox' = Inbox /\ Outbox' = Outbox
    BY <1>a, <2>3, MailSwapped
  <2> QED BY <2>1, <2>2, <2>4 DEF Abstract!Advance, Abstract!Swap, Abstract!mail
<1>4. ASSUME NEW w \in Worker, Signal(w) PROVE Abstract!End
  <2>1. Unfinished = {}
    BY <1>a, <1>4 DEF Signal, Count
  <2>2. Waiting = {} /\ Computing = {}
    BY <2>1 DEF Unfinished, Waiting, Computing, At
  <2>3. \A x \in Worker : wpc'[x] \in {"inspect", "compute"} => wpc[x] \in {"inspect", "compute", "finish"}
    BY <1>a, <1>4 DEF Signal, TypeOK
  <2>4. Waiting' = {} /\ Computing' = {}
    BY <1>4, <2>1, <2>3 DEF Signal, Unfinished, Waiting, Computing, At
  <2>5. Phase = "step" /\ Phase' = "done"
    BY <1>4 DEF Signal, Phase
  <2>6. Inbox' = Inbox /\ Outbox' = Outbox /\ Awake' = Awake
    BY <1>4, MailUnchanged DEF Signal, Awake
  <2> QED BY <1>4, <2>2, <2>4, <2>5, <2>6 DEF Signal, Abstract!End, Abstract!mail
<1>5. ASSUME NEW w \in Worker, NEW v \in VertexID, Dispatch(w, v)
      PROVE  UNCHANGED AbstractVars
  <2>1. /\ wpc[w] = "recv" /\ wpc'[w] = "inspect" /\ held'[w] = v
        /\ v \in todo /\ todo' = todo \ {v}
        /\ \A x \in Worker : x # w => wpc'[x] = wpc[x] /\ held'[x] = held[x]
    BY <1>a, <1>5 DEF Dispatch, TypeOK
  <2>2. Waiting' = Waiting
    <3>1. ASSUME NEW u \in Waiting PROVE u \in Waiting'
      BY <2>1, <3>1 DEF Waiting, At
    <3>2. ASSUME NEW u \in Waiting' PROVE u \in Waiting
      BY <2>1, <3>2 DEF Waiting, At
    <3> QED BY <3>1, <3>2
  <2>3. Computing' = Computing
    BY <2>1 DEF Computing, At
  <2>4. Phase' = Phase
    BY <1>5 DEF Dispatch, Phase
  <2> QED BY <1>5, <2>2, <2>3, <2>4, Stutters DEF Dispatch
<1>6. ASSUME Closed PROVE Abstract!Clear
  <2>1. Phase = "between" /\ Phase' = "closed"
    BY <1>6 DEF Closed, Phase
  <2>2. Waiting' = Waiting /\ Computing' = Computing
    BY <1>6, AtUnchanged DEF Closed, Waiting, Computing
  <2> QED BY <1>6, <2>1, <2>2, MailCleared
          DEF Closed, Abstract!Clear, Abstract!NoMail, Abstract!EmptyQueue, EmptyQueue
<1> QED BY <1>1, <1>2, <1>3, <1>4, <1>5, <1>6 DEF Run, Abstract!Next

(* A worker at its vertex.                                                 *)
LEMMA WorkerImplements ==
  ASSUME StepInv, RoundBound, NEW w \in Worker, WorkerStep(w)
  PROVE  Abstract!Next \/ UNCHANGED AbstractVars
<1> DEFINE v == held[w]
<1>a. TypeOK /\ Ownership /\ Control
  BY DEF StepInv
<1>b. Busy(w) => Running /\ v \in vertices /\ v \in VertexID /\ v \notin todo
  BY <1>a DEF Ownership, Control, Busy, TypeOK
<1>c. \A x \in Worker : wpc[x] \in {"inspect", "compute", "finish"} /\ held[x] = v /\ Busy(w) => x = w
  BY <1>a DEF Ownership, Busy
<1> USE DEF callerVars, workerVars, countVars, history, delays
<1>1. CASE Inspect(w)
  <2>1. /\ Busy(w) /\ v \in Waiting /\ Phase' = Phase /\ held' = held /\ vertices' = vertices
        /\ Inbox' = Inbox /\ Outbox' = Outbox
    BY <1>1, MailUnchanged DEF Inspect, Busy, Waiting, At, Phase
  <2>2. Inbox[v] = msgQueue[v][ReadBuffer]
    BY <1>b, <2>1 DEF Inbox
  <2>3. CASE MustCompute(v)
    <3>1. wpc' = [wpc EXCEPT ![w] = "compute"] /\ active' = [active EXCEPT ![v] = TRUE]
      BY <1>1, <2>3 DEF Inspect
    <3>2. /\ At({"inspect"})' = At({"inspect"}) \ {v}
          /\ At({"compute"})' = At({"compute"}) \cup {v}
      BY <1>a, <2>1, <3>1, AtMoves
    <3>3. Waiting' = Waiting \ {v} /\ Computing' = Computing \cup {v}
      BY <1>1, <1>b, <2>1, <3>2 DEF Inspect, Waiting, Computing
    <3>4. Awake' = Awake \cup {v}
      BY <1>a, <1>b, <2>1, <3>1 DEF Awake, TypeOK
    <3>5. v \in Awake \/ Len(Inbox[v]) # 0
      BY <1>b, <2>1, <2>2, <2>3 DEF MustCompute, HasUnread, PendingMessages, Awake
    <3>6. Abstract!Start(v)
      BY <2>1, <3>3, <3>4, <3>5 DEF Abstract!Start, Abstract!PendingMessages, Abstract!mail
    <3> QED BY <1>b, <2>1, <3>6 DEF Abstract!Next
  <2>4. CASE ~MustCompute(v)
    <3>1. wpc' = [wpc EXCEPT ![w] = "finish"] /\ active' = active
      BY <1>1, <2>4 DEF Inspect
    <3>2. /\ At({"inspect"})' = At({"inspect"}) \ {v}
          /\ At({"compute"})' = At({"compute"}) \ {v}
      BY <1>a, <2>1, <3>1, AtMoves
    <3>3. v \notin Computing
      BY <1>c, <1>1, <2>1 DEF Inspect, Computing, At
    <3>4. /\ Waiting' = Waiting \ {v}
          /\ Computing' = Computing
      <4>1. todo' = todo
        BY <1>1 DEF Inspect
      <4>2. Waiting' = Waiting \ {v}
        BY <1>b, <2>1, <3>2, <4>1 DEF Waiting
      <4>3. Computing' = Computing \ {v}
        BY <3>2 DEF Computing
      <4> QED BY <3>3, <4>2, <4>3
    <3>5. Awake' = Awake
      BY <2>1, <3>1 DEF Awake
    <3>6. v \notin Awake /\ ~(Len(Inbox[v]) # 0)
      BY <2>2, <2>4 DEF MustCompute, HasUnread, PendingMessages, Awake
    <3>7. Abstract!Skip(v)
      BY <2>1, <3>4, <3>5, <3>6 DEF Abstract!Skip, Abstract!PendingMessages, Abstract!mail
    <3> QED BY <1>b, <2>1, <3>7 DEF Abstract!Next
  <2> QED BY <2>3, <2>4
<1>2. CASE NextMessage(w)
  <2>1. /\ Busy(w) /\ v \in Computing /\ Phase' = Phase /\ Awake' = Awake
        /\ Waiting' = Waiting /\ Computing' = Computing
    BY <1>2, AtUnchanged DEF NextMessage, Busy, Waiting, Computing, Phase, Awake, At
  <2>2. Inbox[v] = msgQueue[v][ReadBuffer] /\ Len(Inbox[v]) # 0
    BY <1>2, <1>b, <2>1 DEF NextMessage, Inbox, HasUnread, PendingMessages
  <2>3. Inbox' = [Inbox EXCEPT ![v] = AfterNext(Inbox[v])] /\ Outbox' = Outbox
    <3>1. msgQueue' = [msgQueue EXCEPT ![v][ReadBuffer] = AfterNext(Inbox[v])]
      BY <1>a, <1>2, <1>b, <2>1, <2>2, BufferParity DEF NextMessage, TypeOK
    <3> QED BY <1>a, <1>2, <1>b, <2>1, <3>1, MailTaken DEF NextMessage
  <2>4. Abstract!Read(v)
    BY <1>2, <2>1, <2>2, <2>3
    DEF NextMessage, Abstract!Read, Abstract!PendingMessages, Abstract!AfterNext, AfterNext
  <2> QED BY <1>b, <2>1, <2>4 DEF Abstract!Next
<1>3. CASE Freeze(w)
  <2>1. /\ Busy(w) /\ v \in Computing /\ Phase' = Phase /\ Inbox' = Inbox /\ Outbox' = Outbox
        /\ Waiting' = Waiting /\ Computing' = Computing
    BY <1>3, AtUnchanged, MailUnchanged DEF Freeze, Busy, Waiting, Computing, Phase, At
  <2>2. Awake' = Awake \ {v}
    BY <1>a, <1>3, <1>b, <2>1 DEF Freeze, Awake, TypeOK
  <2>3. Abstract!Sleep(v)
    BY <1>3, <2>1, <2>2 DEF Freeze, Abstract!Sleep, Abstract!mail
  <2> QED BY <1>b, <2>1, <2>3 DEF Abstract!Next
<1>4. CASE StartSending(w)
  <2>1. Phase' = Phase /\ Waiting' = Waiting /\ Computing' = Computing
    BY <1>4, AtUnchanged DEF StartSending, Waiting, Computing, Phase
  <2> QED BY <1>4, <2>1, Stutters DEF StartSending
<1>5. CASE Deliver(w)
  <2> DEFINE d == Head(out[w])
  <2>1. /\ v \in Computing /\ Phase' = Phase /\ Awake' = Awake
        /\ Waiting' = Waiting /\ Computing' = Computing
    BY <1>5, AtUnchanged DEF Deliver, Waiting, Computing, Phase, Awake, At
  <2>2. CASE d \in vertices
    <3>1. Inbox' = Inbox /\ Outbox' = [Outbox EXCEPT ![d] = Append(@, round)]
      BY <1>a, <1>5, <2>2, MailSent DEF Deliver, TypeOK
    <3>2. Abstract!Send(d, round)
      BY <1>5, <2>1, <2>2, <3>1 DEF Deliver, Abstract!Send, Abstract!Enqueue
    <3>3. d \in VertexID /\ round \in 0 .. MaxRound
      BY <1>a, <2>2 DEF TypeOK, RoundBound
    <3> QED BY <3>2, <3>3 DEF Abstract!Next
  <2>3. CASE d \notin vertices
    <3>1. msgQueue' = msgQueue
      BY <1>5, <2>3 DEF Deliver, SendMessage
    <3> QED BY <1>5, <2>1, <3>1, Stutters DEF Deliver
  <2> QED BY <2>2, <2>3
<1>6. ASSUME Busy(w), v \in Computing, Phase' = Phase, Awake' = Awake, vertices' = vertices,
             wpc' = [wpc EXCEPT ![w] = "finish"], held' = held, todo' = todo,
             wpc[w] = "compute",
             Inbox' \in {Inbox, [Inbox EXCEPT ![v] = << >>]}, Outbox' = Outbox
      PROVE  Abstract!Next
  <2>1. /\ At({"inspect"})' = At({"inspect"}) \ {v}
        /\ At({"compute"})' = At({"compute"}) \ {v}
    BY <1>a, <1>6, AtMoves
  <2>2. v \notin At({"inspect"})
    BY <1>c, <1>6 DEF At
  <2>3. Waiting' = Waiting /\ Computing' = Computing \ {v}
    BY <1>6, <2>1, <2>2 DEF Waiting, Computing
  <2>4. Abstract!Return(v)
    BY <1>6, <2>3 DEF Abstract!Return, Abstract!DiscardMessages, Abstract!EmptyQueue
  <2> QED BY <1>b, <1>6, <2>4 DEF Abstract!Next
<1>7. CASE ComputeOK(w)
  <2>1. /\ Busy(w) /\ v \in Computing /\ Phase' = Phase /\ Awake' = Awake
    BY <1>7 DEF ComputeOK, Busy, Computing, At, Phase, Awake
  <2>2. msgQueue' = [msgQueue EXCEPT ![v][ReadBuffer] = << >>]
    BY <1>a, <1>7, <1>b, <2>1, BufferParity
    DEF ComputeOK, DiscardUnread, DiscardMessages, EmptyQueue, TypeOK
  <2>3. Inbox' = [Inbox EXCEPT ![v] = << >>] /\ Outbox' = Outbox
    BY <1>a, <1>b, <1>7, <2>1, <2>2, MailTaken DEF ComputeOK
  <2> QED BY <1>6, <1>7, <2>1, <2>3 DEF ComputeOK
<1>8. CASE ComputeFails(w)
  <2>1. /\ Busy(w) /\ v \in Computing /\ Phase' = Phase /\ Awake' = Awake
        /\ Inbox' = Inbox /\ Outbox' = Outbox
    BY <1>8, MailUnchanged DEF ComputeFails, Busy, Computing, At, Phase, Awake
  <2> QED BY <1>6, <1>8, <2>1 DEF ComputeFails
<1>9. CASE Finish(w) \/ WorkerExit(w)
  <2>1. /\ \A x \in Worker : x # w => wpc'[x] = wpc[x] /\ held'[x] = held[x]
        /\ wpc[w] \in {"finish", "recv"} /\ wpc'[w] \in {"signal", "recv", "exited"}
    BY <1>a, <1>9 DEF Finish, WorkerExit, TypeOK
  <2>2. Waiting' = Waiting /\ Computing' = Computing
    BY <1>9, <2>1 DEF Finish, WorkerExit, Waiting, Computing, At
  <2>3. Phase' = Phase
    BY <1>9 DEF Finish, WorkerExit, Phase
  <2> QED BY <1>9, <2>2, <2>3, Stutters DEF Finish, WorkerExit
<1> QED BY <1>1, <1>2, <1>3, <1>4, <1>5, <1>7, <1>8, <1>9 DEF WorkerStep, Compute

-----------------------------------------------------------------------------
(* The worker pool is a superstep: with any number of goroutines, in any   *)
(* interleaving, each vertex reads one mailbox while senders fill the      *)
(* other, and they change places only between steps.                       *)
THEOREM Refinement == Spec => ImplementsSuperstep
<1>1. Init => Abstract!Init
  <2> SUFFICES ASSUME Init PROVE Abstract!Init
    OBVIOUS
  <2>1. Phase = "between" /\ Awake = {} /\ Waiting = {} /\ Computing = {}
    BY DEF Init, Phase, Awake, Waiting, Computing, At
  <2>2. ReadBuffer \in Buffers /\ WriteBuffer \in Buffers
    BY BufferParity DEF Init
  <2>3. /\ Inbox = [v \in VertexID |-> << >>]
        /\ Outbox = [v \in VertexID |-> << >>]
    BY <2>2 DEF Init, Inbox, Outbox, NoQueues, EmptyQueue
  <2> QED BY <2>1, <2>3 DEF Init, Abstract!Init, Abstract!NoMail, Abstract!EmptyQueue
<1>2. StepInv /\ RoundBound /\ [Next]_vars => [Abstract!Next]_AbstractVars
  <2> SUFFICES ASSUME StepInv, RoundBound, [Next]_vars
               PROVE  Abstract!Next \/ UNCHANGED AbstractVars
    OBVIOUS
  <2>1. CASE Terminated \/ UNCHANGED vars
    <3>1. UNCHANGED vars
      BY <2>1 DEF Terminated
    <3>2. Phase' = Phase /\ Waiting' = Waiting /\ Computing' = Computing
      BY <3>1, AtUnchanged DEF vars, callerVars, workerVars, Phase, Waiting, Computing
    <3> QED BY <3>1, <3>2, Stutters DEF vars
  <2> QED BY <2>1, SetupImplements, RunImplements, WorkerImplements DEF Next
<1>3. AbstractVars = Abstract!vars
  BY DEF AbstractVars, Abstract!vars
<1>4. StepInv /\ RoundBound /\ [Next]_vars => [Abstract!Next]_(Abstract!vars)
  BY <1>2, <1>3 DEF AbstractVars, Abstract!vars
<1> QED BY <1>1, <1>4, StepInvariant, RoundBounded, PTL
        DEF Spec, ImplementsSuperstep, Abstract!Spec
=============================================================================
