------------------------------ MODULE BSPGraph ------------------------------
(***************************************************************************)
(* The bulk-synchronous graph processor of internal/bspgraph: the Graph    *)
(* with its pool of stepWorker goroutines, and the Executor whose          *)
(* RunToCompletion drives it superstep by superstep.                       *)
(*                                                                         *)
(* The caller's goroutine is `pc', the workers are `wpc'; they meet on the *)
(* unbuffered channels vertexCh (Dispatch, WorkerExit) and stepCompletedCh *)
(* (Signal).  The compute function and the executor's callbacks are the    *)
(* user's: they may do, in any order, what the package lets them do.       *)
(***************************************************************************)
EXTENDS MessageQueue, FiniteSets

CONSTANTS
  VertexID,   \* ids a caller may name; one that is not added stays unknown
  NoVertex,   \* what a worker without a vertex holds
  Worker,     \* the ComputeWorkers goroutines of the graph
  Relayer,    \* has a Relayer been registered?
  MaxRound,   \* bound: steps executed over the life of the graph
  MaxQueue,   \* bound: messages the caller piles up in one queue
  MaxEdges,   \* bound: edges per source vertex
  MaxCalls    \* bound: calls a compute function makes that send messages

ASSUME BSPAssumption ==
  /\ IsFiniteSet(VertexID)
  /\ NoVertex \notin VertexID
  /\ Worker # {}
  /\ Relayer \in BOOLEAN
  /\ {MaxRound, MaxQueue, MaxEdges, MaxCalls} \subseteq Nat

VARIABLES
  superstep, vertices, active, msgQueue, edges,   \* Graph, Vertex
  pendingInStep, activeInStep, errCh,             \* Graph, during a step
  pc,       \* where the caller's goroutine is in run() and step()
  err,      \* the err variable of run()
  todo,     \* vertices step() has not put on vertexCh yet
  wpc,      \* where each worker is in stepWorker
  held,     \* the loop variable v of each worker
  out,      \* destinations a worker's current send call has still to serve
  calls,    \* sending calls made by a worker's current compute function
  round,    \* history: number of steps begun
  outcome,  \* history: what the current step did with each vertex
  due,      \* history: the buffer that the previous step's messages are in
  kept      \* history: vertices where that step failed and left messages unread

callerVars == <<pc, err, todo>>
workerVars == <<wpc, held, out, calls>>
countVars  == <<pendingInStep, activeInStep, errCh>>
delays     == <<due, kept>>
history    == <<round, outcome, delays>>
vars == <<superstep, vertices, active, msgQueue, edges, countVars,
          callerVars, workerVars, history>>

CallerPC == {"idle", "loop", "dispatch", "await", "post", "closing", "closed"}
WorkerPC == {"recv", "inspect", "compute", "finish", "signal", "exited"}
Outcome  == {"none", "skipped", "ok", "failed"}
Result   == {"nil", "ctx", "callback", "compute"}

(* A message is the number of the step whose compute function sent it, or  *)
(* Outside when the caller sent it between two steps.                      *)
Message == Nat
Outside == 0

Buffers == 0 .. 1
NoQueues == [b \in Buffers |-> EmptyQueue]

-----------------------------------------------------------------------------
(* The two queues of a vertex: workers read one while senders fill the     *)
(* other, and the parity of the superstep says which is which.             *)
ReadBuffer == superstep % 2
SameBuffer == superstep % 2         \* mutant: the +1 of SendMessage is lost
WriteBuffer == (superstep + 1) % 2

Running == pc \in {"dispatch", "await"}
HasUnread(v) == PendingMessages(msgQueue[v][ReadBuffer])

(* The capacity of errCh: make(chan error).                                *)
ErrChCap == 0
TryEmitError(e) ==
  errCh' = IF Len(errCh) < ErrChCap THEN Append(errCh, e) ELSE errCh

(* SendMessage to an id of this graph enqueues; to any other id it reports *)
(* an error unless a relayer takes the message.                            *)
SendMessage(dst, msg) ==
  IF dst \in vertices
  THEN msgQueue' = [msgQueue EXCEPT ![dst][WriteBuffer] = Enqueue(@, msg)]
  ELSE UNCHANGED msgQueue
SendResults(dst) ==
  IF dst \in vertices THEN {"ok"} ELSE IF Relayer THEN {"ok", "err"} ELSE {"err"}

Init ==
  /\ superstep = 0
  /\ vertices = {}
  /\ active = [v \in VertexID |-> FALSE]
  /\ msgQueue = [v \in VertexID |-> NoQueues]
  /\ edges = [v \in VertexID |-> << >>]
  /\ pendingInStep = 0
  /\ activeInStep = 0
  /\ errCh = << >>
  /\ pc = "idle"
  /\ err = "nil"
  /\ todo = {}
  /\ wpc = [w \in Worker |-> "recv"]
  /\ held = [w \in Worker |-> NoVertex]
  /\ out = [w \in Worker |-> << >>]
  /\ calls = [w \in Worker |-> 0]
  /\ round = 0
  /\ outcome = [v \in VertexID |-> "none"]
  /\ due = 0 /\ kept = {}

-----------------------------------------------------------------------------
(* The caller between runs: building the graph, choosing an executor.      *)

addVertex(id) ==
  /\ pc = "idle"
  /\ id \notin vertices       \* an existing vertex only gets a new value
  /\ vertices' = vertices \cup {id}
  /\ active' = [active EXCEPT ![id] = TRUE]
  /\ UNCHANGED <<superstep, msgQueue, edges, countVars, callerVars, workerVars, history>>

AddEdge(src, dst) ==
  /\ pc = "idle"
  /\ src \in vertices         \* otherwise ErrUnknownEdgeSource
  /\ Len(edges[src]) < MaxEdges
  /\ edges' = [edges EXCEPT ![src] = Append(@, dst)]
  /\ UNCHANGED <<superstep, vertices, active, msgQueue, countVars, callerVars,
                 workerVars, history>>

(* Setup code and the PreStep and PostStep callbacks may send too.         *)
CallerSend(dst) ==
  /\ pc \in {"idle", "loop", "post"}
  /\ dst \in vertices
  /\ Len(msgQueue[dst][WriteBuffer]) < MaxQueue
  /\ SendMessage(dst, Outside)
  /\ UNCHANGED <<superstep, vertices, active, edges, countVars, callerVars,
                 workerVars, history>>

NewExecutor ==
  /\ pc = "idle"
  /\ superstep' = 0
  /\ UNCHANGED <<vertices, active, msgQueue, edges, countVars, callerVars,
                 workerVars, history>>

ResetGraph ==
  /\ superstep' = 0
  /\ vertices' = {}
  /\ active' = [v \in VertexID |-> FALSE]
  /\ msgQueue' = [v \in VertexID |-> NoQueues]
  /\ edges' = [v \in VertexID |-> << >>]

Reset ==
  /\ pc = "idle"
  /\ ResetGraph
  /\ UNCHANGED <<countVars, callerVars, workerVars, history>>

(* Close closes vertexCh, waits for the workers and resets the graph.      *)
Close ==
  /\ pc = "idle"
  /\ pc' = "closing"
  /\ UNCHANGED <<superstep, vertices, active, msgQueue, edges, countVars, err, todo,
                 workerVars, history>>

WorkerExit(w) ==
  /\ pc = "closing"
  /\ wpc[w] = "recv"
  /\ wpc' = [wpc EXCEPT ![w] = "exited"]
  /\ UNCHANGED <<superstep, vertices, active, msgQueue, edges, countVars, callerVars,
                 held, out, calls, history>>

Closed ==
  /\ pc = "closing"
  /\ \A w \in Worker : wpc[w] = "exited"
  /\ ResetGraph
  /\ pc' = "closed"
  /\ UNCHANGED <<countVars, err, todo, workerVars, history>>

-----------------------------------------------------------------------------
(* The caller inside RunToCompletion.                                      *)

RunToCompletion ==
  /\ pc = "idle"
  /\ pc' = "loop"
  /\ err' = "nil"
  /\ UNCHANGED <<superstep, vertices, active, msgQueue, edges, countVars, todo,
                 workerVars, history>>

(* The context has expired or PreStep failed.                              *)
BreakBeforeStep(e) ==
  /\ pc = "loop"
  /\ pc' = "idle"
  /\ err' = e
  /\ UNCHANGED <<superstep, vertices, active, msgQueue, edges, countVars, todo,
                 workerVars, history>>

(* step() up to its loop over the vertices.                                *)
KeepActiveCount == UNCHANGED activeInStep       \* mutant: no reset of activeInStep
ResetActiveCount == activeInStep' = 0
StepSize == Cardinality(vertices)
BeginStep ==
  /\ pc = "loop"
  /\ round < MaxRound
  /\ round' = round + 1
  /\ outcome' = [v \in VertexID |-> "none"]
  /\ ResetActiveCount
  /\ pendingInStep' = StepSize
  /\ todo' = vertices
  /\ pc' = IF vertices = {} THEN "post" ELSE "dispatch"
  /\ UNCHANGED <<superstep, vertices, active, msgQueue, edges, errCh, err, workerVars,
                 delays>>

(* One iteration of that loop: a receiving worker takes v from vertexCh.   *)
Dispatch(w, v) ==
  /\ pc = "dispatch"
  /\ v \in todo
  /\ wpc[w] = "recv"
  /\ wpc' = [wpc EXCEPT ![w] = "inspect"]
  /\ held' = [held EXCEPT ![w] = v]
  /\ todo' = todo \ {v}
  /\ pc' = IF todo' = {} THEN "await" ELSE "dispatch"
  /\ UNCHANGED <<superstep, vertices, active, msgQueue, edges, countVars, err, out, calls,
                 history>>

(* step() receives from stepCompletedCh, then polls errCh and returns.     *)
Signal(w) ==
  /\ pc = "await"
  /\ wpc[w] = "signal"
  /\ wpc' = [wpc EXCEPT ![w] = "recv"]
  /\ err' = IF errCh = << >> THEN "nil" ELSE Head(errCh)
  /\ errCh' = IF errCh = << >> THEN errCh ELSE Tail(errCh)
  /\ pc' = "post"
  /\ UNCHANGED <<superstep, vertices, active, msgQueue, edges, pendingInStep,
                 activeInStep, todo, held, out, calls, history>>

(* The history of a step that is over: its outcomes are of no more use.    *)
StepIsOver ==
  /\ due' = WriteBuffer
  /\ kept' = {v \in vertices : outcome[v] = "failed" /\ HasUnread(v)}
  /\ outcome' = [v \in VertexID |-> "none"]
  /\ UNCHANGED round

(* step() failed, or PostStep or PostStepKeepRunning failed or said stop:  *)
(* the loop breaks without its post statement.                             *)
EndRun(e) ==
  /\ pc = "post"
  /\ e \in IF err = "nil" THEN {"nil", "callback"} ELSE {err}
  /\ pc' = "idle"
  /\ err' = e
  /\ StepIsOver
  /\ UNCHANGED <<superstep, vertices, active, msgQueue, edges, countVars, todo,
                 workerVars>>

NextSuperstep ==
  /\ pc = "post"
  /\ err = "nil"
  /\ superstep' = superstep + 1
  /\ pc' = "loop"
  /\ StepIsOver
  /\ UNCHANGED <<vertices, active, msgQueue, edges, countVars, err, todo, workerVars>>

-----------------------------------------------------------------------------
(* A worker with a vertex.                                                 *)

IgnoreMail(v) == active[v]                      \* mutant: only active vertices run
MustCompute(v) == active[v] \/ HasUnread(v)
Inspect(w) ==
  LET v == held[w] IN
  /\ wpc[w] = "inspect"
  /\ IF MustCompute(v)
     THEN /\ activeInStep' = activeInStep + 1
          /\ active' = [active EXCEPT ![v] = TRUE]
          /\ wpc' = [wpc EXCEPT ![w] = "compute"]
          /\ UNCHANGED outcome
     ELSE /\ wpc' = [wpc EXCEPT ![w] = "finish"]
          /\ outcome' = [outcome EXCEPT ![v] = "skipped"]
          /\ UNCHANGED <<activeInStep, active>>
  /\ UNCHANGED <<superstep, vertices, msgQueue, edges, pendingInStep, errCh, callerVars,
                 held, out, calls, round, delays>>

(* The compute function takes a message from its iterator, ...             *)
NextMessage(w) ==
  /\ wpc[w] = "compute" /\ out[w] = << >>
  /\ HasUnread(held[w])
  /\ msgQueue' = [msgQueue EXCEPT ![held[w]][ReadBuffer] = AfterNext(@)]
  /\ UNCHANGED <<superstep, vertices, active, edges, countVars, callerVars, workerVars,
                 history>>

(* ... freezes its vertex, ...                                             *)
Freeze(w) ==
  /\ wpc[w] = "compute" /\ out[w] = << >>
  /\ active' = [active EXCEPT ![held[w]] = FALSE]
  /\ UNCHANGED <<superstep, vertices, msgQueue, edges, countVars, callerVars, workerVars,
                 history>>

(* ... sends one message with SendMessage or one to every neighbour with   *)
(* BroadcastToNeighbors, ...                                               *)
StartSending(w) ==
  /\ wpc[w] = "compute" /\ out[w] = << >>
  /\ calls[w] < MaxCalls
  /\ calls' = [calls EXCEPT ![w] = @ + 1]
  /\ \E dsts \in {edges[held[w]]} \cup {<<d>> : d \in VertexID} :
        out' = [out EXCEPT ![w] = dsts]
  /\ UNCHANGED <<superstep, vertices, active, msgQueue, edges, countVars, callerVars,
                 wpc, held, history>>

(* (one destination; an error ends a broadcast where it stands)            *)
Deliver(w) ==
  /\ wpc[w] = "compute" /\ out[w] # << >>
  /\ SendMessage(Head(out[w]), round)
  /\ \E res \in SendResults(Head(out[w])) :
        out' = [out EXCEPT ![w] = IF res = "ok" THEN Tail(@) ELSE << >>]
  /\ UNCHANGED <<superstep, vertices, active, edges, countVars, callerVars, wpc, held,
                 calls, history>>

(* ... and returns: nil discards what it left unread, ...                  *)
DiscardNothing(v) == UNCHANGED msgQueue         \* mutant: no DiscardMessages
DiscardFilling(v) ==                            \* mutant: the other queue is emptied
  msgQueue' = [msgQueue EXCEPT ![v][WriteBuffer] = DiscardMessages(@)]
DiscardUnread(v) ==
  msgQueue' = [msgQueue EXCEPT ![v][ReadBuffer] = DiscardMessages(@)]
ComputeOK(w) ==
  /\ wpc[w] = "compute" /\ out[w] = << >>
  /\ DiscardUnread(held[w])
  /\ wpc' = [wpc EXCEPT ![w] = "finish"]
  /\ calls' = [calls EXCEPT ![w] = 0]
  /\ outcome' = [outcome EXCEPT ![held[w]] = "ok"]
  /\ UNCHANGED <<superstep, vertices, active, edges, countVars, callerVars, held, out,
                 round, delays>>

(* ... an error is offered to errCh and leaves them.                       *)
ComputeFails(w) ==
  /\ wpc[w] = "compute" /\ out[w] = << >>
  /\ TryEmitError("compute")
  /\ wpc' = [wpc EXCEPT ![w] = "finish"]
  /\ calls' = [calls EXCEPT ![w] = 0]
  /\ outcome' = [outcome EXCEPT ![held[w]] = "failed"]
  /\ UNCHANGED <<superstep, vertices, active, msgQueue, edges, pendingInStep,
                 activeInStep, callerVars, held, out, round, delays>>

(* The worker that brings pendingInStep to zero reports the step complete. *)
LastButOne(n) == n = 1                          \* mutant: the barrier opens one early
LastTwo(n) == n <= 1                            \* mutant: it is opened twice
LastOne(n) == n = 0
DoneUnlessFailed(w) ==                          \* mutant: `continue' on an error
  IF outcome[held[w]] = "failed" THEN pendingInStep ELSE pendingInStep - 1
Done(w) == pendingInStep - 1
Finish(w) ==
  /\ wpc[w] = "finish"
  /\ pendingInStep' = Done(w)
  /\ wpc' = [wpc EXCEPT ![w] = IF LastOne(pendingInStep') THEN "signal" ELSE "recv"]
  /\ held' = [held EXCEPT ![w] = NoVertex]
  /\ UNCHANGED <<superstep, vertices, active, msgQueue, edges, activeInStep, errCh,
                 callerVars, out, calls, history>>

-----------------------------------------------------------------------------
Compute(w) ==
  \/ NextMessage(w) \/ Freeze(w) \/ StartSending(w) \/ Deliver(w)
  \/ ComputeOK(w) \/ ComputeFails(w)

WorkerStep(w) ==
  \/ Inspect(w) \/ Compute(w) \/ Finish(w) \/ WorkerExit(w)

Setup ==
  \/ \E id \in VertexID : addVertex(id) \/ CallerSend(id)
  \/ \E src, dst \in VertexID : AddEdge(src, dst)
  \/ NewExecutor \/ Reset \/ Close

Run ==
  \/ RunToCompletion \/ BeginStep \/ NextSuperstep
  \/ \E e \in {"ctx", "callback"} : BreakBeforeStep(e)
  \/ \E e \in Result : EndRun(e)
  \/ \E w \in Worker : Signal(w) \/ \E v \in VertexID : Dispatch(w, v)
  \/ Closed

Terminated == pc = "closed" /\ UNCHANGED vars

Next == Setup \/ Run \/ Terminated \/ \E w \in Worker : WorkerStep(w)

Spec == Init /\ [][Next]_vars

(* The Go scheduler runs every goroutine that can go on; step() and Close  *)
(* do not wait for anything but the workers; and the user's compute        *)
(* function returns.  Nothing makes a caller start, continue or end a run. *)
Fairness ==
  /\ WF_vars(\E w \in Worker, v \in VertexID : Dispatch(w, v))
  /\ WF_vars(\E w \in Worker : Signal(w))
  /\ WF_vars(Closed)
  /\ \A w \in Worker :
       /\ WF_vars(Inspect(w)) /\ WF_vars(Finish(w)) /\ WF_vars(WorkerExit(w))
       /\ WF_vars(Deliver(w)) /\ WF_vars(ComputeOK(w) \/ ComputeFails(w))

FairSpec == Spec /\ Fairness

-----------------------------------------------------------------------------
(* Type invariant.                                                         *)
TypeOK ==
  /\ superstep \in Nat
  /\ vertices \subseteq VertexID
  /\ active \in [VertexID -> BOOLEAN]
  /\ msgQueue \in [VertexID -> [Buffers -> Seq(Message)]]
  /\ edges \in [VertexID -> Seq(VertexID)]
  /\ pendingInStep \in Nat
  /\ activeInStep \in Nat
  /\ errCh \in Seq(Result)
  /\ pc \in CallerPC
  /\ err \in Result
  /\ todo \subseteq vertices
  /\ wpc \in [Worker -> WorkerPC]
  /\ held \in [Worker -> VertexID \cup {NoVertex}]
  /\ out \in [Worker -> Seq(VertexID)]
  /\ calls \in [Worker -> Nat]
  /\ round \in Nat
  /\ outcome \in [VertexID -> Outcome]
  /\ due \in Buffers
  /\ kept \subseteq VertexID

Busy(w) == wpc[w] \in {"inspect", "compute", "finish"}

(* The barrier: once step() has returned, and until it is called again, no *)
(* worker is still at a vertex of the step, whatever order the atomic      *)
(* counter and the three channels let the goroutines run in.  Callbacks    *)
(* and setup code touch vertices without locks and rely on it.             *)
BarrierHolds ==
  /\ pc \notin {"dispatch", "await"} => \A w \in Worker : wpc[w] \in {"recv", "exited"}
  /\ pc = "post" => \A v \in vertices : outcome[v] # "none"

(* A superstep gives every vertex to exactly one worker, once: no two      *)
(* workers are ever at the same vertex, and its outcome, once reached,     *)
(* stands until the step is over.                                          *)
OneWorkerEach ==
  \A w, x \in Worker : Busy(w) /\ Busy(x) /\ held[w] = held[x] => w = x
OutcomesStand ==
  round' = round /\ (pc = "post" => pc' = "post") =>
    \A v \in VertexID : outcome[v] # "none" => outcome'[v] = outcome[v]
OncePerStep == [][OneWorkerEach /\ OutcomesStand]_vars

(* Messages sent during a superstep are not visible in it: whatever the    *)
(* compute functions still have to read was sent before the step began,    *)
(* also when an executor was replaced, a run resumed or a compute function *)
(* failed in an earlier step.                                              *)
SuperstepIsolation ==
  Running => \A v \in VertexID :
    LET q == msgQueue[v][ReadBuffer] IN \A i \in DOMAIN q : q[i] < round

(* When a step ends, the buffer it read is empty and free to take the      *)
(* messages of the step after next, except at vertices whose compute       *)
(* function failed: those keep what was not read.                          *)
ReadBuffersDrained ==
  pc = "post" => \A v \in vertices :
    outcome[v] # "failed" => ~HasUnread(v)

(* A message leaves a queue only in the step that reads that buffer, by    *)
(* the worker at its vertex, or when the whole graph is reset.             *)
OnlyReaderTakes ==
  \A v \in VertexID, b \in Buffers :
    Len(msgQueue'[v][b]) < Len(msgQueue[v][b]) =>
      \/ vertices' = {}
      \/ b = ReadBuffer /\ \E w \in Worker : held[w] = v /\ wpc[w] = "compute"
NoMessageLost == [][OnlyReaderTakes]_vars

(* The number step() returns counts the vertices whose compute function    *)
(* ran.  When it is zero, nothing is active, the buffer just read is empty *)
(* and the step sent nothing.  What is left is what callbacks and setup    *)
(* code sent, what a compute function that failed did not read, and, where *)
(* the step read no other buffer than the one before it did, as it does    *)
(* after a stop (executor.go:59), the messages of earlier steps.  With     *)
(* none of these a caller that stops at zero stops at rest: no queue holds *)
(* a message.                                                              *)
OnTime == ReadBuffer = due
AtRest(v) ==
  \A b \in Buffers : \A i \in 1 .. Len(msgQueue[v][b]) : msgQueue[v][b][i] = Outside
HaltIsSafe ==
  pc = "post" =>
    /\ activeInStep = Cardinality({v \in vertices : outcome[v] \in {"ok", "failed"}})
    /\ activeInStep = 0 => \A v \in vertices :
         /\ ~active[v] /\ ~HasUnread(v)
         /\ LET q == msgQueue[v][WriteBuffer] IN \A i \in DOMAIN q : q[i] # round
         /\ OnTime /\ v \notin kept => AtRest(v)

(* "Messages are queued for delivery and will be processed by receipients  *)
(* in the next superstep" (graph.go:224-225): a step that reads the buffer *)
(* the one before it wrote to leaves no message of an earlier step, in     *)
(* either buffer, but where a compute function failed in one of the two.   *)
(* The step after a stop reads another (executor.go:59 is skipped), and    *)
(* the messages of the one before it wait.                                 *)
ReadInNextStep ==
  pc = "post" /\ OnTime =>
    \A v \in vertices \ kept, b \in Buffers : outcome[v] # "failed" =>
      LET q == msgQueue[v][b] IN \A i \in DOMAIN q : q[i] \in {Outside, round}

(* "RunToCompletion keeps executing supersteps until the context expires,  *)
(* an error occurs ..." (executor.go): a step in which a compute function  *)
(* failed returns its error, and the run ends.                             *)
ErrorEndsRun ==
  pc = "post" /\ (\E v \in vertices : outcome[v] = "failed") => err # "nil"

(* A step that has begun returns, and Close does, if compute functions do. *)
StepReturns == pc \in {"dispatch", "await"} ~> pc = "post"
CloseReturns == pc = "closing" ~> pc = "closed"

-----------------------------------------------------------------------------
(* The worker pool implements the abstract superstep.  A worker that has   *)
(* decremented pendingInStep or is about to has done its vertex's part;    *)
(* the parity of superstep says which queue is the inbox.                  *)
At(locs) == {held[w] : w \in {x \in Worker : wpc[x] \in locs}}

Phase == CASE pc \in {"dispatch", "await"} -> "step"
           [] pc = "post" -> "done"
           [] pc = "closed" -> "closed"
           [] OTHER -> "between"
Awake == {v \in vertices : active[v]}
Inbox == [v \in VertexID |-> msgQueue[v][ReadBuffer]]
Outbox == [v \in VertexID |-> msgQueue[v][WriteBuffer]]
Waiting == todo \cup At({"inspect"})
Computing == At({"compute"})

Abstract == INSTANCE Superstep WITH
  Message <- 0 .. MaxRound,
  phase <- Phase, members <- vertices, awake <- Awake,
  inbox <- Inbox, outbox <- Outbox,
  waiting <- Waiting, computing <- Computing

ImplementsSuperstep == Abstract!Spec
=============================================================================
