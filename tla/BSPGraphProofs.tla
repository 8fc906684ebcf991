--------------------------- MODULE BSPGraphProofs ---------------------------
(***************************************************************************)
(* Machine-checked proofs about BSPGraph, for any finite set of vertices   *)
(* and any set of workers.                                                 *)
(***************************************************************************)
EXTENDS BSPGraphInv, FiniteSetTheorems, SequenceTheorems, TLAPS

USE DEF CallerPC, WorkerPC, Outcome, Result, Message, Outside, Buffers

-----------------------------------------------------------------------------
(* What the queue operators do to a queue of messages.                     *)
LEMMA EnqueueLast ==
  ASSUME NEW q \in Seq(Nat), NEW m \in Nat
  PROVE  /\ Enqueue(q, m) \in Seq(Nat)
         /\ Len(Enqueue(q, m)) = Len(q) + 1
         /\ \A i \in 1 .. Len(q) : Enqueue(q, m)[i] = q[i]
         /\ Enqueue(q, m)[Len(q) + 1] = m
  BY AppendProperties DEF Enqueue

LEMMA DiscardAll ==
  ASSUME NEW q \in Seq(Nat)
  PROVE  DiscardMessages(q) \in Seq(Nat) /\ Len(DiscardMessages(q)) = 0
  BY DEF DiscardMessages, EmptyQueue

LEMMA AfterNextPrefix ==
  ASSUME NEW q \in Seq(Nat), Len(q) # 0
  PROVE  /\ AfterNext(q) \in Seq(Nat)
         /\ Len(AfterNext(q)) = Len(q) - 1
         /\ \A i \in 1 .. Len(q) - 1 : AfterNext(q)[i] = q[i]
<1>1. Len(q) \in Nat /\ Len(q) - 1 \in 0 .. Len(q)
  BY LenProperties
<1> DEFINE n == Len(q) - 1
<1>2. n \in Nat /\ 1 \in Int /\ \A i \in 1 .. n : q[i] \in Nat
  BY ElementOfSeq, <1>1
<1> HIDE DEF n
<1>3. /\ SubSeq(q, 1, n) \in Seq(Nat)
      /\ Len(SubSeq(q, 1, n)) = IF 1 <= n THEN n - 1 + 1 ELSE 0
      /\ \A i \in 1 .. n - 1 + 1 : SubSeq(q, 1, n)[i] = q[1 + i - 1]
  BY <1>2, SubSeqProperties
<1>4. AfterNext(q) = SubSeq(q, 1, n) /\ n = Len(q) - 1
  BY DEF AfterNext, n
<1>5. Len(SubSeq(q, 1, n)) = n /\ \A i \in 1 .. n : SubSeq(q, 1, n)[i] = q[i]
  BY <1>2, <1>3
<1> QED BY <1>3, <1>4, <1>5

(* The two buffers of a superstep are the two buffers of a vertex.         *)
LEMMA BufferParity ==
  ASSUME superstep \in Nat
  PROVE  /\ ReadBuffer \in Buffers /\ WriteBuffer \in Buffers
         /\ ReadBuffer # WriteBuffer
         /\ \A b \in Buffers : b = ReadBuffer \/ b = WriteBuffer
  BY DEF ReadBuffer, WriteBuffer

-----------------------------------------------------------------------------
(* The two ways in which a step changes the queues.                        *)
Grown(m) ==      \* some write buffer may have received message m
  /\ msgQueue' \in [VertexID -> [Buffers -> Seq(Message)]]
  /\ \A v \in VertexID : msgQueue'[v][ReadBuffer] = msgQueue[v][ReadBuffer]
  /\ \A v \in VertexID \ vertices : msgQueue'[v] = msgQueue[v]
  /\ \A v \in VertexID, b \in Buffers :
       /\ Len(msgQueue[v][b]) <= Len(msgQueue'[v][b])
       /\ \A i \in 1 .. Len(msgQueue'[v][b]) :
            \/ msgQueue'[v][b][i] = m
            \/ i \in 1 .. Len(msgQueue[v][b]) /\ msgQueue'[v][b][i] = msgQueue[v][b][i]

Shrunk(u) ==     \* the read buffer of u may have lost messages at its tail
  /\ msgQueue' \in [VertexID -> [Buffers -> Seq(Message)]]
  /\ \A v \in VertexID, b \in Buffers :
       /\ v # u \/ b # ReadBuffer => msgQueue'[v][b] = msgQueue[v][b]
       /\ Len(msgQueue'[v][b]) <= Len(msgQueue[v][b])
       /\ \A i \in 1 .. Len(msgQueue'[v][b]) :
            i \in 1 .. Len(msgQueue[v][b]) /\ msgQueue'[v][b][i] = msgQueue[v][b][i]

(* SendMessage only adds its message, and never to a read buffer.          *)
LEMMA SendGrows ==
  ASSUME TypeOK, NEW dst \in VertexID, NEW m \in Nat, SendMessage(dst, m)
  PROVE  Grown(m)
<1>0. /\ superstep \in Nat
      /\ msgQueue \in [VertexID -> [Buffers -> Seq(Nat)]]
  BY DEF TypeOK
<1>a. /\ ReadBuffer \in Buffers /\ WriteBuffer \in Buffers
      /\ ReadBuffer # WriteBuffer
  BY <1>0, BufferParity
<1>b. \A v \in VertexID, b \in Buffers : Len(msgQueue[v][b]) \in Nat
  BY <1>0, LenProperties
<1>1. CASE dst \notin vertices
  <2>1. msgQueue' = msgQueue
    BY <1>1 DEF SendMessage
  <2> QED BY <1>0, <1>b, <2>1 DEF Grown
<1>2. CASE dst \in vertices
  <2> DEFINE q == msgQueue[dst][WriteBuffer]
  <2>1. q \in Seq(Nat)
    BY <1>0, <1>a
  <2>2. msgQueue' = [msgQueue EXCEPT ![dst] = [msgQueue[dst] EXCEPT ![WriteBuffer] = Enqueue(q, m)]]
    BY <1>2, <1>0, <1>a DEF SendMessage
  <2>3. /\ Enqueue(q, m) \in Seq(Nat)
        /\ Len(Enqueue(q, m)) = Len(q) + 1
        /\ \A i \in 1 .. Len(q) : Enqueue(q, m)[i] = q[i]
        /\ Enqueue(q, m)[Len(q) + 1] = m
    BY <2>1, EnqueueLast
  <2>4. msgQueue' \in [VertexID -> [Buffers -> Seq(Nat)]]
    BY <2>2, <2>3, <1>0, <1>a
  <2>5. msgQueue'[dst][WriteBuffer] = Enqueue(q, m)
    BY <2>2, <1>0, <1>a
  <2>6. \A v \in VertexID, b \in Buffers :
          v # dst \/ b # WriteBuffer => msgQueue'[v][b] = msgQueue[v][b]
    BY <2>2, <1>0, <1>a
  <2>7. ASSUME NEW v \in VertexID, NEW b \in Buffers
        PROVE  /\ Len(msgQueue[v][b]) <= Len(msgQueue'[v][b])
               /\ \A i \in 1 .. Len(msgQueue'[v][b]) :
                    \/ msgQueue'[v][b][i] = m
                    \/ i \in 1 .. Len(msgQueue[v][b]) /\ msgQueue'[v][b][i] = msgQueue[v][b][i]
    <3>1. CASE v = dst /\ b = WriteBuffer
      <4>1. Len(q) \in Nat
        BY <2>1, LenProperties
      <4>2. \A i \in 1 .. Len(q) + 1 : i \in 1 .. Len(q) \/ i = Len(q) + 1
        BY <4>1
      <4> HIDE DEF q
      <4> QED BY <3>1, <2>3, <2>5, <4>1, <4>2 DEF q
    <3>2. CASE v # dst \/ b # WriteBuffer
      BY <3>2, <2>6, <1>b
    <3> QED BY <3>1, <3>2
  <2>8. \A v \in VertexID \ vertices : msgQueue'[v] = msgQueue[v]
    BY <1>2, <2>2, <1>0
  <2> QED BY <2>4, <2>6, <2>7, <2>8, <1>a DEF Grown
<1> QED BY <1>1, <1>2

(* What a compute function reads or leaves unread is gone, nothing else.   *)
LEMMA TakeShrinks ==
  ASSUME TypeOK, NEW u \in VertexID, NEW r \in Seq(Nat),
         Len(r) <= Len(msgQueue[u][ReadBuffer]),
         \A i \in 1 .. Len(r) : r[i] = msgQueue[u][ReadBuffer][i],
         msgQueue' = [msgQueue EXCEPT ![u][ReadBuffer] = r]
  PROVE  Shrunk(u) /\ msgQueue'[u][ReadBuffer] = r
<1>0. /\ superstep \in Nat
      /\ msgQueue \in [VertexID -> [Buffers -> Seq(Nat)]]
  BY DEF TypeOK
<1>a. ReadBuffer \in Buffers
  BY <1>0, BufferParity
<1>b. \A v \in VertexID, b \in Buffers : Len(msgQueue[v][b]) \in Nat
  BY <1>0, LenProperties
<1>1. msgQueue' \in [VertexID -> [Buffers -> Seq(Nat)]]
  BY <1>0, <1>a
<1>2. msgQueue'[u][ReadBuffer] = r
  BY <1>0, <1>a
<1>3. \A v \in VertexID, b \in Buffers :
        v # u \/ b # ReadBuffer => msgQueue'[v][b] = msgQueue[v][b]
  BY <1>0, <1>a
<1>4. Len(r) \in Nat
  BY LenProperties
<1>5. ASSUME NEW v \in VertexID, NEW b \in Buffers
      PROVE  /\ Len(msgQueue'[v][b]) <= Len(msgQueue[v][b])
             /\ \A i \in 1 .. Len(msgQueue'[v][b]) :
                  i \in 1 .. Len(msgQueue[v][b]) /\ msgQueue'[v][b][i] = msgQueue[v][b][i]
  <2>1. CASE v = u /\ b = ReadBuffer
    BY <2>1, <1>2, <1>4, <1>b
  <2>2. CASE v # u \/ b # ReadBuffer
    BY <2>2, <1>3, <1>b
  <2> QED BY <2>1, <2>2
<1> QED BY <1>1, <1>2, <1>3, <1>5 DEF Shrunk

(* The two calls of TakeShrinks.                                           *)
LEMMA NextMessageShrinks ==
  ASSUME TypeOK, NEW w \in Worker, held[w] \in VertexID, NextMessage(w)
  PROVE  Shrunk(held[w])
<1> DEFINE q == msgQueue[held[w]][ReadBuffer]
<1>1. q \in Seq(Nat)
  BY BufferParity DEF TypeOK
<1>2. Len(q) # 0 /\ Len(q) \in Nat
  BY <1>1, LenProperties DEF NextMessage, HasUnread, PendingMessages
<1>3. msgQueue' = [msgQueue EXCEPT ![held[w]][ReadBuffer] = AfterNext(q)]
  BY BufferParity DEF NextMessage, TypeOK
<1>4. /\ AfterNext(q) \in Seq(Nat)
      /\ Len(AfterNext(q)) = Len(q) - 1
      /\ \A i \in 1 .. Len(q) - 1 : AfterNext(q)[i] = q[i]
  BY <1>1, <1>2, AfterNextPrefix
<1>5. Len(AfterNext(q)) <= Len(q)
  BY <1>2, <1>4
<1>6. \A i \in 1 .. Len(AfterNext(q)) : AfterNext(q)[i] = q[i]
  BY <1>4
<1> QED BY <1>3, <1>4, <1>5, <1>6, TakeShrinks

LEMMA DiscardShrinks ==
  ASSUME TypeOK, NEW u \in VertexID, DiscardUnread(u)
  PROVE  Shrunk(u) /\ Len(msgQueue'[u][ReadBuffer]) = 0
<1> DEFINE q == msgQueue[u][ReadBuffer]
           r == DiscardMessages(q)
<1>1. q \in Seq(Nat)
  BY BufferParity DEF TypeOK
<1>2. Len(q) \in Nat
  BY <1>1, LenProperties
<1>3. msgQueue' = [msgQueue EXCEPT ![u][ReadBuffer] = r]
  BY BufferParity DEF DiscardUnread, TypeOK
<1>4. r \in Seq(Nat) /\ Len(r) = 0
  BY <1>1, DiscardAll
<1> HIDE DEF r
<1>5. Len(r) <= Len(q) /\ \A i \in 1 .. Len(r) : r[i] = q[i]
  BY <1>2, <1>4
<1> QED BY <1>3, <1>4, <1>5, TakeShrinks

-----------------------------------------------------------------------------
(* Every variable stays in its type.  That pendingInStep stays a natural   *)
(* number is where the rest of the invariant is needed.                    *)
LEMMA FinishCounts ==
  ASSUME StepInv, NEW w \in Worker, Finish(w)
  PROVE  /\ Running /\ held[w] \in vertices
         /\ Unfinished' = Unfinished \ {held[w]}
         /\ IsFiniteSet(Unfinished)
         /\ pendingInStep' \in Nat
         /\ pendingInStep' = Cardinality(Unfinished')
<1> DEFINE v == held[w]
<1>1. Running /\ v \in vertices \ todo
  BY DEF StepInv, Control, Ownership, Busy, Finish
<1>2. v \in Unfinished
  BY DEF Unfinished, At, Finish
<1>3. IsFiniteSet(Unfinished)
  <2>1. Unfinished \subseteq VertexID \cup {NoVertex}
    BY DEF StepInv, TypeOK, Unfinished, At
  <2>2. IsFiniteSet(VertexID \cup {NoVertex})
    BY BSPAssumption, FS_AddElement
  <2> QED BY <2>1, <2>2, FS_Subset
<1>4. Unfinished' = Unfinished \ {v}
  <2>1. todo' = todo /\ v \notin todo
    BY <1>1 DEF Finish, callerVars
  <2>2. \A x \in Worker : x # w => wpc'[x] = wpc[x] /\ held'[x] = held[x]
    BY DEF Finish, StepInv, TypeOK
  <2>3. wpc'[w] \in {"recv", "signal"}
    BY DEF Finish, StepInv, TypeOK
  <2>4. \A x \in Worker : Busy(x) /\ held[x] = v => x = w
    BY DEF Finish, StepInv, Ownership, Busy
  <2> DEFINE At3 == At({"inspect", "compute", "finish"})
  <2>5. At3' = At3 \ {v}
    <3>1. ASSUME NEW u \in At3' PROVE u \in At3 \ {v}
      BY <3>1, <2>2, <2>3, <2>4 DEF At, Busy
    <3>2. ASSUME NEW u \in At3 \ {v} PROVE u \in At3'
      BY <3>2, <2>2 DEF At
    <3> QED BY <3>1, <3>2
  <2> QED BY <2>1, <2>5 DEF Unfinished
<1>5. pendingInStep = Cardinality(Unfinished)
  BY <1>1 DEF StepInv, Count
<1>6. Cardinality(Unfinished \ {v}) = Cardinality(Unfinished) - 1
  BY <1>2, <1>3, FS_RemoveElement
<1>7. Cardinality(Unfinished \ {v}) \in Nat
  BY <1>3, FS_RemoveElement, FS_CardinalityType
<1> QED BY <1>1, <1>3, <1>4, <1>5, <1>6, <1>7 DEF Finish, Done

LEMMA TypeStep == StepInv /\ [Next]_vars => TypeOK'
<1> SUFFICES ASSUME StepInv, [Next]_vars PROVE TypeOK'
  OBVIOUS
<1> USE BSPAssumption DEF countVars, callerVars, workerVars, history, delays
<1>a. TypeOK
  BY DEF StepInv
<1>b. /\ ReadBuffer \in Buffers /\ WriteBuffer \in Buffers
  BY <1>a, BufferParity DEF TypeOK
<1>1. CASE Setup
  <2>1. ASSUME NEW id \in VertexID, addVertex(id) PROVE TypeOK'
    BY <1>a, <2>1 DEF TypeOK, addVertex
  <2>2. ASSUME NEW id \in VertexID, CallerSend(id) PROVE TypeOK'
    <3>1. Grown(Outside)
      BY <1>a, <2>2, SendGrows DEF CallerSend
    <3> QED BY <1>a, <2>2, <3>1 DEF TypeOK, CallerSend, Grown
  <2>3. ASSUME NEW src \in VertexID, NEW dst \in VertexID, AddEdge(src, dst) PROVE TypeOK'
    <3>1. Append(edges[src], dst) \in Seq(VertexID)
      BY <1>a, AppendProperties DEF TypeOK
    <3>2. edges' \in [VertexID -> Seq(VertexID)]
      BY <1>a, <2>3, <3>1 DEF TypeOK, AddEdge
    <3> QED BY <1>a, <2>3, <3>2 DEF TypeOK, AddEdge
  <2>4. CASE NewExecutor
    BY <1>a, <2>4 DEF TypeOK, NewExecutor
  <2>5. CASE Reset
    BY <1>a, <2>5 DEF TypeOK, Reset, ResetGraph, NoQueues, EmptyQueue, StepInv, Control
  <2>6. CASE Close
    BY <1>a, <2>6 DEF TypeOK, Close
  <2> QED BY <1>1, <2>1, <2>2, <2>3, <2>4, <2>5, <2>6 DEF Setup
<1>2. CASE Run
  <2>1. CASE RunToCompletion
    BY <1>a, <2>1 DEF TypeOK, RunToCompletion
  <2>2. CASE BeginStep
    <3>1. Cardinality(vertices) \in Nat
      BY <1>a, FS_Subset, FS_CardinalityType DEF TypeOK
    <3>2. outcome' \in [VertexID -> Outcome]
      BY <2>2 DEF BeginStep
    <3>3. round' \in Nat /\ activeInStep' \in Nat /\ pendingInStep' \in Nat
      BY <1>a, <2>2, <3>1 DEF TypeOK, BeginStep, ResetActiveCount, StepSize
    <3>4. todo' \subseteq vertices' /\ pc' \in CallerPC
      BY <2>2 DEF BeginStep
    <3> QED BY <1>a, <2>2, <3>2, <3>3, <3>4 DEF TypeOK, BeginStep
  <2>3. CASE NextSuperstep
    BY <1>a, <2>3 DEF TypeOK, NextSuperstep, StepIsOver, WriteBuffer
  <2>4. ASSUME NEW e \in {"ctx", "callback"}, BreakBeforeStep(e) PROVE TypeOK'
    BY <1>a, <2>4 DEF TypeOK, BreakBeforeStep
  <2>5. ASSUME NEW e \in Result, EndRun(e) PROVE TypeOK'
    BY <1>a, <2>5 DEF TypeOK, EndRun, StepIsOver, WriteBuffer
  <2>6. ASSUME NEW w \in Worker, Signal(w) PROVE TypeOK'
    <3>1. errCh # << >> => Head(errCh) \in Result /\ Tail(errCh) \in Seq(Result)
      BY <1>a, HeadTailProperties DEF TypeOK
    <3>2. errCh' \in Seq(Result) /\ err' \in Result
      BY <1>a, <2>6, <3>1 DEF TypeOK, Signal
    <3> QED BY <1>a, <2>6, <3>2 DEF TypeOK, Signal
  <2>7. ASSUME NEW w \in Worker, NEW v \in VertexID, Dispatch(w, v) PROVE TypeOK'
    BY <1>a, <2>7 DEF TypeOK, Dispatch
  <2>8. CASE Closed
    BY <1>a, <2>8 DEF TypeOK, Closed, ResetGraph, NoQueues, EmptyQueue, StepInv, Control
  <2> QED BY <1>2, <2>1, <2>2, <2>3, <2>4, <2>5, <2>6, <2>7, <2>8 DEF Run
<1>3. ASSUME NEW w \in Worker, WorkerStep(w) PROVE TypeOK'
  <2>0. Busy(w) => held[w] \in vertices /\ held[w] \in VertexID
    BY <1>a DEF StepInv, Ownership, TypeOK
  <2>1. CASE Inspect(w)
    <3>1. CASE MustCompute(held[w])
      <4>1. /\ activeInStep' = activeInStep + 1 /\ outcome' = outcome
            /\ active' = [active EXCEPT ![held[w]] = TRUE]
            /\ wpc' = [wpc EXCEPT ![w] = "compute"]
        BY <2>1, <3>1 DEF Inspect
      <4>2. active' \in [VertexID -> BOOLEAN] /\ wpc' \in [Worker -> WorkerPC]
        BY <1>a, <4>1 DEF TypeOK
      <4>3. activeInStep' \in Nat
        BY <1>a, <4>1 DEF TypeOK
      <4> QED BY <1>a, <2>1, <4>1, <4>2, <4>3 DEF TypeOK, Inspect
    <3>2. CASE ~MustCompute(held[w])
      <4>1. outcome' \in [VertexID -> Outcome] /\ wpc' \in [Worker -> WorkerPC]
        BY <1>a, <2>1, <3>2 DEF TypeOK, Inspect
      <4> QED BY <1>a, <2>1, <3>2, <4>1 DEF TypeOK, Inspect
    <3> QED BY <3>1, <3>2
  <2>2. CASE NextMessage(w)
    <3>1. Shrunk(held[w])
      BY <1>a, <2>0, <2>2, NextMessageShrinks DEF NextMessage, Busy
    <3> QED BY <1>a, <2>2, <3>1 DEF TypeOK, NextMessage, Shrunk
  <2>3. CASE Freeze(w)
    BY <1>a, <2>3 DEF TypeOK, Freeze
  <2>4. CASE StartSending(w)
    <3>1. PICK dsts \in {edges[held[w]]} \cup {<<d>> : d \in VertexID} :
             out' = [out EXCEPT ![w] = dsts]
      BY <2>4 DEF StartSending
    <3>2. edges[held[w]] \in Seq(VertexID)
      BY <1>a, <2>0, <2>4 DEF TypeOK, StartSending, Busy
    <3>3. \A d \in VertexID : <<d>> \in Seq(VertexID)
      OBVIOUS
    <3>4. dsts \in Seq(VertexID)
      BY <3>1, <3>2, <3>3
    <3>5. out' \in [Worker -> Seq(VertexID)]
      BY <1>a, <3>1, <3>4 DEF TypeOK
    <3> QED BY <1>a, <2>4, <3>5 DEF TypeOK, StartSending
  <2>5. CASE Deliver(w)
    <3>1. /\ Head(out[w]) \in VertexID
          /\ Tail(out[w]) \in Seq(VertexID) /\ << >> \in Seq(VertexID)
      BY <1>a, <2>5, HeadTailProperties DEF TypeOK, Deliver
    <3>2. Grown(round)
      BY <1>a, <2>5, <3>1, SendGrows DEF TypeOK, Deliver
    <3>3. out' \in [Worker -> Seq(VertexID)]
      BY <1>a, <2>5, <3>1 DEF TypeOK, Deliver
    <3> QED BY <1>a, <2>5, <3>2, <3>3 DEF TypeOK, Deliver, Grown
  <2>6. CASE ComputeOK(w)
    <3>1. Shrunk(held[w])
      BY <1>a, <2>0, <2>6, DiscardShrinks DEF ComputeOK, Busy
    <3> QED BY <1>a, <2>6, <3>1 DEF TypeOK, ComputeOK, Shrunk
  <2>7. CASE ComputeFails(w)
    <3>1. errCh' \in Seq(Result)
      BY <1>a, <2>7, AppendProperties DEF TypeOK, ComputeFails, TryEmitError
    <3> QED BY <1>a, <2>7, <3>1 DEF TypeOK, ComputeFails
  <2>8. CASE Finish(w)
    <3>1. pendingInStep' \in Nat
      BY <2>8, FinishCounts
    <3> QED BY <1>a, <2>8, <3>1 DEF TypeOK, Finish, LastOne
  <2>9. CASE WorkerExit(w)
    BY <1>a, <2>9 DEF TypeOK, WorkerExit
  <2> QED BY <1>3, <2>1, <2>2, <2>3, <2>4, <2>5, <2>6, <2>7, <2>8, <2>9 DEF WorkerStep, Compute
<1>4. CASE Terminated \/ UNCHANGED vars
  BY <1>a, <1>4 DEF TypeOK, Terminated, vars
<1> QED BY <1>1, <1>2, <1>3, <1>4 DEF Next

-----------------------------------------------------------------------------
(* For the barrier a step of the system is one of seven kinds.             *)
Quiet ==         \* no step() is running, before and after
  /\ ~Running /\ ~Running'
  /\ todo' = {}
  /\ \A w \in Worker : wpc'[w] \in {"recv", "exited"}

Advances(w) ==   \* worker w goes on with its vertex
  /\ Busy(w) /\ Busy(w)'
  /\ \A x \in Worker : x # w => wpc'[x] = wpc[x]
  /\ pc' = pc /\ vertices' = vertices /\ pendingInStep' = pendingInStep
  /\ todo' = todo /\ held' = held

LEMMA StepKinds ==
  ASSUME StepInv, [Next]_vars
  PROVE  \/ Quiet
         \/ BeginStep /\ vertices # {}
         \/ \E w \in Worker, v \in VertexID : Dispatch(w, v)
         \/ \E w \in Worker : Signal(w)
         \/ \E w \in Worker : Advances(w)
         \/ \E w \in Worker : Finish(w)
         \/ UNCHANGED vars
<1>a. TypeOK /\ Control
  BY DEF StepInv
<1> USE DEF callerVars, workerVars, countVars
<1>1. ASSUME ~Running, ~Running', todo' = todo, wpc' = wpc PROVE Quiet
  BY <1>a, <1>1 DEF Quiet, Control, Running
<1>2. CASE Setup
  <2>1. ASSUME NEW id \in VertexID, addVertex(id) PROVE Quiet
    BY <2>1, <1>1 DEF addVertex, Running
  <2>2. ASSUME NEW id \in VertexID, CallerSend(id) PROVE Quiet
    BY <2>2, <1>1 DEF CallerSend, Running
  <2>3. ASSUME NEW src \in VertexID, NEW dst \in VertexID, AddEdge(src, dst) PROVE Quiet
    BY <2>3, <1>1 DEF AddEdge, Running
  <2>4. CASE NewExecutor
    BY <2>4, <1>1 DEF NewExecutor, Running
  <2>5. CASE Reset
    BY <2>5, <1>1 DEF Reset, Running
  <2>6. CASE Close
    BY <2>6, <1>1 DEF Close, Running
  <2> QED BY <1>2, <2>1, <2>2, <2>3, <2>4, <2>5, <2>6 DEF Setup
<1>3. CASE Run
  <2>1. CASE RunToCompletion
    BY <2>1, <1>1 DEF RunToCompletion, Running
  <2>2. CASE BeginStep
    <3>1. CASE vertices = {}
      BY <2>2, <3>1, <1>a, <1>1 DEF BeginStep, Running, Control
    <3> QED BY <2>2, <3>1
  <2>3. CASE NextSuperstep
    BY <2>3, <1>1 DEF NextSuperstep, Running
  <2>4. ASSUME NEW e \in {"ctx", "callback"}, BreakBeforeStep(e) PROVE Quiet
    BY <2>4, <1>1 DEF BreakBeforeStep, Running
  <2>5. ASSUME NEW e \in Result, EndRun(e) PROVE Quiet
    BY <2>5, <1>1 DEF EndRun, Running
  <2>6. CASE Closed
    BY <2>6, <1>1 DEF Closed, Running
  <2> QED BY <1>3, <2>1, <2>2, <2>3, <2>4, <2>5, <2>6 DEF Run
<1>4. ASSUME NEW w \in Worker, WorkerStep(w)
      PROVE  Quiet \/ Advances(w) \/ Finish(w)
  <2>1. CASE Inspect(w)
    <3>1. wpc' = [wpc EXCEPT ![w] = "compute"] \/ wpc' = [wpc EXCEPT ![w] = "finish"]
      BY <2>1 DEF Inspect
    <3> QED BY <1>a, <2>1, <3>1 DEF TypeOK, Inspect, Advances, Busy
  <2>2. CASE NextMessage(w)
    BY <2>2 DEF NextMessage, Advances, Busy
  <2>3. CASE Freeze(w)
    BY <2>3 DEF Freeze, Advances, Busy
  <2>4. CASE StartSending(w)
    BY <2>4 DEF StartSending, Advances, Busy
  <2>5. CASE Deliver(w)
    BY <2>5 DEF Deliver, Advances, Busy
  <2>6. CASE ComputeOK(w)
    BY <1>a, <2>6 DEF TypeOK, ComputeOK, Advances, Busy
  <2>7. CASE ComputeFails(w)
    BY <1>a, <2>7 DEF TypeOK, ComputeFails, Advances, Busy
  <2>8. CASE WorkerExit(w)
    BY <1>a, <2>8 DEF TypeOK, WorkerExit, Quiet, Running, Control
  <2> QED BY <1>4, <2>1, <2>2, <2>3, <2>4, <2>5, <2>6, <2>7, <2>8 DEF WorkerStep, Compute
<1>5. CASE Terminated
  BY <1>5 DEF Terminated
<1> QED BY <1>2, <1>3, <1>4, <1>5 DEF Next

(* Each kind keeps every vertex with one worker, ...                       *)
LEMMA OwnershipStep == StepInv /\ [Next]_vars => Ownership'
<1> SUFFICES ASSUME StepInv, [Next]_vars PROVE Ownership'
  OBVIOUS
<1>a. TypeOK /\ Ownership /\ Control
  BY DEF StepInv
<1>1. CASE Quiet
  BY <1>1 DEF Quiet, Ownership, Busy
<1>2. CASE BeginStep /\ vertices # {}
  BY <1>a, <1>2 DEF BeginStep, Control, Running, Ownership, Busy, workerVars
<1>3. ASSUME NEW w \in Worker, NEW v \in VertexID, Dispatch(w, v) PROVE Ownership'
  <2>1. /\ wpc'[w] = "inspect" /\ held'[w] = v /\ v \in vertices'
        /\ vertices' = vertices /\ v \in todo /\ todo' = todo \ {v}
        /\ \A x \in Worker : x # w => wpc'[x] = wpc[x] /\ held'[x] = held[x]
    BY <1>a, <1>3 DEF Dispatch, TypeOK
  <2>2. \A x \in Worker : x # w /\ Busy(x)' => held'[x] \in vertices' \ todo /\ held'[x] # v
    BY <1>a, <2>1 DEF Ownership, Busy
  <2>3. \A x \in Worker : Busy(x)' => held'[x] \in vertices' \ todo'
    BY <2>1, <2>2
  <2>4. ASSUME NEW x \in Worker, NEW y \in Worker,
               Busy(x)', Busy(y)', held'[x] = held'[y]
        PROVE  x = y
    BY <1>a, <2>1, <2>2, <2>4 DEF Ownership, Busy
  <2> QED BY <2>3, <2>4 DEF Ownership
<1>4. ASSUME NEW w \in Worker, Signal(w) PROVE Ownership'
  BY <1>a, <1>4 DEF Signal, TypeOK, Ownership, Busy
<1>5. ASSUME NEW w \in Worker, Advances(w) PROVE Ownership'
  BY <1>a, <1>5 DEF Advances, Ownership, Busy
<1>6. ASSUME NEW w \in Worker, Finish(w) PROVE Ownership'
  <2>1. /\ wpc'[w] \in {"recv", "signal"} /\ todo' = todo /\ vertices' = vertices
        /\ \A x \in Worker : x # w => wpc'[x] = wpc[x] /\ held'[x] = held[x]
    BY <1>a, <1>6 DEF Finish, TypeOK, callerVars
  <2> QED BY <1>a, <2>1 DEF Ownership, Busy
<1>7. CASE UNCHANGED vars
  BY <1>a, <1>7 DEF Ownership, Busy, vars, callerVars, workerVars
<1> QED BY <1>1, <1>2, <1>3, <1>4, <1>5, <1>6, <1>7, StepKinds

(* ... keeps the workers at the channels outside of steps, ...             *)
LEMMA ControlStep == StepInv /\ [Next]_vars => Control'
<1> SUFFICES ASSUME StepInv, [Next]_vars PROVE Control'
  OBVIOUS
<1>a. TypeOK /\ Ownership /\ Control /\ Count
  BY DEF StepInv
<1>1. CASE Quiet
  BY <1>1 DEF Quiet, Control, Running
<1>2. CASE BeginStep /\ vertices # {}
  BY <1>2 DEF BeginStep, Control, Running
<1>3. ASSUME NEW w \in Worker, NEW v \in VertexID, Dispatch(w, v) PROVE Control'
  BY <1>3 DEF Dispatch, Control, Running
<1>4. ASSUME NEW w \in Worker, Signal(w) PROVE Control'
  <2>1. Unfinished = {} /\ todo = {}
    BY <1>a, <1>4 DEF Signal, Count, Unfinished
  <2>2. \A x \in Worker : ~Busy(x)
    BY <2>1 DEF Unfinished, At, Busy
  <2>3. \A x \in Worker : x # w => wpc[x] # "signal"
    BY <1>a, <1>4 DEF Signal, Count
  <2>4. \A x \in Worker : wpc'[x] \in {"recv", "exited"}
    BY <1>a, <1>4, <2>2, <2>3 DEF Signal, TypeOK, Busy, WorkerPC
  <2> QED BY <1>4, <2>1, <2>4 DEF Signal, Control, Running
<1>5. ASSUME NEW w \in Worker, Advances(w) PROVE Control'
  BY <1>a, <1>5 DEF Advances, Control, Running, Busy
<1>6. ASSUME NEW w \in Worker, Finish(w) PROVE Control'
  <2>1. Running
    BY <1>6, FinishCounts
  <2> QED BY <1>a, <1>6, <2>1 DEF Finish, Control, Running, callerVars
<1>7. CASE UNCHANGED vars
  BY <1>a, <1>7 DEF Control, Running, vars, callerVars, workerVars
<1> QED BY <1>1, <1>2, <1>3, <1>4, <1>5, <1>6, <1>7, StepKinds

(* ... and keeps the counter equal to the number of unfinished vertices.   *)
LEMMA CountStep == StepInv /\ [Next]_vars => Count'
<1> SUFFICES ASSUME StepInv, [Next]_vars PROVE Count'
  OBVIOUS
<1>a. TypeOK /\ Ownership /\ Control /\ Count
  BY DEF StepInv
<1>1. CASE Quiet
  BY <1>1 DEF Quiet, Count
<1>2. CASE BeginStep /\ vertices # {}
  <2>1. \A w \in Worker : wpc'[w] \in {"recv", "exited"}
    BY <1>a, <1>2 DEF BeginStep, Control, Running, workerVars
  <2>2. Unfinished' = vertices
    BY <1>2, <2>1 DEF BeginStep, Unfinished, At
  <2> QED BY <1>2, <2>1, <2>2 DEF BeginStep, StepSize, Count
<1>3. ASSUME NEW w \in Worker, NEW v \in VertexID, Dispatch(w, v) PROVE Count'
  <2>1. /\ wpc[w] = "recv" /\ wpc'[w] = "inspect" /\ held'[w] = v
        /\ v \in todo /\ todo' = todo \ {v} /\ pendingInStep' = pendingInStep
        /\ \A x \in Worker : x # w => wpc'[x] = wpc[x] /\ held'[x] = held[x]
    BY <1>a, <1>3 DEF Dispatch, TypeOK, countVars
  <2>2. Unfinished' = Unfinished
    <3>1. ASSUME NEW u \in Unfinished PROVE u \in Unfinished'
      BY <2>1, <3>1 DEF Unfinished, At
    <3>2. ASSUME NEW u \in Unfinished' PROVE u \in Unfinished
      BY <2>1, <3>2 DEF Unfinished, At
    <3> QED BY <3>1, <3>2
  <2>3. v \in Unfinished
    BY <2>1 DEF Unfinished
  <2>4. \A x \in Worker : wpc'[x] # "signal"
    BY <1>a, <2>1, <2>3 DEF Count
  <2> QED BY <1>a, <1>3, <2>1, <2>2, <2>4 DEF Count, Running, Dispatch
<1>4. ASSUME NEW w \in Worker, Signal(w) PROVE Count'
  <2>1. \A x \in Worker : wpc'[x] # "signal"
    BY <1>a, <1>4 DEF Signal, TypeOK, Count
  <2> QED BY <1>4, <2>1 DEF Count, Signal, Running
<1>5. ASSUME NEW w \in Worker, Advances(w) PROVE Count'
  <2>1. Unfinished' = Unfinished
    <3>1. ASSUME NEW u \in Unfinished PROVE u \in Unfinished'
      BY <1>5, <3>1 DEF Unfinished, At, Advances, Busy
    <3>2. ASSUME NEW u \in Unfinished' PROVE u \in Unfinished
      BY <1>5, <3>2 DEF Unfinished, At, Advances, Busy
    <3> QED BY <3>1, <3>2
  <2>2. \A x \in Worker : wpc'[x] = "signal" => wpc[x] = "signal"
    BY <1>5 DEF Advances, Busy
  <2> QED BY <1>a, <1>5, <2>1, <2>2 DEF Count, Advances, Running
<1>6. ASSUME NEW w \in Worker, Finish(w) PROVE Count'
  <2>1. /\ held[w] \in Unfinished
        /\ Unfinished' = Unfinished \ {held[w]} /\ IsFiniteSet(Unfinished)
        /\ pendingInStep' = Cardinality(Unfinished')
    BY <1>6, FinishCounts DEF Unfinished, At, Finish
  <2>2. \A x \in Worker : wpc[x] # "signal"
    BY <1>a, <2>1 DEF Count
  <2>3. \A x \in Worker : wpc'[x] = "signal" => x = w /\ pendingInStep' = 0
    BY <1>a, <1>6, <2>2 DEF Finish, TypeOK, LastOne
  <2>4. IsFiniteSet(Unfinished')
    BY <2>1, FS_Subset
  <2>5. pendingInStep' = 0 => Unfinished' = {}
    BY <2>1, <2>4, FS_EmptySet
  <2> QED BY <2>1, <2>3, <2>5 DEF Count
<1>7. CASE UNCHANGED vars
  BY <1>a, <1>7 DEF Count, Running, Unfinished, At, vars, callerVars, workerVars, countVars
<1> QED BY <1>1, <1>2, <1>3, <1>4, <1>5, <1>6, <1>7, StepKinds

-----------------------------------------------------------------------------
(* For the messages and the outcomes a step is one of these kinds.         *)
Away ==          \* to a place outside of a step; a reset may empty the queues
  /\ ~InStep'
  /\ round' = round
  /\ msgQueue' = msgQueue \/ Grown(Outside) \/ msgQueue' = [v \in VertexID |-> NoQueues]

CalledBack ==    \* PostStep sends a message
  /\ pc = "post" /\ pc' = "post"
  /\ Grown(Outside)
  /\ UNCHANGED <<superstep, vertices, active, activeInStep, todo, wpc, held, round, outcome>>

LEMMA StepEffects ==
  ASSUME StepInv, [Next]_vars
  PROVE  \/ Away \/ CalledBack \/ BeginStep
         \/ \E w \in Worker : \/ Signal(w) \/ Finish(w) \/ Inspect(w) \/ Compute(w)
                              \/ \E v \in VertexID : Dispatch(w, v)
         \/ UNCHANGED vars
<1>a. TypeOK
  BY DEF StepInv
<1> USE DEF InStep, callerVars, workerVars, countVars, history, delays
<1>1. CASE Setup
  <2>1. ASSUME NEW id \in VertexID, addVertex(id) PROVE Away
    BY <2>1 DEF addVertex, Away
  <2>2. ASSUME NEW id \in VertexID, CallerSend(id) PROVE Away \/ CalledBack
    <3>1. Grown(Outside)
      BY <1>a, <2>2, SendGrows DEF CallerSend
    <3> QED BY <2>2, <3>1 DEF CallerSend, Away, CalledBack
  <2>3. ASSUME NEW src \in VertexID, NEW dst \in VertexID, AddEdge(src, dst) PROVE Away
    BY <2>3 DEF AddEdge, Away
  <2>4. CASE NewExecutor
    BY <2>4 DEF NewExecutor, Away
  <2>5. CASE Reset
    BY <2>5 DEF Reset, ResetGraph, Away
  <2>6. CASE Close
    BY <2>6 DEF Close, Away
  <2> QED BY <1>1, <2>1, <2>2, <2>3, <2>4, <2>5, <2>6 DEF Setup
<1>2. CASE Run
  <2>1. CASE RunToCompletion
    BY <2>1 DEF RunToCompletion, Away
  <2>2. CASE NextSuperstep
    BY <2>2 DEF NextSuperstep, StepIsOver, Away
  <2>3. ASSUME NEW e \in {"ctx", "callback"}, BreakBeforeStep(e) PROVE Away
    BY <2>3 DEF BreakBeforeStep, Away
  <2>4. ASSUME NEW e \in Result, EndRun(e) PROVE Away
    BY <2>4 DEF EndRun, StepIsOver, Away
  <2>5. CASE Closed
    BY <2>5 DEF Closed, ResetGraph, Away
  <2> QED BY <1>2, <2>1, <2>2, <2>3, <2>4, <2>5 DEF Run
<1>3. ASSUME NEW w \in Worker, WorkerExit(w) PROVE Away
  BY <1>3 DEF WorkerExit, Away
<1>4. CASE Terminated
  BY <1>4 DEF Terminated
<1> QED BY <1>1, <1>2, <1>3, <1>4 DEF Next, WorkerStep

(* The vertices at some places of the loop when one worker moves.          *)
LEMMA AtMoves ==
  ASSUME TypeOK, Ownership, NEW w \in Worker, NEW l \in WorkerPC,
         Busy(w), held' = held, wpc' = [wpc EXCEPT ![w] = l],
         NEW locs \in SUBSET {"inspect", "compute", "finish"}
  PROVE  At(locs)' = IF l \in locs THEN At(locs) \cup {held[w]} ELSE At(locs) \ {held[w]}
<1>1. /\ wpc'[w] = l
      /\ \A x \in Worker : x # w => wpc'[x] = wpc[x] /\ held'[x] = held[x]
  BY DEF TypeOK
<1>2. \A x \in Worker : wpc[x] \in locs /\ held[x] = held[w] => x = w
  BY DEF Ownership, Busy
<1>3. CASE l \in locs
  <2>1. ASSUME NEW u \in At(locs)' PROVE u \in At(locs) \cup {held[w]}
    BY <1>1, <2>1 DEF At
  <2>2. ASSUME NEW u \in At(locs) \cup {held[w]} PROVE u \in At(locs)'
    BY <1>1, <1>3, <2>2 DEF At
  <2> QED BY <1>3, <2>1, <2>2
<1>4. CASE l \notin locs
  <2>1. ASSUME NEW u \in At(locs)' PROVE u \in At(locs) \ {held[w]}
    BY <1>1, <1>2, <1>4, <2>1 DEF At
  <2>2. ASSUME NEW u \in At(locs) \ {held[w]} PROVE u \in At(locs)'
    BY <1>1, <2>2 DEF At
  <2> QED BY <1>4, <2>1, <2>2
<1> QED BY <1>3, <1>4

(* Dispatch, Signal and Finish hand vertices over and touch nothing else.  *)
LEMMA HandOver ==
  ASSUME StepInv, NEW w \in Worker,
         Signal(w) \/ Finish(w) \/ \E v \in VertexID : Dispatch(w, v)
  PROVE  /\ Running
         /\ UNCHANGED <<superstep, vertices, active, msgQueue, activeInStep, round, outcome>>
         /\ At({"compute"})' = At({"compute"})
<1>a. TypeOK /\ Control
  BY DEF StepInv
<1>1. Running
  BY FinishCounts DEF Signal, Dispatch, Running
<1>2. UNCHANGED <<superstep, vertices, active, msgQueue, activeInStep, round, outcome>>
  BY DEF Signal, Finish, Dispatch, history, delays, countVars
<1>3. /\ wpc[w] # "compute" /\ wpc'[w] # "compute"
      /\ \A x \in Worker : x # w => wpc'[x] = wpc[x] /\ held'[x] = held[x]
  BY <1>a DEF TypeOK, Signal, Finish, Dispatch
<1>4. At({"compute"})' = At({"compute"})
  BY <1>3 DEF At
<1> QED BY <1>1, <1>2, <1>4

(* Outcomes are recorded when a vertex passes its compute function.        *)
LEMMA ProgressStep == StepInv /\ [Next]_vars => Progress'
<1> SUFFICES ASSUME StepInv, [Next]_vars PROVE Progress'
  OBVIOUS
<1> DEFINE Front == At({"inspect", "compute"})
<1>a. TypeOK /\ Ownership /\ Control /\ Count /\ Progress
  BY DEF StepInv
<1>b. \A w \in Worker : Busy(w) => Running /\ held[w] \in vertices \ todo
  BY <1>a DEF Ownership, Control, Busy
<1> USE DEF callerVars, workerVars, countVars, history, delays
<1>1. CASE Away
  BY <1>1 DEF Away, InStep, Progress, Running
<1>2. CASE CalledBack
  BY <1>a, <1>2 DEF CalledBack, Progress, Running
<1>3. CASE BeginStep
  <2>1. \A v \in vertices' : v \in todo' /\ outcome'[v] = "none"
    BY <1>a, <1>3 DEF BeginStep, TypeOK
  <2> QED BY <1>3, <2>1 DEF BeginStep, Progress, Running
<1>4. ASSUME NEW w \in Worker, NEW v \in VertexID, Dispatch(w, v) PROVE Progress'
  <2>1. /\ wpc[w] = "recv" /\ wpc'[w] = "inspect" /\ held'[w] = v
        /\ v \in todo /\ todo' = todo \ {v}
        /\ \A x \in Worker : x # w => wpc'[x] = wpc[x] /\ held'[x] = held[x]
    BY <1>a, <1>4 DEF Dispatch, TypeOK
  <2>2. todo' \cup Front' = todo \cup Front
    <3>1. ASSUME NEW u \in todo' \cup Front' PROVE u \in todo \cup Front
      BY <2>1, <3>1 DEF At
    <3>2. ASSUME NEW u \in todo \cup Front PROVE u \in todo' \cup Front'
      BY <2>1, <3>2 DEF At
    <3> QED BY <3>1, <3>2
  <2> QED BY <1>a, <1>4, <2>2 DEF Dispatch, Progress, Running
<1>5. ASSUME NEW w \in Worker, Signal(w) PROVE Progress'
  <2>1. todo \cup Front = {}
    BY <1>a, <1>5 DEF Signal, Count, Unfinished, At
  <2>2. \A v \in vertices : outcome[v] # "none"
    BY <1>a, <1>5, <2>1 DEF Progress, Signal, Running
  <2> QED BY <1>5, <2>2 DEF Signal, Progress, Running
<1>6. ASSUME NEW w \in Worker, Finish(w) PROVE Progress'
  <2>1. Front' = Front
    <3>1. \A x \in Worker : x # w => wpc'[x] = wpc[x] /\ held'[x] = held[x]
      BY <1>a, <1>6 DEF Finish, TypeOK
    <3>2. wpc[w] = "finish" /\ wpc'[w] \in {"signal", "recv"}
      BY <1>a, <1>6 DEF Finish, TypeOK
    <3> QED BY <3>1, <3>2 DEF At
  <2> QED BY <1>a, <1>6, <2>1 DEF Finish, Progress, Running
<1>7. ASSUME NEW w \in Worker, NEW o \in Outcome \ {"none"}, Busy(w),
             wpc[w] \in {"inspect", "compute"}, wpc' = [wpc EXCEPT ![w] = "finish"],
             outcome' = [outcome EXCEPT ![held[w]] = o],
             UNCHANGED <<pc, vertices, todo, held>>
      PROVE  Progress'
  <2>1. Front' = Front \ {held[w]}
    BY <1>a, <1>7, AtMoves
  <2>2. Running /\ held[w] \notin todo
    BY <1>b, <1>7
  <2>3. \A v \in vertices : outcome'[v] = IF v = held[w] THEN o ELSE outcome[v]
    BY <1>a, <1>7 DEF TypeOK
  <2> QED BY <1>a, <1>7, <2>1, <2>2, <2>3 DEF Progress, Running
<1>8. ASSUME NEW w \in Worker, Inspect(w) PROVE Progress'
  <2>1. CASE MustCompute(held[w])
    <3>1. wpc' = [wpc EXCEPT ![w] = "compute"] /\ outcome' = outcome
      BY <1>8, <2>1 DEF Inspect
    <3>2. Front' = Front
      <4>1. Front' = Front \cup {held[w]}
        BY <1>a, <1>8, <3>1, AtMoves DEF Inspect, Busy
      <4>2. held[w] \in Front
        BY <1>8 DEF Inspect, At
      <4> QED BY <4>1, <4>2
    <3> QED BY <1>a, <1>8, <3>1, <3>2 DEF Inspect, Progress, Running
  <2>2. CASE ~MustCompute(held[w])
    BY <1>7, <1>8, <2>2 DEF Inspect, Busy
  <2> QED BY <2>1, <2>2
<1>9. ASSUME NEW w \in Worker, Compute(w) PROVE Progress'
  <2>1. CASE NextMessage(w) \/ Freeze(w) \/ StartSending(w) \/ Deliver(w)
    <3>1. UNCHANGED <<pc, todo, vertices, outcome, wpc, held>>
      BY <2>1 DEF NextMessage, Freeze, StartSending, Deliver
    <3> QED BY <1>a, <3>1 DEF Progress, Running, At
  <2>2. CASE ComputeOK(w)
    BY <1>7, <2>2 DEF ComputeOK, Busy
  <2>3. CASE ComputeFails(w)
    BY <1>7, <2>3 DEF ComputeFails, Busy
  <2> QED BY <1>9, <2>1, <2>2, <2>3 DEF Compute
<1>10. CASE UNCHANGED vars
  BY <1>a, <1>10 DEF Progress, Running, At, vars
<1> QED BY <1>1, <1>2, <1>3, <1>4, <1>5, <1>6, <1>8, <1>9, <1>10, StepEffects

(* What the actions of a compute function do to the queues.                *)
LEMMA ComputeQueues ==
  ASSUME StepInv, NEW w \in Worker, Compute(w)
  PROVE  /\ Running /\ held[w] \in vertices /\ held[w] \in VertexID /\ wpc[w] = "compute"
         /\ UNCHANGED <<superstep, vertices, pc, round, activeInStep, held>>
         /\ msgQueue' = msgQueue \/ Grown(round) \/ Shrunk(held[w])
<1>a. TypeOK /\ Ownership /\ Control
  BY DEF StepInv
<1>0. wpc[w] = "compute"
  BY DEF Compute, NextMessage, Freeze, StartSending, Deliver, ComputeOK, ComputeFails
<1>1. Running /\ held[w] \in vertices /\ held[w] \in VertexID
  BY <1>a, <1>0 DEF Ownership, Control, Busy, TypeOK
<1>2. UNCHANGED <<superstep, vertices, pc, round, activeInStep, held>>
  BY DEF Compute, NextMessage, Freeze, StartSending, Deliver, ComputeOK, ComputeFails,
         callerVars, workerVars, countVars, history, delays
<1> DEFINE Queues == msgQueue' = msgQueue \/ Grown(round) \/ Shrunk(held[w])
<1>3. ASSUME NextMessage(w) PROVE Queues
  BY <1>a, <1>1, <1>3, NextMessageShrinks
<1>4. ASSUME Deliver(w) PROVE Queues
  <2>1. Head(out[w]) \in VertexID
    BY <1>a, <1>4, HeadTailProperties DEF TypeOK, Deliver
  <2> QED BY <1>a, <1>4, <2>1, SendGrows DEF Deliver, TypeOK
<1>5. ASSUME ComputeOK(w) PROVE Queues
  BY <1>a, <1>1, <1>5, DiscardShrinks DEF ComputeOK
<1>6. ASSUME Freeze(w) \/ StartSending(w) \/ ComputeFails(w) PROVE Queues
  BY <1>6 DEF Freeze, StartSending, ComputeFails
<1> QED BY <1>0, <1>1, <1>2, <1>3, <1>4, <1>5, <1>6 DEF Compute

(* Nothing of the current round can be in a read buffer.                   *)
LEMMA StampsStep == StepInv /\ [Next]_vars => Stamps'
<1> SUFFICES ASSUME StepInv, [Next]_vars PROVE Stamps'
  OBVIOUS
<1>a. TypeOK /\ Stamps /\ Control
  BY DEF StepInv
<1>b. /\ ReadBuffer \in Buffers /\ round \in Nat /\ superstep \in Nat
      /\ msgQueue \in [VertexID -> [Buffers -> Seq(Nat)]]
  BY <1>a, BufferParity DEF TypeOK
<1>c. \A v \in VertexID, b \in Buffers : \A i \in 1 .. Len(msgQueue[v][b]) :
        msgQueue[v][b][i] \in Nat /\ msgQueue[v][b][i] <= round
  BY <1>a, <1>b, ElementOfSeq DEF Stamps
<1>1. CASE Away
  <2>1. CASE msgQueue' = [v \in VertexID |-> NoQueues]
    <3>1. \A v \in VertexID, b \in Buffers : Len(msgQueue'[v][b]) = 0
      BY <2>1 DEF NoQueues, EmptyQueue
    <3> QED BY <1>1, <3>1 DEF Away, Stamps, InStep, Running
  <2>2. CASE Grown(Outside)
    <3>1. \A v \in VertexID, b \in Buffers : \A i \in 1 .. Len(msgQueue'[v][b]) :
            msgQueue'[v][b][i] <= round
      BY <1>b, <1>c, <2>2 DEF Grown
    <3> QED BY <1>1, <3>1 DEF Away, Stamps, InStep, Running
  <2>3. CASE msgQueue' = msgQueue
    BY <1>1, <1>c, <2>3 DEF Away, Stamps, InStep, Running
  <2> QED BY <1>1, <2>1, <2>2, <2>3 DEF Away
<1>2. CASE CalledBack
  <2>1. \A v \in VertexID, b \in Buffers : \A i \in 1 .. Len(msgQueue'[v][b]) :
          msgQueue'[v][b][i] <= round
    BY <1>b, <1>c, <1>2 DEF CalledBack, Grown
  <2> QED BY <1>2, <1>a, <2>1 DEF CalledBack, Stamps, InStep, Running
<1>3. CASE BeginStep
  <2>1. round' = round + 1 /\ msgQueue' = msgQueue /\ ReadBuffer' = ReadBuffer
    BY <1>3 DEF BeginStep, ReadBuffer
  <2>2. \A v \in VertexID, b \in Buffers : \A i \in 1 .. Len(msgQueue'[v][b]) :
          msgQueue'[v][b][i] < round'
    BY <2>1, <1>b, <1>c
  <2>3. \A v \in VertexID, b \in Buffers : \A i \in 1 .. Len(msgQueue'[v][b]) :
          msgQueue'[v][b][i] <= round'
    BY <2>1, <1>b, <1>c
  <2> QED BY <2>1, <2>2, <2>3, <1>b DEF Stamps
<1>4. ASSUME NEW w \in Worker,
             Signal(w) \/ Finish(w) \/ \E v \in VertexID : Dispatch(w, v)
      PROVE  Stamps'
  <2>1. /\ Running /\ msgQueue' = msgQueue /\ round' = round /\ superstep' = superstep
    BY <1>4, HandOver
  <2> QED BY <2>1, <1>a DEF Stamps, ReadBuffer, InStep, Running
<1>5. ASSUME NEW w \in Worker, Inspect(w) PROVE Stamps'
  BY <1>a, <1>5 DEF Inspect, Stamps, ReadBuffer, InStep, Running, callerVars
<1>6. ASSUME NEW w \in Worker, Compute(w) PROVE Stamps'
  <2>1. /\ Running /\ UNCHANGED <<superstep, pc, round>>
        /\ msgQueue' = msgQueue \/ Grown(round) \/ Shrunk(held[w])
    BY <1>6, ComputeQueues
  <2>2. ReadBuffer' = ReadBuffer /\ Running' /\ InStep /\ InStep'
    BY <2>1 DEF ReadBuffer, Running, InStep
  <2>3. CASE msgQueue' = msgQueue
    BY <2>1, <2>2, <2>3, <1>a DEF Stamps
  <2>4. CASE Grown(round)
    <3>1. \A v \in VertexID, b \in Buffers : \A i \in 1 .. Len(msgQueue'[v][b]) :
            msgQueue'[v][b][i] <= round
      BY <2>4, <1>b, <1>c DEF Grown
    <3> QED BY <2>1, <2>2, <2>4, <3>1, <1>a DEF Stamps, Grown
  <2>5. CASE Shrunk(held[w])
    <3>1. \A v \in VertexID, b \in Buffers : \A i \in 1 .. Len(msgQueue'[v][b]) :
            i \in 1 .. Len(msgQueue[v][b]) /\ msgQueue'[v][b][i] = msgQueue[v][b][i]
      BY <2>5 DEF Shrunk
    <3>2. \A v \in VertexID, b \in Buffers : \A i \in 1 .. Len(msgQueue'[v][b]) :
            msgQueue'[v][b][i] <= round
      BY <3>1, <1>c
    <3>3. \A v \in VertexID : \A i \in 1 .. Len(msgQueue'[v][ReadBuffer]) :
            msgQueue'[v][ReadBuffer][i] < round
      BY <2>1, <3>1, <1>a, <1>b DEF Stamps
    <3> QED BY <2>1, <2>2, <3>2, <3>3, <1>a DEF Stamps
  <2> QED BY <2>1, <2>3, <2>4, <2>5
<1>7. CASE UNCHANGED vars
  BY <1>a, <1>7 DEF Stamps, ReadBuffer, InStep, Running, vars, callerVars, history, delays
<1> QED BY <1>1, <1>2, <1>3, <1>4, <1>5, <1>6, <1>7, StepEffects

(* A vertex gets its outcome, unless it failed, with its mail read.        *)
LEMMA DrainedStep == StepInv /\ [Next]_vars => Drained'
<1> SUFFICES ASSUME StepInv, [Next]_vars PROVE Drained'
  OBVIOUS
<1>a. TypeOK /\ Ownership /\ Control /\ Drained
  BY DEF StepInv
<1>b. /\ ReadBuffer \in Buffers /\ vertices \subseteq VertexID
      /\ msgQueue \in [VertexID -> [Buffers -> Seq(Nat)]]
      /\ \A v \in VertexID, b \in Buffers : Len(msgQueue[v][b]) \in Nat
  BY <1>a, BufferParity, LenProperties DEF TypeOK
<1>1. CASE Away
  BY <1>1 DEF Away, Drained
<1>2. CASE CalledBack
  BY <1>a, <1>b, <1>2 DEF CalledBack, Grown, Drained, InStep, ReadBuffer
<1>3. CASE BeginStep
  BY <1>b, <1>3 DEF BeginStep, Drained
<1>4. ASSUME NEW w \in Worker,
             Signal(w) \/ Finish(w) \/ \E v \in VertexID : Dispatch(w, v)
      PROVE  Drained'
  BY <1>a, <1>4, HandOver DEF Drained, ReadBuffer, InStep, Running
<1>5. ASSUME NEW w \in Worker, Inspect(w) PROVE Drained'
  <2>1. held[w] \in vertices /\ UNCHANGED <<superstep, vertices, msgQueue, pc>>
    BY <1>a, <1>5 DEF Inspect, Ownership, Busy, callerVars
  <2>2. CASE MustCompute(held[w])
    BY <1>a, <1>5, <2>1, <2>2 DEF Inspect, Drained, ReadBuffer, InStep
  <2>3. CASE ~MustCompute(held[w])
    <3>1. Len(msgQueue[held[w]][ReadBuffer]) = 0
      BY <2>3 DEF MustCompute, HasUnread, PendingMessages
    <3>2. \A v \in vertices : v # held[w] => outcome'[v] = outcome[v]
      BY <1>a, <1>5, <2>3 DEF Inspect, TypeOK
    <3>3. InStep
      BY <1>a, <1>5 DEF Inspect, Control, Running, InStep
    <3> QED BY <1>a, <2>1, <3>1, <3>2, <3>3 DEF Drained, ReadBuffer, InStep
  <2> QED BY <2>2, <2>3
<1>6. ASSUME NEW w \in Worker, Compute(w) PROVE Drained'
  <2>1. /\ Running /\ held[w] \in vertices /\ held[w] \in VertexID
        /\ UNCHANGED <<superstep, vertices, pc>>
        /\ msgQueue' = msgQueue \/ Grown(round) \/ Shrunk(held[w])
    BY <1>6, ComputeQueues
  <2>2. ReadBuffer' = ReadBuffer /\ InStep
    BY <2>1 DEF ReadBuffer, Running, InStep
  <2>3. \A v \in vertices :
          Len(msgQueue[v][ReadBuffer]) = 0 => Len(msgQueue'[v][ReadBuffer]) = 0
    <3>1. CASE msgQueue' = msgQueue
      BY <3>1
    <3>2. CASE Grown(round)
      BY <3>2, <1>b DEF Grown
    <3>3. CASE Shrunk(held[w])
      <4>1. \A v \in vertices : Len(msgQueue'[v][ReadBuffer]) <= Len(msgQueue[v][ReadBuffer])
        BY <3>3, <1>b DEF Shrunk
      <4>2. \A v \in vertices : Len(msgQueue'[v][ReadBuffer]) \in Nat
        BY <3>3, <1>b, LenProperties DEF Shrunk
      <4> QED BY <4>1, <4>2, <1>b
    <3> QED BY <2>1, <3>1, <3>2, <3>3
  <2>4. CASE ComputeOK(w)
    <3>1. Len(msgQueue'[held[w]][ReadBuffer]) = 0
      BY <1>a, <2>1, <2>4, DiscardShrinks DEF ComputeOK
    <3>2. \A v \in vertices : v # held[w] => outcome'[v] = outcome[v]
      BY <1>a, <2>4 DEF ComputeOK, TypeOK
    <3> QED BY <1>a, <2>1, <2>2, <2>3, <3>1, <3>2 DEF Drained
  <2>5. CASE ComputeFails(w)
    <3>1. \A v \in vertices : outcome'[v] = IF v = held[w] THEN "failed" ELSE outcome[v]
      BY <1>a, <2>5 DEF ComputeFails, TypeOK
    <3> QED BY <1>a, <2>1, <2>2, <2>3, <3>1 DEF Drained
  <2>6. CASE NextMessage(w) \/ Freeze(w) \/ StartSending(w) \/ Deliver(w)
    <3>1. outcome' = outcome
      BY <2>6 DEF NextMessage, Freeze, StartSending, Deliver, history, delays
    <3> QED BY <1>a, <2>1, <2>2, <2>3, <3>1 DEF Drained
  <2> QED BY <1>6, <2>4, <2>5, <2>6 DEF Compute
<1>7. CASE UNCHANGED vars
  BY <1>a, <1>7 DEF Drained, ReadBuffer, InStep, vars, callerVars, history, delays
<1> QED BY <1>1, <1>2, <1>3, <1>4, <1>5, <1>6, <1>7, StepEffects

(* activeInStep and the set of vertices it counts grow together.           *)
LEMMA ActiveCountStep == StepInv /\ [Next]_vars => ActiveCount'
<1> SUFFICES ASSUME StepInv, [Next]_vars PROVE ActiveCount'
  OBVIOUS
<1> DEFINE Unsent == \A v \in VertexID, b \in Buffers :
                       \A i \in 1 .. Len(msgQueue[v][b]) : msgQueue[v][b][i] # round
<1>a. TypeOK /\ Ownership /\ Control /\ Progress /\ Stamps /\ ActiveCount
  BY DEF StepInv
<1>b. /\ ReadBuffer \in Buffers /\ vertices \subseteq VertexID /\ round \in Nat
      /\ msgQueue \in [VertexID -> [Buffers -> Seq(Nat)]]
  BY <1>a, BufferParity DEF TypeOK
<1>c. Computed \subseteq VertexID \cup {NoVertex} /\ IsFiniteSet(Computed)
  <2>1. Computed \subseteq VertexID \cup {NoVertex}
    BY <1>a DEF TypeOK, Computed, At
  <2>2. IsFiniteSet(VertexID \cup {NoVertex})
    BY BSPAssumption, FS_AddElement
  <2> QED BY <2>1, <2>2, FS_Subset
<1>1. CASE Away
  BY <1>1 DEF Away, ActiveCount
<1>2. CASE CalledBack
  <2>1. Computed' = Computed /\ InStep /\ round > 0
    BY <1>a, <1>2 DEF CalledBack, Computed, At, InStep, Stamps
  <2>2. Computed = {} => Unsent'
    <3>1. /\ round' = round /\ round # Outside
          /\ \A v \in VertexID, b \in Buffers : \A i \in 1 .. Len(msgQueue'[v][b]) :
               \/ msgQueue'[v][b][i] = Outside
               \/ i \in 1 .. Len(msgQueue[v][b]) /\ msgQueue'[v][b][i] = msgQueue[v][b][i]
      BY <1>b, <1>2, <2>1 DEF CalledBack, Grown
    <3> QED BY <1>a, <2>1, <3>1 DEF ActiveCount
  <2> QED BY <1>a, <1>2, <2>1, <2>2 DEF CalledBack, ActiveCount
<1>3. CASE BeginStep
  <2>1. /\ \A v \in vertices' : outcome'[v] = "none"
        /\ \A w \in Worker : wpc'[w] # "compute"
        /\ activeInStep' = 0 /\ round' = round + 1 /\ msgQueue' = msgQueue
    BY <1>a, <1>b, <1>3 DEF BeginStep, ResetActiveCount, Control, Running, workerVars
  <2>2. Computed' = {}
    BY <2>1 DEF Computed, At
  <2>3. Cardinality({}) = 0
    BY FS_EmptySet
  <2>4. Unsent'
    <3>1. \A v \in VertexID, b \in Buffers : \A i \in 1 .. Len(msgQueue[v][b]) :
            msgQueue[v][b][i] \in Nat /\ msgQueue[v][b][i] <= round
      BY <1>a, <1>b, ElementOfSeq DEF Stamps
    <3> QED BY <1>b, <2>1, <3>1
  <2> QED BY <2>1, <2>2, <2>3, <2>4 DEF ActiveCount
<1>4. ASSUME NEW w \in Worker,
             Signal(w) \/ Finish(w) \/ \E v \in VertexID : Dispatch(w, v)
      PROVE  ActiveCount'
  <2>1. /\ InStep /\ At({"compute"})' = At({"compute"})
        /\ UNCHANGED <<vertices, active, msgQueue, activeInStep, round, outcome>>
    BY <1>4, HandOver DEF InStep, Running
  <2>2. Computed' = Computed
    BY <2>1 DEF Computed
  <2> QED BY <1>a, <2>1, <2>2 DEF ActiveCount
<1>5. ASSUME NEW w \in Worker, Inspect(w) PROVE ActiveCount'
  <2> DEFINE v == held[w]
  <2>1. /\ Busy(w) /\ Running /\ InStep /\ v \in vertices /\ v \in VertexID
        /\ UNCHANGED <<vertices, msgQueue, round, held>>
    BY <1>a, <1>b, <1>5 DEF Inspect, Ownership, Control, Busy, Running, InStep, workerVars
  <2>2. outcome[v] = "none"
    BY <1>a, <1>5, <2>1 DEF Progress, At, Inspect
  <2>3. v \notin At({"compute"})
    BY <1>a, <1>5 DEF Inspect, At, Ownership, Busy
  <2>4. v \notin Computed
    BY <2>2, <2>3 DEF Computed
  <2>5. CASE MustCompute(v)
    <3>1. /\ wpc' = [wpc EXCEPT ![w] = "compute"] /\ outcome' = outcome
          /\ activeInStep' = activeInStep + 1 /\ active' = [active EXCEPT ![v] = TRUE]
      BY <1>5, <2>5 DEF Inspect
    <3>2. At({"compute"})' = At({"compute"}) \cup {v}
      BY <1>a, <2>1, <3>1, AtMoves
    <3>3. Computed' = Computed \cup {v}
      BY <2>1, <3>1, <3>2 DEF Computed
    <3>4. Cardinality(Computed') = Cardinality(Computed) + 1
      BY <1>c, <2>4, <3>3, FS_AddElement
    <3>5. \A u \in vertices : outcome'[u] = "skipped" => active'[u] = active[u]
      BY <1>a, <1>b, <2>2, <3>1 DEF TypeOK
    <3> QED BY <1>a, <2>1, <3>1, <3>3, <3>4, <3>5 DEF ActiveCount
  <2>6. CASE ~MustCompute(v)
    <3>1. /\ wpc' = [wpc EXCEPT ![w] = "finish"] /\ activeInStep' = activeInStep
          /\ outcome' = [outcome EXCEPT ![v] = "skipped"] /\ active' = active
          /\ ~active[v]
      BY <1>5, <2>6 DEF Inspect, MustCompute
    <3>2. At({"compute"})' = At({"compute"})
      <4>1. At({"compute"})' = At({"compute"}) \ {v}
        BY <1>a, <2>1, <3>1, AtMoves
      <4> QED BY <2>3, <4>1
    <3>3. \A u \in vertices : outcome'[u] = IF u = v THEN "skipped" ELSE outcome[u]
      BY <1>a, <1>b, <3>1 DEF TypeOK
    <3>4. Computed' = Computed
      BY <2>1, <2>2, <3>2, <3>3 DEF Computed
    <3> QED BY <1>a, <2>1, <3>1, <3>3, <3>4 DEF ActiveCount
  <2> QED BY <2>5, <2>6
<1>6. ASSUME NEW w \in Worker, Compute(w) PROVE ActiveCount'
  <2> DEFINE v == held[w]
  <2>1. /\ Running /\ InStep /\ v \in vertices /\ v \in VertexID
        /\ wpc[w] = "compute" /\ Busy(w)
        /\ UNCHANGED <<vertices, pc, round, activeInStep, held>>
        /\ msgQueue' = msgQueue \/ Grown(round) \/ Shrunk(v)
    BY <1>6, ComputeQueues DEF Running, InStep, Busy
  <2>2. v \in Computed
    BY <2>1 DEF Computed, At
  <2>3. ASSUME NEW o \in {"ok", "failed"}, wpc' = [wpc EXCEPT ![w] = "finish"],
               outcome' = [outcome EXCEPT ![v] = o], active' = active
        PROVE  ActiveCount'
    <3>1. At({"compute"})' = At({"compute"}) \ {v}
      BY <1>a, <2>1, <2>3, AtMoves
    <3>2. \A u \in vertices : outcome'[u] = IF u = v THEN o ELSE outcome[u]
      BY <1>a, <1>b, <2>3 DEF TypeOK
    <3>3. Computed' = Computed
      BY <2>1, <2>2, <3>1, <3>2 DEF Computed
    <3> QED BY <1>a, <2>1, <2>2, <2>3, <3>2, <3>3 DEF ActiveCount
  <2>4. CASE ComputeOK(w)
    BY <2>3, <2>4 DEF ComputeOK
  <2>5. CASE ComputeFails(w)
    BY <2>3, <2>5 DEF ComputeFails
  <2>6. CASE NextMessage(w) \/ Freeze(w) \/ StartSending(w) \/ Deliver(w)
    <3>1. wpc' = wpc /\ outcome' = outcome
      BY <2>6 DEF NextMessage, Freeze, StartSending, Deliver, workerVars, history, delays
    <3>2. \A u \in vertices : ~active[u] => ~active'[u]
      BY <1>a, <1>b, <2>6 DEF NextMessage, Freeze, StartSending, Deliver, TypeOK
    <3>3. Computed' = Computed
      BY <2>1, <3>1 DEF Computed, At
    <3> QED BY <1>a, <2>1, <2>2, <3>1, <3>2, <3>3 DEF ActiveCount
  <2> QED BY <1>6, <2>4, <2>5, <2>6 DEF Compute
<1>7. CASE UNCHANGED vars
  BY <1>a, <1>7 DEF ActiveCount, InStep, Computed, At, vars, callerVars, workerVars,
                    countVars, history, delays
<1> QED BY <1>1, <1>2, <1>3, <1>4, <1>5, <1>6, <1>7, StepEffects

(* For the two buffers a step is one of these kinds.                       *)
Emptied == msgQueue' = [v \in VertexID |-> NoQueues]
Untouched ==     \* on the way to a step, in it, or from it to its end
  /\ UNCHANGED <<msgQueue, delays>> /\ vertices \subseteq vertices'
  /\ InStep => InStep' /\ UNCHANGED <<superstep, round>>
Exchange ==      \* the step is over
  pc = "post" /\ StepIsOver /\ UNCHANGED <<msgQueue, vertices>>
InPlace == UNCHANGED <<superstep, vertices, pc, round, delays>>
Sends == InPlace /\ (Grown(Outside) \/ (InStep /\ Grown(round)))
Reads == InPlace /\ \E u \in VertexID : Shrunk(u)

LEMMA BufferEffects ==
  ASSUME StepInv, [Next]_vars
  PROVE  Emptied \/ Untouched \/ Exchange \/ Sends \/ Reads
<1>a. TypeOK
  BY DEF StepInv
<1> USE DEF InStep, callerVars, workerVars, countVars, history, delays
<1>1. CASE Setup
  <2>1. ASSUME NEW id \in VertexID, addVertex(id) PROVE Untouched
    BY <2>1 DEF addVertex, Untouched
  <2>2. ASSUME NEW id \in VertexID, CallerSend(id) PROVE Sends
    <3>1. Grown(Outside)
      BY <1>a, <2>2, SendGrows DEF CallerSend
    <3>2. InPlace
      BY <2>2 DEF CallerSend, InPlace
    <3> QED BY <3>1, <3>2 DEF Sends
  <2>3. ASSUME NEW src \in VertexID, NEW dst \in VertexID, AddEdge(src, dst) PROVE Untouched
    BY <2>3 DEF AddEdge, Untouched
  <2>4. CASE NewExecutor \/ Close
    BY <2>4 DEF NewExecutor, Close, Untouched
  <2>5. CASE Reset
    BY <2>5 DEF Reset, ResetGraph, Emptied
  <2> QED BY <1>1, <2>1, <2>2, <2>3, <2>4, <2>5 DEF Setup
<1>2. CASE Run
  <2>1. CASE RunToCompletion
    BY <2>1 DEF RunToCompletion, Untouched
  <2>2. CASE NextSuperstep
    BY <2>2 DEF NextSuperstep, StepIsOver, Exchange
  <2>3. ASSUME NEW e \in {"ctx", "callback"}, BreakBeforeStep(e) PROVE Untouched
    BY <2>3 DEF BreakBeforeStep, Untouched
  <2>4. ASSUME NEW e \in Result, EndRun(e) PROVE Exchange
    BY <2>4 DEF EndRun, StepIsOver, Exchange
  <2>5. CASE Closed
    BY <2>5 DEF Closed, ResetGraph, Emptied
  <2>6. CASE BeginStep
    BY <2>6 DEF BeginStep, Untouched
  <2>7. ASSUME NEW w \in Worker, Signal(w) PROVE Untouched
    BY <2>7 DEF Signal, Untouched
  <2>8. ASSUME NEW w \in Worker, NEW v \in VertexID, Dispatch(w, v) PROVE Untouched
    BY <2>8 DEF Dispatch, Untouched
  <2> QED BY <1>2, <2>1, <2>2, <2>3, <2>4, <2>5, <2>6, <2>7, <2>8 DEF Run
<1>3. ASSUME NEW w \in Worker, Inspect(w) \/ Finish(w) \/ WorkerExit(w) PROVE Untouched
  BY <1>3 DEF Inspect, Finish, WorkerExit, Untouched
<1>4. ASSUME NEW w \in Worker, Compute(w) PROVE Untouched \/ Sends \/ Reads
  <2>1. /\ InStep /\ held[w] \in VertexID
        /\ UNCHANGED <<superstep, vertices, pc, round>>
        /\ msgQueue' = msgQueue \/ Grown(round) \/ Shrunk(held[w])
    BY <1>4, ComputeQueues DEF Running
  <2>2. UNCHANGED delays
    BY <1>4 DEF Compute, NextMessage, Freeze, StartSending, Deliver, ComputeOK, ComputeFails
  <2> QED BY <2>1, <2>2 DEF Untouched, InPlace, Sends, Reads
<1>5. CASE Terminated \/ UNCHANGED vars
  BY <1>5 DEF Terminated, vars, Untouched
<1> QED BY <1>1, <1>2, <1>3, <1>4, <1>5 DEF Next, WorkerStep

(* The buffer a step has read gets no message of an earlier step before it *)
(* is the one to be read again.                                            *)
LEMMA ExchangedStep == StepInv /\ [Next]_vars => Exchanged'
<1> SUFFICES ASSUME StepInv, [Next]_vars PROVE Exchanged'
  OBVIOUS
<1>a. TypeOK /\ Exchanged
  BY DEF StepInv
<1>b. /\ ReadBuffer \in Buffers /\ due \in Buffers /\ 1 - due \in Buffers
      /\ vertices \subseteq VertexID
      /\ \A v \in VertexID, b \in Buffers : Len(msgQueue[v][b]) \in Nat
  BY <1>a, BufferParity, LenProperties DEF TypeOK
<1>1. CASE Emptied
  <2>1. \A v \in VertexID, b \in Buffers : Len(msgQueue'[v][b]) = 0
    BY <1>1 DEF Emptied, NoQueues, EmptyQueue
  <2>2. due' = 0 \/ due' = 1
    BY TypeStep DEF TypeOK
  <2>3. 1 - due' \in Buffers
    BY <2>2
  <2>4. \A v \in VertexID : \A i \in 1 .. Len(msgQueue'[v][1 - due']) : FALSE
    BY <2>1, <2>3
  <2> QED BY <2>1, <2>4 DEF Exchanged
<1>2. CASE Untouched
  <2>1. OnTime /\ InStep => OnTime'
    BY <1>2 DEF Untouched, OnTime, ReadBuffer, delays
  <2> QED BY <1>a, <1>2, <2>1 DEF Untouched, Exchanged, delays
<1>3. CASE Exchange
  <2>0. 1 - WriteBuffer = ReadBuffer
    <3>1. superstep \in Nat
      BY <1>a DEF TypeOK
    <3>2. /\ superstep % 2 = 0 => (superstep + 1) % 2 = 1
          /\ superstep % 2 = 1 => (superstep + 1) % 2 = 0
          /\ superstep % 2 = 0 \/ superstep % 2 = 1
      BY <3>1
    <3> QED BY <3>2 DEF ReadBuffer, WriteBuffer
  <2>1. /\ due' = WriteBuffer /\ 1 - due' = ReadBuffer
        /\ kept' = {v \in vertices : outcome[v] = "failed" /\ HasUnread(v)}
    BY <1>3, <2>0 DEF Exchange, StepIsOver
  <2>2. \A v \in VertexID \ kept' : Len(msgQueue[v][ReadBuffer]) = 0
    <3>1. \A v \in vertices : outcome[v] \in {"skipped", "ok", "failed"}
      BY <1>3 DEF StepInv, Progress, TypeOK, Exchange
    <3>2. \A v \in vertices : outcome[v] \in {"skipped", "ok"} => Len(msgQueue[v][ReadBuffer]) = 0
      BY <1>3 DEF StepInv, Drained, InStep, Exchange
    <3>3. \A v \in vertices \ kept' : Len(msgQueue[v][ReadBuffer]) = 0
      BY <2>1, <3>1, <3>2 DEF HasUnread, PendingMessages
    <3> QED BY <1>a, <1>b, <3>3 DEF Exchanged
  <2> QED BY <1>a, <1>3, <2>1, <2>2 DEF Exchange, Exchanged
<1>4. CASE Sends
  <2>1. UNCHANGED <<ReadBuffer, OnTime, InStep>>
    BY <1>4 DEF Sends, InPlace, ReadBuffer, OnTime, InStep, delays
  <2>2. \A v \in VertexID \ vertices', b \in Buffers : Len(msgQueue'[v][b]) = 0
    BY <1>a, <1>4 DEF Sends, InPlace, Grown, Exchanged
  <2>3. ASSUME NEW v \in VertexID \ kept, NEW i \in 1 .. Len(msgQueue'[v][1 - due])
        PROVE  \/ msgQueue'[v][1 - due][i] = Outside
               \/ InStep /\ OnTime /\ msgQueue'[v][1 - due][i] = round
    <3>1. CASE i \in 1 .. Len(msgQueue[v][1 - due]) /\ msgQueue'[v][1 - due][i] = msgQueue[v][1 - due][i]
      BY <1>a, <3>1 DEF Exchanged
    <3>2. CASE Grown(Outside)
      BY <1>b, <3>1, <3>2 DEF Grown
    <3>3. CASE InStep /\ Grown(round) /\ OnTime
      BY <1>b, <3>1, <3>3 DEF Grown
    <3>4. CASE InStep /\ Grown(round) /\ ~OnTime
      <4>1. 1 - due = ReadBuffer
        BY <1>b, <3>4 DEF OnTime
      <4> QED BY <3>1, <3>4, <4>1 DEF Grown
    <3> QED BY <1>4, <3>2, <3>3, <3>4 DEF Sends
  <2> QED BY <1>4, <2>1, <2>2, <2>3 DEF Sends, InPlace, Exchanged, delays
<1>5. CASE Reads
  <2> PICK u \in VertexID : Shrunk(u)
    BY <1>5 DEF Reads
  <2>1. UNCHANGED <<ReadBuffer, OnTime, InStep>>
    BY <1>5 DEF Reads, InPlace, ReadBuffer, OnTime, InStep, delays
  <2>2. ASSUME NEW v \in VertexID \ vertices', NEW b \in Buffers
        PROVE  Len(msgQueue'[v][b]) = 0
    <3>1. Len(msgQueue[v][b]) = 0 /\ Len(msgQueue'[v][b]) <= Len(msgQueue[v][b])
      BY <1>a, <1>5, <2>2 DEF Reads, InPlace, Shrunk, Exchanged
    <3>2. Len(msgQueue'[v][b]) \in Nat
      BY <2>2, LenProperties DEF Shrunk
    <3> QED BY <3>1, <3>2
  <2>3. \A v \in VertexID \ kept : \A i \in 1 .. Len(msgQueue'[v][1 - due]) :
          \/ msgQueue'[v][1 - due][i] = Outside
          \/ InStep /\ OnTime /\ msgQueue'[v][1 - due][i] = round
    <3>1. \A v \in VertexID : \A i \in 1 .. Len(msgQueue'[v][1 - due]) :
            /\ i \in 1 .. Len(msgQueue[v][1 - due])
            /\ msgQueue'[v][1 - due][i] = msgQueue[v][1 - due][i]
      BY <1>b DEF Shrunk
    <3> QED BY <1>a, <3>1 DEF Exchanged
  <2> QED BY <1>5, <2>1, <2>2, <2>3 DEF Reads, InPlace, Exchanged, delays
<1> QED BY <1>1, <1>2, <1>3, <1>4, <1>5, BufferEffects

-----------------------------------------------------------------------------
LEMMA StepInvInit == Init => StepInv
<1> SUFFICES ASSUME Init PROVE StepInv
  OBVIOUS
<1> USE DEF Init
<1>1. TypeOK
  BY BSPAssumption DEF TypeOK, NoQueues, EmptyQueue, history, delays
<1>2. Ownership /\ Control /\ Progress /\ Drained /\ ActiveCount
  BY DEF Ownership, Control, Progress, Drained, ActiveCount, Busy, Running, InStep
<1>3. Count
  BY DEF Count, Running
<1>4. \A v \in VertexID, b \in Buffers : Len(msgQueue[v][b]) = 0
  BY DEF NoQueues, EmptyQueue
<1>5. Stamps
  BY <1>4 DEF Stamps, InStep, Running
<1>6. Exchanged
  BY <1>4 DEF Exchanged
<1> QED BY <1>1, <1>2, <1>3, <1>5, <1>6 DEF StepInv

(* The inductive invariant holds of every execution of the graph and its   *)
(* workers: one counter and three channels keep the step in step.          *)
THEOREM StepInvariant == Spec => []StepInv
<1>1. StepInv /\ [Next]_vars => StepInv'
  BY TypeStep, OwnershipStep, ControlStep, CountStep, ProgressStep, StampsStep,
     DrainedStep, ActiveCountStep, ExchangedStep DEF StepInv
<1> QED BY <1>1, StepInvInit, PTL DEF Spec

(* Every variable stays in its type; in particular pendingInStep, the      *)
(* counter every worker decrements, never goes below zero.                 *)
THEOREM TypeCorrect == Spec => []TypeOK
<1>1. StepInv => TypeOK
  BY DEF StepInv
<1> QED BY <1>1, StepInvariant, PTL

(* When step() has returned no worker is at a vertex, and all were dealt   *)
(* with: for any number of workers and vertices.                           *)
THEOREM BarrierCorrect == Spec => []BarrierHolds
<1>1. StepInv => BarrierHolds
  BY DEF StepInv, Control, Progress, BarrierHolds, Running
<1> QED BY <1>1, StepInvariant, PTL

(* No message sent in a superstep is visible to a compute function of it.  *)
THEOREM Isolation == Spec => []SuperstepIsolation
<1>1. StepInv => SuperstepIsolation
  <2> SUFFICES ASSUME StepInv, Running, NEW v \in VertexID,
                      NEW i \in DOMAIN msgQueue[v][ReadBuffer]
               PROVE  msgQueue[v][ReadBuffer][i] < round
    BY DEF SuperstepIsolation
  <2>1. msgQueue[v][ReadBuffer] \in Seq(Nat)
    BY BufferParity DEF StepInv, TypeOK
  <2>2. i \in 1 .. Len(msgQueue[v][ReadBuffer])
    BY <2>1, LenProperties
  <2> QED BY <2>2 DEF StepInv, Stamps
<1> QED BY <1>1, StepInvariant, PTL

(* The buffer a step has read is empty when the step ends, but for the     *)
(* vertices whose compute function failed.                                 *)
THEOREM Drain == Spec => []ReadBuffersDrained
<1>1. StepInv => ReadBuffersDrained
  BY DEF StepInv, Drained, Progress, TypeOK, ReadBuffersDrained, InStep, HasUnread,
         PendingMessages
<1> QED BY <1>1, StepInvariant, PTL

(* A caller that halts when no vertex was active halts at rest, unless the *)
(* step came out of turn or a compute function of the one before failed:   *)
(* callbacks may have sent messages, but no compute function has.          *)
THEOREM SafeHalt == Spec => []HaltIsSafe
<1>1. ASSUME StepInv, pc = "post" PROVE HaltIsSafe
  <2>1. Computed = {v \in vertices : outcome[v] \in {"ok", "failed"}}
    BY <1>1 DEF StepInv, Control, Running, Computed, At
  <2>2. activeInStep = Cardinality(Computed)
    BY <1>1 DEF StepInv, ActiveCount, InStep
  <2>3. ASSUME activeInStep = 0, NEW v \in vertices
        PROVE  /\ ~active[v] /\ ~HasUnread(v)
               /\ LET q == msgQueue[v][WriteBuffer] IN \A i \in DOMAIN q : q[i] # round
               /\ OnTime /\ v \notin kept => AtRest(v)
    <3>1. IsFiniteSet(Computed)
      BY <1>1, <2>1, BSPAssumption, FS_Subset DEF StepInv, TypeOK
    <3>2. Computed = {}
      BY <2>2, <2>3, <3>1, FS_EmptySet
    <3>3. outcome[v] = "skipped"
      BY <1>1, <2>1, <3>2 DEF StepInv, Progress, TypeOK
    <3>4. ~active[v] /\ ~HasUnread(v)
      BY <1>1, <3>3 DEF StepInv, ActiveCount, Drained, InStep, HasUnread, PendingMessages
    <3>5. v \in VertexID /\ WriteBuffer \in Buffers
      BY <1>1, BufferParity DEF StepInv, TypeOK
    <3>6. \A i \in 1 .. Len(msgQueue[v][WriteBuffer]) : msgQueue[v][WriteBuffer][i] # round
      BY <1>1, <3>2, <3>5 DEF StepInv, ActiveCount, InStep
    <3>7. msgQueue[v][WriteBuffer] \in Seq(Nat)
      BY <1>1, <3>5 DEF StepInv, TypeOK
    <3>8. ASSUME OnTime, v \notin kept PROVE AtRest(v)
      <4>1. WriteBuffer = 1 - due /\ \A b \in Buffers : b = ReadBuffer \/ b = WriteBuffer
        BY <1>1, <3>8, BufferParity DEF StepInv, TypeOK, OnTime
      <4>2. \A i \in 1 .. Len(msgQueue[v][WriteBuffer]) : msgQueue[v][WriteBuffer][i] = Outside
        BY <1>1, <3>5, <3>6, <3>8, <4>1 DEF StepInv, Exchanged
      <4>3. Len(msgQueue[v][ReadBuffer]) = 0
        BY <3>4 DEF HasUnread, PendingMessages
      <4> QED BY <4>1, <4>2, <4>3 DEF AtRest
    <3> QED BY <3>4, <3>6, <3>7, <3>8, LenProperties
  <2> QED BY <1>1, <2>1, <2>2, <2>3 DEF HaltIsSafe
<1>2. StepInv => HaltIsSafe
  BY <1>1 DEF HaltIsSafe
<1> QED BY <1>2, StepInvariant, PTL

(* Mail is read in the next superstep, except where a compute function     *)
(* failed and after a run that stopped: a step that is on time drains the  *)
(* buffer it reads, and the other was drained by the step before.          *)
THEOREM MailIsOnTime == Spec => []ReadInNextStep
<1>1. ASSUME StepInv, pc = "post", OnTime, NEW v \in vertices \ kept, outcome[v] # "failed",
             NEW b \in Buffers, NEW i \in DOMAIN msgQueue[v][b]
      PROVE  msgQueue[v][b][i] \in {Outside, round}
  <2>1. v \in VertexID /\ msgQueue[v][b] \in Seq(Nat)
    BY <1>1 DEF StepInv, TypeOK
  <2>2. i \in 1 .. Len(msgQueue[v][b])
    BY <1>1, <2>1, LenProperties
  <2>3. b = ReadBuffer \/ b = 1 - due
    BY <1>1, BufferParity DEF StepInv, TypeOK, OnTime
  <2>4. outcome[v] \in {"skipped", "ok"}
    BY <1>1, <2>1 DEF StepInv, Progress, TypeOK
  <2>5. CASE b = ReadBuffer
    BY <1>1, <2>2, <2>4, <2>5 DEF StepInv, Drained, InStep
  <2>6. CASE b = 1 - due
    BY <1>1, <2>1, <2>2, <2>6 DEF StepInv, Exchanged
  <2> QED BY <2>3, <2>5, <2>6
<1>2. StepInv => ReadInNextStep
  BY <1>1 DEF ReadInNextStep
<1> QED BY <1>2, StepInvariant, PTL

(* No two workers are ever at one vertex, and what a step has done with a  *)
(* vertex it does not do again.                                            *)
THEOREM OneWorkerPerVertex == Spec => OncePerStep
<1>1. ASSUME StepInv, [Next]_vars PROVE OneWorkerEach
  BY <1>1 DEF StepInv, Ownership, OneWorkerEach
<1>2. ASSUME StepInv, [Next]_vars PROVE OutcomesStand
  <2>a. TypeOK /\ Progress
    BY <1>2 DEF StepInv
  <2>1. ASSUME NEW w \in Worker, NEW o \in Outcome,
               wpc[w] \in {"inspect", "compute"}, Busy(w),
               outcome' = [outcome EXCEPT ![held[w]] = o]
        PROVE  OutcomesStand
    <3>1. Running /\ held[w] \in vertices
      BY <1>2, <2>1 DEF StepInv, Control, Ownership, Busy
    <3>2. outcome[held[w]] = "none"
      BY <2>a, <2>1, <3>1 DEF Progress, At
    <3> QED BY <2>a, <2>1, <3>2 DEF TypeOK, OutcomesStand
  <2>2. ASSUME NEW w \in Worker, Inspect(w) PROVE OutcomesStand
    <3>1. CASE MustCompute(held[w])
      BY <2>2, <3>1 DEF Inspect, OutcomesStand
    <3>2. CASE ~MustCompute(held[w])
      BY <2>1, <2>2, <3>2 DEF Inspect, Busy
    <3> QED BY <3>1, <3>2
  <2>3. ASSUME NEW w \in Worker, Compute(w) PROVE OutcomesStand
    <3>1. CASE ComputeOK(w)
      BY <2>1, <3>1 DEF ComputeOK, Busy
    <3>2. CASE ComputeFails(w)
      BY <2>1, <3>2 DEF ComputeFails, Busy
    <3>3. CASE NextMessage(w) \/ Freeze(w) \/ StartSending(w) \/ Deliver(w)
      BY <3>3 DEF NextMessage, Freeze, StartSending, Deliver, OutcomesStand, history, delays
    <3> QED BY <2>3, <3>1, <3>2, <3>3 DEF Compute
  <2>4. CASE BeginStep
    BY <2>a, <2>4 DEF BeginStep, OutcomesStand, TypeOK
  <2>5. CASE Setup
    BY <2>5 DEF Setup, addVertex, CallerSend, AddEdge, NewExecutor, Reset, Close,
                OutcomesStand, history, delays
  <2>6. CASE Run /\ ~BeginStep
    BY <2>6 DEF Run, RunToCompletion, NextSuperstep, BreakBeforeStep, EndRun, StepIsOver, Signal,
                Dispatch, Closed, OutcomesStand, history, delays
  <2>7. ASSUME NEW w \in Worker, Finish(w) \/ WorkerExit(w) PROVE OutcomesStand
    BY <2>7 DEF Finish, WorkerExit, OutcomesStand, history, delays
  <2>8. CASE Terminated \/ UNCHANGED vars
    BY <2>8 DEF Terminated, vars, OutcomesStand, history, delays
  <2> QED BY <1>2, <2>2, <2>3, <2>4, <2>5, <2>6, <2>7, <2>8 DEF Next, WorkerStep
<1>3. StepInv /\ [Next]_vars => [OneWorkerEach /\ OutcomesStand]_vars
  BY <1>1, <1>2
<1> QED BY <1>3, StepInvariant, PTL DEF Spec, OncePerStep

(* Messages leave a queue only through its reader or with the whole graph. *)
THEOREM MessagesAreKept == Spec => NoMessageLost
<1>1. ASSUME StepInv, [Next]_vars PROVE OnlyReaderTakes
  <2>a. \A v \in VertexID, b \in Buffers : Len(msgQueue[v][b]) \in Nat
    BY <1>1, LenProperties DEF StepInv, TypeOK
  <2>1. CASE msgQueue' = msgQueue
    BY <2>a, <2>1 DEF OnlyReaderTakes
  <2>2. ASSUME NEW m, Grown(m) PROVE OnlyReaderTakes
    <3>1. \A v \in VertexID, b \in Buffers : Len(msgQueue'[v][b]) \in Nat
      BY <2>2, LenProperties DEF Grown
    <3> QED BY <2>a, <2>2, <3>1 DEF Grown, OnlyReaderTakes
  <2>3. ASSUME NEW w \in Worker, Shrunk(held[w]), wpc[w] = "compute" PROVE OnlyReaderTakes
    <3>1. \A v \in VertexID, b \in Buffers :
            v # held[w] \/ b # ReadBuffer => msgQueue'[v][b] = msgQueue[v][b]
      BY <2>3 DEF Shrunk
    <3> QED BY <2>a, <2>3, <3>1 DEF OnlyReaderTakes
  <2>4. ASSUME NEW w \in Worker, Compute(w) PROVE OnlyReaderTakes
    BY <1>1, <2>1, <2>2, <2>3, <2>4, ComputeQueues
  <2>5. ASSUME NEW w \in Worker, Inspect(w) PROVE OnlyReaderTakes
    BY <2>1, <2>5 DEF Inspect
  <2>6. ASSUME NEW w \in Worker,
               Signal(w) \/ Finish(w) \/ \E v \in VertexID : Dispatch(w, v)
        PROVE  OnlyReaderTakes
    BY <1>1, <2>1, <2>6, HandOver
  <2>7. CASE Setup
    <3>1. ASSUME NEW id \in VertexID, CallerSend(id) PROVE OnlyReaderTakes
      BY <1>1, <2>2, <3>1, SendGrows DEF CallerSend, StepInv
    <3>2. CASE Reset
      BY <3>2 DEF Reset, ResetGraph, OnlyReaderTakes
    <3> QED BY <2>1, <2>7, <3>1, <3>2 DEF Setup, addVertex, AddEdge, NewExecutor, Close
  <2>8. CASE BeginStep \/ NextSuperstep \/ RunToCompletion
    BY <2>1, <2>8 DEF BeginStep, NextSuperstep, RunToCompletion
  <2>9. ASSUME NEW e \in Result, EndRun(e) \/ BreakBeforeStep(e) PROVE OnlyReaderTakes
    BY <2>1, <2>9 DEF EndRun, BreakBeforeStep
  <2>10. CASE Closed
    BY <2>10 DEF Closed, ResetGraph, OnlyReaderTakes
  <2>11. ASSUME NEW w \in Worker, WorkerExit(w) PROVE OnlyReaderTakes
    BY <2>1, <2>11 DEF WorkerExit
  <2>12. CASE Terminated \/ UNCHANGED vars
    BY <2>1, <2>12 DEF Terminated, vars
  <2> QED BY <1>1, <2>4, <2>5, <2>6, <2>7, <2>8, <2>9, <2>10, <2>11, <2>12
          DEF Next, WorkerStep, Run
<1>2. StepInv /\ [Next]_vars => [OnlyReaderTakes]_vars
  BY <1>1
<1> QED BY <1>2, StepInvariant, PTL DEF Spec, NoMessageLost

(* What a compute function returns reaches no run: an unbuffered errCh is  *)
(* always empty (graph.go:281, 313-318).                                   *)
ErrorLost == errCh = << >> /\ err # "compute"

THEOREM ErrorsAreLost == Spec => []ErrorLost
<1>1. Init => ErrorLost
  BY DEF Init, ErrorLost
<1>2. ErrorLost /\ [Next]_vars => ErrorLost'
  <2> SUFFICES ASSUME ErrorLost, [Next]_vars
               PROVE  ErrorLost'
    OBVIOUS
  <2>1. CASE UNCHANGED <<errCh, err>>
    BY <2>1 DEF ErrorLost
  <2>2. CASE Setup
    <3>1. UNCHANGED <<errCh, err>>
      BY <2>2 DEF Setup, addVertex, CallerSend, AddEdge, NewExecutor, Reset, Close, countVars, callerVars
    <3> QED BY <2>1, <3>1
  <2>3. CASE RunToCompletion \/ BeginStep \/ NextSuperstep \/ Closed
    BY <2>3 DEF RunToCompletion, BeginStep, NextSuperstep, Closed, countVars, ErrorLost
  <2>4. ASSUME NEW e \in {"ctx", "callback"}, BreakBeforeStep(e)
        PROVE  ErrorLost'
    BY <2>4 DEF BreakBeforeStep, countVars, ErrorLost
  <2>5. ASSUME NEW e \in Result, EndRun(e)
        PROVE  ErrorLost'
    BY <2>5 DEF EndRun, countVars, ErrorLost
  <2>6. ASSUME NEW w \in Worker, Signal(w) \/ \E v \in VertexID : Dispatch(w, v)
        PROVE  ErrorLost'
    BY <2>6 DEF Signal, Dispatch, countVars, ErrorLost
  <2>7. ASSUME NEW w \in Worker, ComputeFails(w)
        PROVE  UNCHANGED <<errCh, err>>
    <3>1. ~(Len(errCh) < ErrChCap)
      BY DEF ErrorLost, ErrChCap
    <3> QED BY <2>7, <3>1 DEF ComputeFails, TryEmitError, callerVars
  <2>8. ASSUME NEW w \in Worker, WorkerStep(w), ~ComputeFails(w)
        PROVE  UNCHANGED <<errCh, err>>
    BY <2>8 DEF WorkerStep, Compute, Inspect, Finish, WorkerExit, NextMessage, Freeze,
       StartSending, Deliver, ComputeOK, countVars, callerVars
  <2>9. CASE Terminated \/ UNCHANGED vars
    BY <2>1, <2>9 DEF Terminated, vars, countVars, callerVars
  <2> QED BY <2>1, <2>2, <2>3, <2>4, <2>5, <2>6, <2>7, <2>8, <2>9 DEF Next, Run
<1> QED BY <1>1, <1>2, PTL DEF Spec
=============================================================================
