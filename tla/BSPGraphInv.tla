---------------------------- MODULE BSPGraphInv ----------------------------
(***************************************************************************)
(* The inductive invariant behind the safety properties of BSPGraph: why   *)
(* one counter, three channels and the parity of superstep are enough to   *)
(* keep the workers of a step in step.                                     *)
(***************************************************************************)
EXTENDS BSPGraph

(* Vertices of the step whose decrement of pendingInStep is to come.       *)
Unfinished == todo \cup At({"inspect", "compute", "finish"})

(* Vertices whose compute function was started in the current step.        *)
Computed == {v \in vertices : outcome[v] \in {"ok", "failed"}} \cup At({"compute"})

InStep == pc \in {"dispatch", "await", "post"}

(* A vertex is on vertexCh or with one worker.                             *)
Ownership ==
  /\ \A w \in Worker : Busy(w) => held[w] \in vertices \ todo
  /\ \A w, x \in Worker : Busy(w) /\ Busy(x) /\ held[w] = held[x] => w = x

(* Workers leave the channels only while step() runs.                      *)
Control ==
  /\ pc = "dispatch" <=> todo # {}
  /\ ~Running => \A w \in Worker : wpc[w] \in {"recv", "exited"}

(* The counter is the number of unfinished vertices, so its last decrement *)
(* is the last act of the step.                                            *)
Count ==
  /\ Running => pendingInStep = Cardinality(Unfinished)
  /\ \A w \in Worker : wpc[w] = "signal" => Unfinished = {}
  /\ \A w, x \in Worker : wpc[w] = "signal" /\ wpc[x] = "signal" => w = x

(* A vertex has an outcome once it is past its compute function.           *)
Progress ==
  /\ Running => \A v \in vertices :
       outcome[v] = "none" <=> v \in todo \cup At({"inspect", "compute"})
  /\ pc = "post" => \A v \in vertices : outcome[v] # "none"

(* No message is from the future, and what is read is from the past.       *)
Stamps ==
  /\ InStep => round > 0
  /\ \A v \in VertexID, b \in Buffers : \A i \in 1 .. Len(msgQueue[v][b]) :
       msgQueue[v][b][i] <= round
  /\ Running => \A v \in VertexID : \A i \in 1 .. Len(msgQueue[v][ReadBuffer]) :
       msgQueue[v][ReadBuffer][i] < round

(* A vertex that was skipped or computed without error has read its mail.  *)
Drained ==
  InStep => \A v \in vertices :
    outcome[v] \in {"skipped", "ok"} => Len(msgQueue[v][ReadBuffer]) = 0

(* activeInStep counts the compute functions started; one that was not     *)
(* has left its vertex inactive, and without any nothing was sent.         *)
ActiveCount ==
  InStep =>
    /\ activeInStep = Cardinality(Computed)
    /\ \A v \in vertices : outcome[v] = "skipped" => ~active[v]
    /\ Computed = {} => \A v \in VertexID, b \in Buffers :
         \A i \in 1 .. Len(msgQueue[v][b]) : msgQueue[v][b][i] # round

(* The buffer the previous step read was empty when it ended, but where a  *)
(* compute function failed: it fills with what callers send and, if it is  *)
(* the one to be written to, with what the current step sends.             *)
Exchanged ==
  /\ \A v \in VertexID \ vertices, b \in Buffers : Len(msgQueue[v][b]) = 0
  /\ \A v \in VertexID \ kept : \A i \in 1 .. Len(msgQueue[v][1 - due]) :
       \/ msgQueue[v][1 - due][i] = Outside
       \/ InStep /\ OnTime /\ msgQueue[v][1 - due][i] = round

(* The inductive invariant of the worker pool and its executor.            *)
StepInv ==
  /\ TypeOK /\ Ownership /\ Control /\ Count
  /\ Progress /\ Stamps /\ Drained /\ ActiveCount
  /\ Exchanged
=============================================================================
